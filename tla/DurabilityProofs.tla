-------------------------- MODULE DurabilityProofs --------------------------
(***************************************************************************)
(* What the store holds through crashes, for any number of accounts,       *)
(* heights and crashes: TypeOK for every set of tasks, and the three       *)
(* invariants about the stored chain when the consensus task is alone.     *)
(*                                                                         *)
(* The proof follows the list of steps a handler has still to do.  Planned *)
(* says what each kind of step needs when its turn comes: a commit finds   *)
(* its parent as the latest block and its height in the WAL, and is        *)
(* followed by an advance; accounts belong to the block about to be or     *)
(* just committed; a snapshot is the last step.                            *)
(***************************************************************************)
EXTENDS Durability, SequenceTheorems, TLAPS

Heights == 1..MaxHeight

Op ==
    [op : {"account"}, account : Accounts, height : Heights]
    \cup [op : {"staking"}, value : Seq(Nat)]
    \cup [op : {"wal", "commit", "execute"}, height : Heights]
    \cup [op : {"advance"}, height : 1..(MaxHeight + 1)]
    \cup [op : {"snapshot"}]

Store ==
    [accounts : [Accounts -> 0..MaxHeight], staking : Seq(Nat),
     blocks : SUBSET Heights, latest : 0..MaxHeight,
     walCommit : 0..MaxHeight, snap : 0..(MaxHeight + 1)]

TypeInv ==
    /\ disk \in Store
    /\ up \in BOOLEAN
    /\ height \in 1..(MaxHeight + 1)
    /\ todo \in [Tasks -> Seq(Op)]
    /\ tip \in 0..MaxHeight
    /\ crashes \in 0..MaxCrashes

\* The steps the consensus task has still to do.
Plan == todo["consensus"]

\* A block waits for the store only when it comes next, the WAL knows of it
\* or will before, and the engine will move on.
CommitPlanned(q, d, i) ==
    /\ q[i].height = d.latest + 1
    /\ \A j \in DOMAIN q : q[j].op = "commit" => j = i
    /\ \/ d.walCommit >= q[i].height
       \/ \E j \in DOMAIN q : j < i /\ q[j].op = "wal" /\ q[j].height = q[i].height
    /\ \E j \in DOMAIN q : j > i /\ q[j].op = "advance"

AdvancePlanned(q, d, i) ==
    /\ q[i].height > d.latest
    /\ \A j \in DOMAIN q : q[j].op = "commit" => q[i].height > q[j].height

AccountPlanned(q, d, i) ==
    /\ q[i].height \in {d.latest, d.latest + 1}
    /\ \A j \in DOMAIN q : q[j].op = "commit" => q[i].height = q[j].height

ExecutePlanned(q, d, i) ==
    /\ i = Len(q)
    /\ \/ i = 1 /\ d.walCommit >= q[i].height
       \/ i = 2 /\ q[1].op = "wal" /\ q[1].height = q[2].height

Planned(q, d) ==
    \A i \in DOMAIN q :
        /\ q[i].op = "commit" => CommitPlanned(q, d, i)
        /\ q[i].op = "advance" => AdvancePlanned(q, d, i)
        /\ q[i].op = "account" => AccountPlanned(q, d, i)
        /\ q[i].op = "execute" => ExecutePlanned(q, d, i)
        /\ q[i].op = "snapshot" => i = Len(q)

\* The engine is past the latest block, or about to be.
Ahead(q, d, h) ==
    \/ h > d.latest
    \/ \E i \in DOMAIN q : q[i].op = "advance"

\* What is on disk leads recover_snapshot past the latest block.
Recoverable(d) ==
    \/ d.snap = 0
    \/ d.snap > d.latest
    \/ d.walCommit >= d.latest

\* The chain on disk, and the accounts beside it.
WellStored(d) ==
    /\ d.blocks = 1..d.latest
    /\ \A a \in Accounts : d.accounts[a] \in {d.latest, d.latest + 1}

ChainInv ==
    /\ TypeInv
    /\ Planned(Plan, disk)
    /\ up => Ahead(Plan, disk, height)
    /\ Recoverable(disk)
    /\ WellStored(disk)

-----------------------------------------------------------------------------
(* The lists of steps, step by step.                                       *)

LEMMA OneStep ==
    ASSUME NEW w \in Op
    PROVE  <<w>> \in Seq(Op) /\ Len(<<w>>) = 1 /\ <<w>>[1] = w
OBVIOUS

LEMMA Joined ==
    ASSUME NEW s \in Seq(Op), NEW t \in Seq(Op)
    PROVE  /\ s \o t \in Seq(Op)
           /\ Len(s \o t) = Len(s) + Len(t)
           /\ \A i \in 1..Len(s) : (s \o t)[i] = s[i]
           /\ \A i \in 1..Len(t) : (s \o t)[Len(s) + i] = t[i]
<1>1. /\ s \o t \in Seq(Op)
      /\ Len(s \o t) = Len(s) + Len(t)
      /\ \A i \in 1..(Len(s) + Len(t)) :
            (s \o t)[i] = IF i <= Len(s) THEN s[i] ELSE t[i - Len(s)]
  BY ConcatProperties
<1>2. \A i \in 1..Len(s) : (s \o t)[i] = s[i]
  BY <1>1
<1>3. ASSUME NEW i \in 1..Len(t) PROVE (s \o t)[Len(s) + i] = t[i]
  <2>1. /\ Len(s) + i \in 1..(Len(s) + Len(t))
        /\ ~(Len(s) + i <= Len(s)) /\ (Len(s) + i) - Len(s) = i
    OBVIOUS
  <2> QED
    BY <1>1, <2>1
<1> QED
  BY <1>1, <1>2, <1>3

LEMMA AccountingSteps ==
    ASSUME NEW d \in Store, NEW h \in Heights
    PROVE  /\ PersistAccounting(d, h) \in Seq(Op)
           /\ Len(PersistAccounting(d, h)) = NumAccounts + 1
           /\ \A i \in 1..NumAccounts :
                 /\ PersistAccounting(d, h)[i].op = "account"
                 /\ PersistAccounting(d, h)[i].height = h
           /\ PersistAccounting(d, h)[NumAccounts + 1].op = "staking"
<1> DEFINE acc == [a \in Accounts |-> [op |-> "account", account |-> a, height |-> h]]
           stk == [op |-> "staking", value |-> Append(d.staking, h)]
<1>1. NumAccounts \in Nat
  BY SizesAssumption
<1>2. \A a \in Accounts : [op |-> "account", account |-> a, height |-> h] \in Op
  BY DEF Op
<1>3. acc \in Seq(Op) /\ Len(acc) = NumAccounts
  BY <1>1, <1>2 DEF Accounts
<1>4. \A i \in 1..NumAccounts : acc[i].op = "account" /\ acc[i].height = h
  BY DEF Accounts
<1>5. d.staking \in Seq(Nat) /\ h \in Nat
  BY SizesAssumption DEF Store, Heights
<1>6. Append(d.staking, h) \in Seq(Nat)
  BY <1>5
<1>7. stk \in Op /\ stk.op = "staking"
  BY <1>6 DEF Op
<1>8. PersistAccounting(d, h) = acc \o <<stk>>
  BY DEF PersistAccounting
<1> HIDE DEF acc, stk
<1>9. <<stk>> \in Seq(Op) /\ Len(<<stk>>) = 1 /\ <<stk>>[1] = stk
  BY <1>7, OneStep
<1>10. /\ acc \o <<stk>> \in Seq(Op)
       /\ Len(acc \o <<stk>>) = NumAccounts + 1
       /\ \A i \in 1..(NumAccounts + 1) :
             (acc \o <<stk>>)[i] = IF i <= NumAccounts THEN acc[i] ELSE <<stk>>[i - NumAccounts]
  BY <1>3, <1>9, ConcatProperties
<1> QED
  BY <1>1, <1>4, <1>7, <1>8, <1>9, <1>10

LEMMA AdvanceSteps ==
    ASSUME NEW n \in 1..(MaxHeight + 1)
    PROVE  /\ AdvanceHeight(n) \in Seq(Op)
           /\ Len(AdvanceHeight(n)) = 2
           /\ AdvanceHeight(n)[1].op = "advance" /\ AdvanceHeight(n)[1].height = n
           /\ AdvanceHeight(n)[2].op = "snapshot"
<1>1. [op |-> "advance", height |-> n] \in Op /\ [op |-> "snapshot"] \in Op
  BY DEF Op
<1> QED
  BY <1>1 DEF AdvanceHeight

LEMMA WalAndCommitSteps ==
    ASSUME NEW h \in Heights
    PROVE  /\ WalCommitFinalized(h) \in Seq(Op) /\ Len(WalCommitFinalized(h)) = 1
           /\ WalCommitFinalized(h)[1].op = "wal" /\ WalCommitFinalized(h)[1].height = h
           /\ AtomicCommitBlock(h) \in Seq(Op) /\ Len(AtomicCommitBlock(h)) = 1
           /\ AtomicCommitBlock(h)[1].op = "commit" /\ AtomicCommitBlock(h)[1].height = h
<1>1. [op |-> "wal", height |-> h] \in Op /\ [op |-> "commit", height |-> h] \in Op
  BY DEF Op
<1> QED
  BY <1>1 DEF WalCommitFinalized, AtomicCommitBlock

\* finalize: accounts, staking, WAL, commit, advance, snapshot.
LEMMA FinalizeSteps ==
    ASSUME NEW d \in Store, NEW h \in Heights, PrepareBlock(d, h)
    PROVE  LET q == Finalize(d, h)
               N == NumAccounts
           IN  /\ q \in Seq(Op)
               /\ Len(q) = N + 5
               /\ \A i \in 1..N : q[i].op = "account" /\ q[i].height = h
               /\ q[N + 1].op = "staking"
               /\ q[N + 2].op = "wal" /\ q[N + 2].height = h
               /\ q[N + 3].op = "commit" /\ q[N + 3].height = h
               /\ q[N + 4].op = "advance" /\ q[N + 4].height = h + 1
               /\ q[N + 5].op = "snapshot"
<1> DEFINE N == NumAccounts
           p == PersistAccounting(d, h)
           w == WalCommitFinalized(h)
           c == AtomicCommitBlock(h)
           a == AdvanceHeight(h + 1)
           pw == p \o w
           pwc == pw \o c
           pwca == pwc \o a
<1>1. N \in Nat /\ h + 1 \in 1..(MaxHeight + 1)
  BY SizesAssumption DEF Heights
<1>2. Finalize(d, h) = pwca
  BY DEF Finalize
<1>3. /\ p \in Seq(Op) /\ Len(p) = N + 1
      /\ \A i \in 1..N : p[i].op = "account" /\ p[i].height = h
      /\ p[N + 1].op = "staking"
  BY AccountingSteps
<1>4. /\ w \in Seq(Op) /\ Len(w) = 1 /\ w[1].op = "wal" /\ w[1].height = h
      /\ c \in Seq(Op) /\ Len(c) = 1 /\ c[1].op = "commit" /\ c[1].height = h
  BY WalAndCommitSteps
<1>5. /\ a \in Seq(Op) /\ Len(a) = 2
      /\ a[1].op = "advance" /\ a[1].height = h + 1 /\ a[2].op = "snapshot"
  BY <1>1, AdvanceSteps
<1> HIDE DEF p, w, c, a, N
<1>6. /\ pw \in Seq(Op) /\ Len(pw) = (N + 1) + 1
      /\ \A i \in 1..(N + 1) : pw[i] = p[i]
      /\ \A i \in 1..1 : pw[N + 1 + i] = w[i]
  <2>1. /\ p \o w \in Seq(Op)
        /\ Len(p \o w) = Len(p) + Len(w)
        /\ \A i \in 1..Len(p) : (p \o w)[i] = p[i]
        /\ \A i \in 1..Len(w) : (p \o w)[Len(p) + i] = w[i]
    BY <1>3, <1>4, Joined
  <2> QED
    BY <2>1, <1>3, <1>4
<1>7. /\ Len(pw) = N + 2
      /\ \A i \in 1..N : pw[i] = p[i]
      /\ pw[N + 1] = p[N + 1] /\ pw[N + 2] = w[1]
  BY <1>1, <1>6
<1> HIDE DEF pw
<1>8. /\ pwc \in Seq(Op) /\ Len(pwc) = (N + 2) + 1
      /\ \A i \in 1..(N + 2) : pwc[i] = pw[i]
      /\ \A i \in 1..1 : pwc[N + 2 + i] = c[i]
  <2>1. /\ pw \o c \in Seq(Op)
        /\ Len(pw \o c) = Len(pw) + Len(c)
        /\ \A i \in 1..Len(pw) : (pw \o c)[i] = pw[i]
        /\ \A i \in 1..Len(c) : (pw \o c)[Len(pw) + i] = c[i]
    BY <1>4, <1>6, <1>7, Joined
  <2> QED
    BY <2>1, <1>4, <1>6, <1>7
<1>9. /\ Len(pwc) = N + 3
      /\ \A i \in 1..N : pwc[i] = p[i]
      /\ pwc[N + 1] = p[N + 1] /\ pwc[N + 2] = w[1] /\ pwc[N + 3] = c[1]
  BY <1>1, <1>7, <1>8
<1> HIDE DEF pwc
<1>10. /\ pwca \in Seq(Op) /\ Len(pwca) = (N + 3) + 2
       /\ \A i \in 1..(N + 3) : pwca[i] = pwc[i]
       /\ \A i \in 1..2 : pwca[N + 3 + i] = a[i]
  <2>1. /\ pwc \o a \in Seq(Op)
        /\ Len(pwc \o a) = Len(pwc) + Len(a)
        /\ \A i \in 1..Len(pwc) : (pwc \o a)[i] = pwc[i]
        /\ \A i \in 1..Len(a) : (pwc \o a)[Len(pwc) + i] = a[i]
    BY <1>5, <1>8, <1>9, Joined
  <2> QED
    BY <2>1, <1>5, <1>8, <1>9
<1> HIDE DEF pwca
<1>11. /\ Len(pwca) = N + 5
       /\ \A i \in 1..N : pwca[i] = p[i]
       /\ pwca[N + 1] = p[N + 1] /\ pwca[N + 2] = w[1] /\ pwca[N + 3] = c[1]
       /\ pwca[N + 4] = a[1] /\ pwca[N + 5] = a[2]
  BY <1>1, <1>9, <1>10
<1> QED
  BY <1>2, <1>3, <1>4, <1>5, <1>10, <1>11 DEF N

\* An import that executes: commit, accounts, staking, advance, snapshot.
LEMMA ExecuteSteps ==
    ASSUME NEW d \in Store, NEW h \in Heights, PrepareBlock(d, h)
    PROVE  LET q == ExecuteAndCommit(d, h)
               N == NumAccounts
           IN  /\ q \in Seq(Op)
               /\ Len(q) = N + 4
               /\ q[1].op = "commit" /\ q[1].height = h
               /\ \A i \in 2..(N + 1) : q[i].op = "account" /\ q[i].height = h
               /\ q[N + 2].op = "staking"
               /\ q[N + 3].op = "advance" /\ q[N + 3].height = h + 1
               /\ q[N + 4].op = "snapshot"
<1> DEFINE N == NumAccounts
           p == PersistAccounting(d, h)
           c == AtomicCommitBlock(h)
           a == AdvanceHeight(h + 1)
           cp == c \o p
           cpa == cp \o a
<1>1. N \in Nat /\ h + 1 \in 1..(MaxHeight + 1)
  BY SizesAssumption DEF Heights
<1>2. ExecuteAndCommit(d, h) = cpa
  BY DEF ExecuteAndCommit
<1>3. /\ p \in Seq(Op) /\ Len(p) = N + 1
      /\ \A i \in 1..N : p[i].op = "account" /\ p[i].height = h
      /\ p[N + 1].op = "staking"
  BY AccountingSteps
<1>4. c \in Seq(Op) /\ Len(c) = 1 /\ c[1].op = "commit" /\ c[1].height = h
  BY WalAndCommitSteps
<1>5. /\ a \in Seq(Op) /\ Len(a) = 2
      /\ a[1].op = "advance" /\ a[1].height = h + 1 /\ a[2].op = "snapshot"
  BY <1>1, AdvanceSteps
<1> HIDE DEF p, c, a, N
<1>6. /\ cp \in Seq(Op) /\ Len(cp) = 1 + (N + 1)
      /\ \A i \in 1..1 : cp[i] = c[i]
      /\ \A i \in 1..(N + 1) : cp[1 + i] = p[i]
  <2>1. /\ c \o p \in Seq(Op)
        /\ Len(c \o p) = Len(c) + Len(p)
        /\ \A i \in 1..Len(c) : (c \o p)[i] = c[i]
        /\ \A i \in 1..Len(p) : (c \o p)[Len(c) + i] = p[i]
    BY <1>3, <1>4, Joined
  <2> QED
    BY <2>1, <1>3, <1>4
<1> HIDE DEF cp
<1>7. Len(cp) = N + 2 /\ cp[1] = c[1] /\ cp[N + 2] = p[N + 1]
  <2>1. N + 1 \in 1..(N + 1) /\ 1 + (N + 1) = N + 2
    BY <1>1
  <2> QED
    BY <1>6, <2>1
<1>8. /\ cpa \in Seq(Op) /\ Len(cpa) = (N + 2) + 2
      /\ \A i \in 1..(N + 2) : cpa[i] = cp[i]
      /\ \A i \in 1..2 : cpa[N + 2 + i] = a[i]
  <2>1. /\ cp \o a \in Seq(Op)
        /\ Len(cp \o a) = Len(cp) + Len(a)
        /\ \A i \in 1..Len(cp) : (cp \o a)[i] = cp[i]
        /\ \A i \in 1..Len(a) : (cp \o a)[Len(cp) + i] = a[i]
    BY <1>5, <1>6, <1>7, Joined
  <2> QED
    BY <2>1, <1>5, <1>6, <1>7
<1> HIDE DEF cpa
<1>9. Len(cpa) = N + 4 /\ cpa[N + 3] = a[1] /\ cpa[N + 4] = a[2]
  BY <1>1, <1>8
<1>10. \A i \in 2..(N + 1) : cpa[i].op = "account" /\ cpa[i].height = h
  <2> TAKE i \in 2..(N + 1)
  <2>1. i - 1 \in 1..N /\ i - 1 \in 1..(N + 1) /\ 1 + (i - 1) = i /\ i \in 1..(N + 2)
    BY <1>1
  <2>2. cpa[i] = cp[i] /\ cp[1 + (i - 1)] = p[i - 1]
    BY <1>6, <1>8, <2>1
  <2> QED
    BY <1>3, <2>1, <2>2
<1> QED
  BY <1>1, <1>2, <1>3, <1>4, <1>5, <1>7, <1>8, <1>9, <1>10 DEF N

LEMMA ImportSteps ==
    ASSUME NEW h \in Heights
    PROVE  /\ Import(h) \in Seq(Op)
           /\ Len(Import(h)) = 2
           /\ Import(h)[1].op = "wal" /\ Import(h)[1].height = h
           /\ Import(h)[2].op = "execute" /\ Import(h)[2].height = h
<1> DEFINE w == WalCommitFinalized(h)
           e == [op |-> "execute", height |-> h]
<1>1. w \in Seq(Op) /\ Len(w) = 1 /\ w[1].op = "wal" /\ w[1].height = h
  BY WalAndCommitSteps
<1>2. e \in Op /\ e.op = "execute" /\ e.height = h
  BY DEF Op
<1>3. Import(h) = w \o <<e>>
  BY DEF Import
<1> HIDE DEF w, e
<1>4. <<e>> \in Seq(Op) /\ Len(<<e>>) = 1 /\ <<e>>[1] = e
  BY <1>2, OneStep
<1>5. /\ w \o <<e>> \in Seq(Op) /\ Len(w \o <<e>>) = 1 + 1
      /\ \A i \in 1..1 : (w \o <<e>>)[i] = w[i]
      /\ \A i \in 1..1 : (w \o <<e>>)[1 + i] = <<e>>[i]
  <2>1. /\ w \o <<e>> \in Seq(Op)
        /\ Len(w \o <<e>>) = Len(w) + Len(<<e>>)
        /\ \A i \in 1..Len(w) : (w \o <<e>>)[i] = w[i]
        /\ \A i \in 1..Len(<<e>>) : (w \o <<e>>)[Len(w) + i] = <<e>>[i]
    BY <1>1, <1>4, Joined
  <2> QED
    BY <1>1, <1>4, <2>1
<1> QED
  BY <1>1, <1>2, <1>3, <1>4, <1>5

\* A list that is refused is empty; any list is one of steps.
LEMMA ListsOfSteps ==
    ASSUME NEW d \in Store, NEW h \in Heights
    PROVE  /\ Finalize(d, h) \in Seq(Op)
           /\ ~PrepareBlock(d, h) => Finalize(d, h) = << >>
           /\ ExecuteAndCommit(d, h) \in Seq(Op)
           /\ ~PrepareBlock(d, h) => ExecuteAndCommit(d, h) = << >>
<1>1. << >> \in Seq(Op)
  OBVIOUS
<1>2. CASE PrepareBlock(d, h)
  BY <1>2, FinalizeSteps, ExecuteSteps
<1>3. CASE ~PrepareBlock(d, h)
  BY <1>1, <1>3 DEF Finalize, ExecuteAndCommit
<1> QED
  BY <1>2, <1>3

-----------------------------------------------------------------------------
(* One step.                                                               *)

\* What each field of the store becomes.
LEMMA WriteEffect ==
    ASSUME NEW d \in Store, NEW w \in Op, NEW h \in 1..(MaxHeight + 1)
    PROVE  LET e == Write(d, w, h)
           IN  /\ e \in Store
               /\ e.latest = IF w.op = "commit" THEN w.height ELSE d.latest
               /\ e.blocks = IF w.op = "commit" THEN d.blocks \cup {w.height} ELSE d.blocks
               /\ e.walCommit = IF w.op = "wal" /\ w.height > d.walCommit
                                THEN w.height ELSE d.walCommit
               /\ e.snap = IF w.op = "snapshot" THEN h ELSE d.snap
               /\ \A a \in Accounts :
                     e.accounts[a] = IF w.op = "commit" \/ (w.op = "account" /\ w.account = a)
                                     THEN w.height ELSE d.accounts[a]
<1> MaxHeight \in Nat
  BY SizesAssumption
<1> DEFINE e == Write(d, w, h)
           acc(a) == IF w.op = "commit" \/ (w.op = "account" /\ w.account = a)
                     THEN w.height ELSE d.accounts[a]
<1>0. /\ d.accounts \in [Accounts -> 0..MaxHeight] /\ d.staking \in Seq(Nat)
      /\ d.blocks \in SUBSET Heights /\ d.latest \in 0..MaxHeight
      /\ d.walCommit \in 0..MaxHeight /\ d.snap \in 0..(MaxHeight + 1)
      /\ d = [accounts |-> d.accounts, staking |-> d.staking, blocks |-> d.blocks,
              latest |-> d.latest, walCommit |-> d.walCommit, snap |-> d.snap]
  BY DEF Store
<1>1. w.op \in {"account", "staking", "wal", "commit", "execute", "advance", "snapshot"}
  BY DEF Op
<1>2. CASE w.op = "account"
  <2>1. w.account \in Accounts /\ w.height \in 0..MaxHeight
    BY <1>2 DEF Op, Heights
  <2>2. e = [d EXCEPT !.accounts[w.account] = w.height]
    BY <1>2 DEF Write
  <2> HIDE DEF e
  <2>3. e = [d EXCEPT !.accounts = [d.accounts EXCEPT ![w.account] = w.height]]
    BY <2>2
  <2>4. [d.accounts EXCEPT ![w.account] = w.height] \in [Accounts -> 0..MaxHeight]
    BY <1>0, <2>1
  <2>5. e \in Store
    BY <2>3, <2>4 DEF Store
  <2>6. /\ e.accounts = [d.accounts EXCEPT ![w.account] = w.height]
        /\ e.latest = d.latest /\ e.blocks = d.blocks
        /\ e.walCommit = d.walCommit /\ e.snap = d.snap
    BY <1>0, <2>3
  <2>7. \A a \in Accounts : e.accounts[a] = acc(a)
    BY <1>0, <1>2, <2>6
  <2> QED
    BY <1>2, <2>5, <2>6, <2>7 DEF e
<1>3. CASE w.op = "staking"
  <2>1. w.value \in Seq(Nat)
    BY <1>3 DEF Op
  <2>2. Write(d, w, h) = [d EXCEPT !.staking = w.value]
    BY <1>3 DEF Write
  <2> QED
    BY <1>3, <2>1, <2>2 DEF Store
<1>4. CASE w.op = "wal"
  <2>1. w.height \in 0..MaxHeight
    BY <1>4 DEF Op, Heights
  <2>2. Write(d, w, h) = [d EXCEPT !.walCommit = IF w.height > @ THEN w.height ELSE @]
    BY <1>4 DEF Write
  <2> QED
    BY <1>4, <2>1, <2>2 DEF Store
<1>5. CASE w.op = "commit"
  <2>1. w.height \in 0..MaxHeight /\ w.height \in Heights
    BY <1>5 DEF Op, Heights
  <2>2. e = [d EXCEPT !.accounts = [a \in Accounts |-> w.height],
                      !.blocks = @ \cup {w.height},
                      !.latest = w.height]
    BY <1>5 DEF Write
  <2> HIDE DEF e
  <2>3. [a \in Accounts |-> w.height] \in [Accounts -> 0..MaxHeight]
    BY <2>1
  <2>4. /\ e.accounts = [a \in Accounts |-> w.height] /\ e.latest = w.height
        /\ e.blocks = d.blocks \cup {w.height} /\ e.staking = d.staking
        /\ e.walCommit = d.walCommit /\ e.snap = d.snap
    BY <1>0, <2>2
  <2>5. e = [accounts |-> e.accounts, staking |-> e.staking, blocks |-> e.blocks,
             latest |-> e.latest, walCommit |-> e.walCommit, snap |-> e.snap]
    BY <1>0, <2>2
  <2>6. e.blocks \in SUBSET Heights
    BY <1>0, <2>1, <2>4
  <2>7. e \in Store
    BY <1>0, <2>1, <2>3, <2>4, <2>5, <2>6 DEF Store
  <2>8. \A a \in Accounts : e.accounts[a] = acc(a)
    BY <1>5, <2>4
  <2> QED
    BY <1>5, <2>4, <2>7, <2>8 DEF e
<1>6. CASE w.op = "snapshot"
  <2>1. e = [d EXCEPT !.snap = h]
    BY <1>6 DEF Write
  <2> HIDE DEF e
  <2>2. /\ e.accounts = d.accounts /\ e.latest = d.latest /\ e.blocks = d.blocks
        /\ e.walCommit = d.walCommit /\ e.snap = h
    BY <1>0, <2>1
  <2>3. e \in Store
    BY <2>1 DEF Store
  <2>4. \A a \in Accounts : e.accounts[a] = acc(a)
    BY <1>6, <2>2
  <2> QED
    BY <1>6, <2>2, <2>3, <2>4 DEF e
<1>7. CASE w.op \in {"advance", "execute"}
  <2>1. Write(d, w, h) = d
    BY <1>7 DEF Write
  <2> QED
    BY <1>7, <2>1
<1> QED
  BY <1>1, <1>2, <1>3, <1>4, <1>5, <1>6, <1>7

\* What a step leaves to do.
Rest(q, d) ==
    IF Head(q).op = "execute" THEN ExecuteAndCommit(d, Head(q).height) ELSE Tail(q)

LEMMA RestTyped ==
    ASSUME NEW q \in Seq(Op), q # << >>, NEW d \in Store
    PROVE  Head(q) \in Op /\ Rest(q, d) \in Seq(Op)
<1>1. Head(q) \in Op /\ Tail(q) \in Seq(Op)
  BY HeadTailProperties
<1>2. CASE Head(q).op = "execute"
  <2>1. Head(q).height \in Heights
    BY <1>1, <1>2 DEF Op
  <2> QED
    BY <1>1, <1>2, <2>1, ListsOfSteps DEF Rest
<1> QED
  BY <1>1, <1>2 DEF Rest

LEMMA StepIs ==
    ASSUME NEW t \in Tasks, TypeInv, Step(t)
    PROVE  /\ up /\ todo[t] # << >> /\ todo[t] \in Seq(Op)
           /\ height' = IF Head(todo[t]).op = "advance" THEN Head(todo[t]).height ELSE height
           /\ disk' = Write(disk, Head(todo[t]), height)
           /\ todo' = [todo EXCEPT ![t] = Rest(todo[t], disk)]
           /\ UNCHANGED <<up, tip, crashes>>
BY DEF Step, Rest, TypeInv

-----------------------------------------------------------------------------
(* Types.                                                                  *)

LEMMA RecoverTyped ==
    ASSUME NEW d \in Store
    PROVE  Recover(d) \in 1..(MaxHeight + 1)
<1>1. MaxHeight \in Nat
  BY SizesAssumption
<1>2. d.latest \in 0..MaxHeight /\ d.walCommit \in 0..MaxHeight /\ d.snap \in 0..(MaxHeight + 1)
  BY DEF Store
<1> QED
  BY <1>1, <1>2 DEF Recover

LEMMA TypeInitially == Init => TypeInv
<1> SUFFICES ASSUME Init PROVE TypeInv
  OBVIOUS
<1> MaxHeight \in Nat /\ MaxCrashes \in Nat
  BY SizesAssumption
<1>1. << >> \in Seq(Op) /\ << >> \in Seq(Nat)
  OBVIOUS
<1>2. todo \in [Tasks -> Seq(Op)]
  BY <1>1 DEF Init
<1>3. EmptyStore \in Store
  BY <1>1 DEF EmptyStore, Store
<1>4. disk = EmptyStore /\ up = FALSE /\ height = 1 /\ tip = 0 /\ crashes = 0
  BY DEF Init
<1>5. height \in 1..(MaxHeight + 1) /\ tip \in 0..MaxHeight /\ crashes \in 0..MaxCrashes
  BY <1>4
<1> QED
  BY <1>2, <1>3, <1>4, <1>5 DEF TypeInv

LEMMA TypeStep ==
    ASSUME TypeInv, [Next]_vars
    PROVE  TypeInv'
<1> MaxHeight \in Nat /\ MaxCrashes \in Nat
  BY SizesAssumption
<1> "consensus" \in Tasks
  BY TasksAssumption
<1>0. << >> \in Seq(Op)
  OBVIOUS
<1>1. CASE Boot
  <2>1. [op |-> "snapshot"] \in Op
    BY DEF Op
  <2>2. <<[op |-> "snapshot"]>> \in Seq(Op)
    BY <2>1
  <2>3. todo' \in [Tasks -> Seq(Op)]
    BY <1>0, <1>1, <2>2 DEF Boot
  <2>4. Recover(disk) \in 1..(MaxHeight + 1)
    BY RecoverTyped DEF TypeInv
  <2> QED
    BY <1>1, <2>3, <2>4 DEF Boot, TypeInv
<1>2. CASE Decide
  BY <1>2 DEF Decide, TypeInv
<1>3. CASE OnQuorum
  <2>1. height \in Heights
    BY <1>3 DEF OnQuorum, TypeInv, Heights
  <2>2. Finalize(disk, height) \in Seq(Op)
    BY <2>1, ListsOfSteps DEF TypeInv
  <2>3. todo' \in [Tasks -> Seq(Op)]
    BY <1>3, <2>2 DEF OnQuorum, TypeInv
  <2>4. tip' \in 0..MaxHeight
    BY <1>3, <2>1 DEF OnQuorum, TypeInv, Heights
  <2> QED
    BY <1>3, <2>3, <2>4 DEF OnQuorum, TypeInv
<1>4. ASSUME NEW t \in Tasks, Step(t) PROVE TypeInv'
  <2>1. /\ todo[t] # << >> /\ todo[t] \in Seq(Op)
        /\ height' = IF Head(todo[t]).op = "advance" THEN Head(todo[t]).height ELSE height
        /\ disk' = Write(disk, Head(todo[t]), height)
        /\ todo' = [todo EXCEPT ![t] = Rest(todo[t], disk)]
        /\ UNCHANGED <<up, tip, crashes>>
    BY <1>4, StepIs
  <2>2. Head(todo[t]) \in Op /\ Rest(todo[t], disk) \in Seq(Op)
    BY <2>1, RestTyped DEF TypeInv
  <2>3. height' \in 1..(MaxHeight + 1)
    BY <2>1, <2>2 DEF Op, TypeInv
  <2>4. disk' \in Store
    BY <2>1, <2>2, WriteEffect DEF TypeInv
  <2>5. todo' \in [Tasks -> Seq(Op)]
    BY <2>1, <2>2 DEF TypeInv
  <2> QED
    BY <2>1, <2>3, <2>4, <2>5 DEF TypeInv
<1>5. ASSUME NEW t \in Tasks, NEW h \in 1..tip, OnFinalizedBlock(t, h) PROVE TypeInv'
  <2>1. h \in Heights
    BY DEF TypeInv, Heights
  <2>2. Import(h) \in Seq(Op)
    BY <2>1, ImportSteps
  <2>3. todo' \in [Tasks -> Seq(Op)]
    BY <1>5, <2>2 DEF OnFinalizedBlock, TypeInv
  <2> QED
    BY <1>5, <2>3 DEF OnFinalizedBlock, TypeInv
<1>6. CASE Crash
  <2>1. todo' \in [Tasks -> Seq(Op)]
    BY <1>0, <1>6 DEF Crash
  <2>2. crashes' \in 0..MaxCrashes
    BY <1>6 DEF Crash, TypeInv
  <2> QED
    BY <1>6, <2>1, <2>2 DEF Crash, TypeInv
<1>7. CASE UNCHANGED vars
  BY <1>7 DEF vars, TypeInv
<1> QED
  BY <1>1, <1>2, <1>3, <1>4, <1>5, <1>6, <1>7 DEF Next

-----------------------------------------------------------------------------
(* The plan of the consensus task.                                         *)

\* The heights that steps and store are compared by are integers.
LEMMA Numbers ==
    ASSUME NEW d \in Store
    PROVE  /\ d.latest \in Nat /\ d.walCommit \in Nat /\ d.snap \in Nat
           /\ \A w \in Op : w.op \notin {"staking", "snapshot"} => w.height \in Nat
BY SizesAssumption DEF Store, Op, Heights

LEMMA EmptyPlan ==
    ASSUME NEW d
    PROVE  Planned(<< >>, d)
BY DEF Planned

LEMMA SnapshotPlan ==
    ASSUME NEW d, NEW q \in Seq(Op), Len(q) = 1, q[1].op = "snapshot"
    PROVE  Planned(q, d)
BY DEF Planned

LEMMA ImportPlan ==
    ASSUME NEW d, NEW h \in Heights
    PROVE  Planned(Import(h), d)
<1> DEFINE q == Import(h)
<1>1. /\ q \in Seq(Op) /\ Len(q) = 2
      /\ q[1].op = "wal" /\ q[1].height = h
      /\ q[2].op = "execute" /\ q[2].height = h
  BY ImportSteps
<1> HIDE DEF q
<1>2. DOMAIN q = {1, 2}
  BY <1>1
<1> QED
  BY <1>1, <1>2 DEF Planned, ExecutePlanned, q

\* finalize found the parent in place.
LEMMA FinalizePlan ==
    ASSUME NEW d \in Store, NEW h \in Heights, PrepareBlock(d, h)
    PROVE  Planned(Finalize(d, h), d)
<1> DEFINE q == Finalize(d, h)
           N == NumAccounts
<1>1. /\ q \in Seq(Op) /\ Len(q) = N + 5
      /\ \A i \in 1..N : q[i].op = "account" /\ q[i].height = h
      /\ q[N + 1].op = "staking"
      /\ q[N + 2].op = "wal" /\ q[N + 2].height = h
      /\ q[N + 3].op = "commit" /\ q[N + 3].height = h
      /\ q[N + 4].op = "advance" /\ q[N + 4].height = h + 1
      /\ q[N + 5].op = "snapshot"
  BY FinalizeSteps
<1>2. N \in Nat /\ h \in Nat /\ d.latest \in Nat /\ h = d.latest + 1
  BY SizesAssumption, Numbers DEF PrepareBlock, Heights
<1> HIDE DEF q, N
<1>3. DOMAIN q = 1..(N + 5)
  BY <1>1
<1>4. \A i \in DOMAIN q : i \in 1..N \/ i \in {N + 1, N + 2, N + 3, N + 4, N + 5}
  BY <1>2, <1>3
<1>5. \A i \in DOMAIN q :
          /\ q[i].op = "commit" <=> i = N + 3
          /\ q[i].op = "advance" <=> i = N + 4
          /\ q[i].op = "account" <=> i \in 1..N
          /\ q[i].op = "snapshot" <=> i = N + 5
          /\ q[i].op # "execute"
  <2> TAKE i \in DOMAIN q
  <2>1. CASE i \in 1..N
    BY <1>1, <1>2, <2>1
  <2>2. CASE i \in {N + 1, N + 2, N + 3, N + 4, N + 5}
    <3>1. i \notin 1..N
      BY <1>2, <2>2
    <3>2. CASE i = N + 1
      BY <1>1, <1>2, <3>1, <3>2
    <3>3. CASE i = N + 2
      BY <1>1, <1>2, <3>1, <3>3
    <3>4. CASE i = N + 3
      BY <1>1, <1>2, <3>1, <3>4
    <3>5. CASE i = N + 4
      BY <1>1, <1>2, <3>1, <3>5
    <3>6. CASE i = N + 5
      BY <1>1, <1>2, <3>1, <3>6
    <3> QED
      BY <2>2, <3>2, <3>3, <3>4, <3>5, <3>6
  <2> QED
    BY <1>4, <2>1, <2>2
<1>6. CommitPlanned(q, d, N + 3)
  <2>1. N + 2 \in DOMAIN q /\ N + 4 \in DOMAIN q /\ N + 2 < N + 3 /\ N + 4 > N + 3
    BY <1>2, <1>3
  <2> QED
    BY <1>1, <1>2, <1>5, <2>1 DEF CommitPlanned
<1>7. AdvancePlanned(q, d, N + 4)
  <2>1. \A j \in DOMAIN q : q[j].op = "commit" => q[j].height = h
    BY <1>1, <1>5
  <2> QED
    BY <1>1, <1>2, <2>1 DEF AdvancePlanned
<1>8. \A i \in 1..N : AccountPlanned(q, d, i)
  <2>1. \A j \in DOMAIN q : q[j].op = "commit" => q[j].height = h
    BY <1>1, <1>5
  <2> QED
    BY <1>1, <1>2, <2>1 DEF AccountPlanned
<1> QED
  BY <1>1, <1>5, <1>6, <1>7, <1>8 DEF Planned, q

\* The execution of an import found it, and the WAL has been told.
LEMMA ExecutePlan ==
    ASSUME NEW d \in Store, NEW h \in Heights, PrepareBlock(d, h), d.walCommit >= h
    PROVE  Planned(ExecuteAndCommit(d, h), d)
<1> DEFINE q == ExecuteAndCommit(d, h)
           N == NumAccounts
<1>1. /\ q \in Seq(Op) /\ Len(q) = N + 4
      /\ q[1].op = "commit" /\ q[1].height = h
      /\ \A i \in 2..(N + 1) : q[i].op = "account" /\ q[i].height = h
      /\ q[N + 2].op = "staking"
      /\ q[N + 3].op = "advance" /\ q[N + 3].height = h + 1
      /\ q[N + 4].op = "snapshot"
  BY ExecuteSteps
<1>2. N \in Nat /\ h \in Nat /\ d.latest \in Nat /\ h = d.latest + 1
  BY SizesAssumption, Numbers DEF PrepareBlock, Heights
<1> HIDE DEF q, N
<1>3. DOMAIN q = 1..(N + 4)
  BY <1>1
<1>4. \A i \in DOMAIN q : i \in 2..(N + 1) \/ i \in {1, N + 2, N + 3, N + 4}
  BY <1>2, <1>3
<1>5. \A i \in DOMAIN q :
          /\ q[i].op = "commit" <=> i = 1
          /\ q[i].op = "advance" <=> i = N + 3
          /\ q[i].op = "account" <=> i \in 2..(N + 1)
          /\ q[i].op = "snapshot" <=> i = N + 4
          /\ q[i].op # "execute"
  <2> TAKE i \in DOMAIN q
  <2>1. CASE i \in 2..(N + 1)
    BY <1>1, <1>2, <2>1
  <2>2. CASE i \in {1, N + 2, N + 3, N + 4}
    <3>1. i \notin 2..(N + 1)
      BY <1>2, <2>2
    <3>2. CASE i = 1
      BY <1>1, <1>2, <3>1, <3>2
    <3>3. CASE i = N + 2
      BY <1>1, <1>2, <3>1, <3>3
    <3>4. CASE i = N + 3
      BY <1>1, <1>2, <3>1, <3>4
    <3>5. CASE i = N + 4
      BY <1>1, <1>2, <3>1, <3>5
    <3> QED
      BY <2>2, <3>2, <3>3, <3>4, <3>5
  <2> QED
    BY <1>4, <2>1, <2>2
<1>6. CommitPlanned(q, d, 1)
  <2>1. N + 3 \in DOMAIN q /\ N + 3 > 1
    BY <1>2, <1>3
  <2> QED
    BY <1>1, <1>2, <1>5, <2>1 DEF CommitPlanned
<1>7. AdvancePlanned(q, d, N + 3)
  BY <1>1, <1>2, <1>5 DEF AdvancePlanned
<1>8. \A i \in 2..(N + 1) : AccountPlanned(q, d, i)
  BY <1>1, <1>2, <1>5 DEF AccountPlanned
<1> QED
  BY <1>1, <1>5, <1>6, <1>7, <1>8 DEF Planned, q

-----------------------------------------------------------------------------
(* One step of the consensus task, on a list q and a store d.              *)

\* A step other than an execution leaves the tail of the list, planned for
\* the store it has written.
LEMMA TailPlan ==
    ASSUME NEW q \in Seq(Op), q # << >>, NEW d \in Store, NEW h \in 1..(MaxHeight + 1),
           Planned(q, d), q[1].op # "execute"
    PROVE  Planned(Tail(q), Write(d, q[1], h))
<1> DEFINE w == q[1]
           e == Write(d, w, h)
           r == Tail(q)
           L == Len(q)
<1>1. /\ L \in Nat \ {0} /\ DOMAIN q = 1..L
      /\ \A i \in 1..L : q[i] \in Op
  BY EmptySeq, LenProperties, ElementOfSeq
<1>2. w \in Op
  BY <1>1
<1>3. /\ r \in Seq(Op) /\ Len(r) = L - 1
      /\ \A i \in 1..Len(r) : r[i] = q[i + 1]
  BY HeadTailProperties
<1>4. /\ e.latest = IF w.op = "commit" THEN w.height ELSE d.latest
      /\ e.walCommit = IF w.op = "wal" /\ w.height > d.walCommit
                       THEN w.height ELSE d.walCommit
  BY <1>2, WriteEffect
<1>5. d.latest \in Nat /\ d.walCommit \in Nat
  BY Numbers
<1>6. \A i \in 1..L : q[i].op \notin {"staking", "snapshot"} => q[i].height \in Nat
  BY <1>1, Numbers
<1> HIDE DEF w, e, r, L
<1>7. /\ DOMAIN r = 1..(L - 1)
      /\ \A i \in DOMAIN r : i + 1 \in DOMAIN q /\ r[i] = q[i + 1]
  BY <1>1, <1>3
<1>8. \A i \in DOMAIN q : i # 1 => i - 1 \in DOMAIN r /\ r[i - 1] = q[i]
  BY <1>1, <1>7
<1>9. w = q[1] /\ 1 \in DOMAIN q
  BY <1>1 DEF w
<1>10. d.walCommit <= e.walCommit /\ (w.op = "wal" => w.height <= e.walCommit)
  BY <1>1, <1>4, <1>5, <1>6, <1>9
<1>11. e.latest \in Nat /\ e.walCommit \in Nat
  BY <1>1, <1>4, <1>5, <1>6, <1>9
<1>12. w.op = "commit" => e.latest = d.latest + 1 /\ \A j \in DOMAIN r : r[j].op # "commit"
  <2> SUFFICES ASSUME w.op = "commit"
               PROVE  e.latest = d.latest + 1 /\ \A j \in DOMAIN r : r[j].op # "commit"
    OBVIOUS
  <2>1. CommitPlanned(q, d, 1)
    BY <1>9 DEF Planned
  <2>2. e.latest = d.latest + 1
    BY <1>4, <1>9, <2>1 DEF CommitPlanned
  <2>3. ASSUME NEW j \in DOMAIN r PROVE r[j].op # "commit"
    <3>1. j + 1 \in DOMAIN q /\ j + 1 # 1 /\ r[j] = q[j + 1]
      BY <1>1, <1>7
    <3> QED
      BY <2>1, <3>1 DEF CommitPlanned
  <2> QED
    BY <2>2, <2>3
<1>13. w.op # "commit" => e.latest = d.latest
  BY <1>4
<1>14. ASSUME NEW i \in DOMAIN r, r[i].op = "commit"
       PROVE  CommitPlanned(r, e, i)
  <2>1. /\ i + 1 \in DOMAIN q /\ r[i] = q[i + 1] /\ q[i + 1].op = "commit"
        /\ i \in Nat /\ q[i + 1].height \in Nat
    BY <1>1, <1>6, <1>7, <1>14
  <2>2. CommitPlanned(q, d, i + 1)
    BY <2>1 DEF Planned
  <2>3. w.op # "commit" /\ e.latest = d.latest
    BY <1>12, <1>13, <1>14
  <2>4. r[i].height = e.latest + 1
    BY <2>1, <2>2, <2>3 DEF CommitPlanned
  <2>5. ASSUME NEW j \in DOMAIN r, r[j].op = "commit" PROVE j = i
    <3>1. j + 1 \in DOMAIN q /\ q[j + 1].op = "commit" /\ j \in Nat
      BY <1>1, <1>7, <2>5
    <3>2. j + 1 = i + 1
      BY <2>2, <3>1 DEF CommitPlanned
    <3> QED
      BY <2>1, <3>1, <3>2
  <2>6. \/ e.walCommit >= r[i].height
        \/ \E j \in DOMAIN r : j < i /\ r[j].op = "wal" /\ r[j].height = r[i].height
    <3>1. CASE d.walCommit >= q[i + 1].height
      BY <1>5, <1>10, <1>11, <2>1, <3>1
    <3>2. CASE \E j \in DOMAIN q : j < i + 1 /\ q[j].op = "wal" /\ q[j].height = q[i + 1].height
      <4>1. PICK j \in DOMAIN q : j < i + 1 /\ q[j].op = "wal" /\ q[j].height = q[i + 1].height
        BY <3>2
      <4>2. CASE j = 1
        BY <1>9, <1>10, <1>11, <2>1, <4>1, <4>2
      <4>3. CASE j # 1
        <5>1. j - 1 \in DOMAIN r /\ r[j - 1] = q[j] /\ j - 1 < i
          BY <1>1, <1>8, <2>1, <4>1, <4>3
        <5> QED
          BY <2>1, <4>1, <5>1
      <4> QED
        BY <4>2, <4>3
    <3> QED
      BY <2>2, <3>1, <3>2 DEF CommitPlanned
  <2>7. \E j \in DOMAIN r : j > i /\ r[j].op = "advance"
    <3>1. PICK j \in DOMAIN q : j > i + 1 /\ q[j].op = "advance"
      BY <2>2 DEF CommitPlanned
    <3>2. j # 1 /\ j - 1 > i
      BY <1>1, <2>1, <3>1
    <3>3. j - 1 \in DOMAIN r /\ r[j - 1] = q[j]
      BY <1>8, <3>2
    <3> QED
      BY <3>1, <3>2, <3>3
  <2> QED
    BY <2>4, <2>5, <2>6, <2>7 DEF CommitPlanned
<1>15. ASSUME NEW i \in DOMAIN r, r[i].op = "advance"
       PROVE  AdvancePlanned(r, e, i)
  <2>1. /\ i + 1 \in DOMAIN q /\ r[i] = q[i + 1] /\ q[i + 1].op = "advance"
    BY <1>7, <1>15
  <2>2. AdvancePlanned(q, d, i + 1)
    BY <2>1 DEF Planned
  <2>3. r[i].height > e.latest
    BY <1>4, <1>9, <2>1, <2>2 DEF AdvancePlanned
  <2>4. \A j \in DOMAIN r : r[j].op = "commit" => r[i].height > r[j].height
    BY <1>7, <2>1, <2>2 DEF AdvancePlanned
  <2> QED
    BY <2>3, <2>4 DEF AdvancePlanned
<1>16. ASSUME NEW i \in DOMAIN r, r[i].op = "account"
       PROVE  AccountPlanned(r, e, i)
  <2>1. /\ i + 1 \in DOMAIN q /\ r[i] = q[i + 1] /\ q[i + 1].op = "account"
    BY <1>7, <1>16
  <2>2. AccountPlanned(q, d, i + 1)
    BY <2>1 DEF Planned
  <2>3. r[i].height \in {e.latest, e.latest + 1}
    BY <1>4, <1>9, <2>1, <2>2 DEF AccountPlanned
  <2>4. \A j \in DOMAIN r : r[j].op = "commit" => r[i].height = r[j].height
    BY <1>7, <2>1, <2>2 DEF AccountPlanned
  <2> QED
    BY <2>3, <2>4 DEF AccountPlanned
<1>17. ASSUME NEW i \in DOMAIN r, r[i].op = "execute"
       PROVE  ExecutePlanned(r, e, i)
  <2>1. /\ i + 1 \in DOMAIN q /\ r[i] = q[i + 1] /\ q[i + 1].op = "execute" /\ i \in Nat \ {0}
    BY <1>1, <1>7, <1>17
  <2>2. ExecutePlanned(q, d, i + 1)
    BY <2>1 DEF Planned
  <2>3. i + 1 = L /\ i + 1 = 2 /\ w.op = "wal" /\ w.height = q[2].height
    BY <1>9, <2>1, <2>2 DEF ExecutePlanned, L
  <2>4. i = 1 /\ i = Len(r) /\ r[i].height = w.height
    BY <1>1, <1>3, <2>1, <2>3
  <2> QED
    BY <1>10, <1>11, <1>6, <1>9, <1>1, <2>3, <2>4 DEF ExecutePlanned
<1>18. ASSUME NEW i \in DOMAIN r, r[i].op = "snapshot"
       PROVE  i = Len(r)
  <2>1. /\ i + 1 \in DOMAIN q /\ q[i + 1].op = "snapshot" /\ i \in Nat
    BY <1>1, <1>7, <1>18
  <2>2. i + 1 = L
    BY <2>1 DEF Planned, L
  <2> QED
    BY <1>1, <1>3, <2>1, <2>2
<1>19. Planned(r, e)
  BY <1>14, <1>15, <1>16, <1>17, <1>18 DEF Planned
<1> QED
  BY <1>19 DEF r, e, w

\* The store a planned step writes is well formed and leads past its chain.
LEMMA WriteStores ==
    ASSUME NEW q \in Seq(Op), q # << >>, NEW d \in Store, NEW h \in 1..(MaxHeight + 1),
           Planned(q, d), Ahead(q, d, h), Recoverable(d), WellStored(d)
    PROVE  Recoverable(Write(d, q[1], h)) /\ WellStored(Write(d, q[1], h))
<1> DEFINE w == q[1]
           e == Write(d, w, h)
<1>1. /\ Len(q) \in Nat \ {0} /\ DOMAIN q = 1..Len(q) /\ w \in Op
  BY EmptySeq, LenProperties, ElementOfSeq
<1>2. /\ e.latest = IF w.op = "commit" THEN w.height ELSE d.latest
      /\ e.blocks = IF w.op = "commit" THEN d.blocks \cup {w.height} ELSE d.blocks
      /\ e.walCommit = IF w.op = "wal" /\ w.height > d.walCommit
                       THEN w.height ELSE d.walCommit
      /\ e.snap = IF w.op = "snapshot" THEN h ELSE d.snap
      /\ \A a \in Accounts :
            e.accounts[a] = IF w.op = "commit" \/ (w.op = "account" /\ w.account = a)
                            THEN w.height ELSE d.accounts[a]
  BY <1>1, WriteEffect
<1>3. d.latest \in Nat /\ d.walCommit \in Nat /\ d.snap \in Nat /\ h \in Nat
  BY Numbers, SizesAssumption
<1>4. w.op \notin {"staking", "snapshot"} => w.height \in Nat
  BY <1>1, Numbers
<1>5. 1 \in DOMAIN q /\ w = q[1]
  BY <1>1
<1> HIDE DEF e, w
<1>6. CASE w.op = "commit"
  <2>1. CommitPlanned(q, d, 1)
    BY <1>5, <1>6 DEF Planned
  <2>2. w.height = d.latest + 1
    BY <1>5, <2>1 DEF CommitPlanned
  <2>3. ~ \E j \in DOMAIN q : j < 1
    BY <1>1
  <2>4. d.walCommit >= w.height
    BY <1>5, <2>1, <2>3 DEF CommitPlanned
  <2>5. e.latest = d.latest + 1 /\ e.walCommit = d.walCommit /\ e.blocks = d.blocks \cup {d.latest + 1}
    BY <1>2, <1>6, <2>2
  <2>6. e.blocks = 1..e.latest
    <3>1. d.blocks = 1..d.latest
      BY DEF WellStored
    <3> QED
      BY <1>3, <2>5, <3>1
  <2>7. \A a \in Accounts : e.accounts[a] = e.latest
    BY <1>2, <1>6
  <2> QED
    BY <2>2, <2>4, <2>5, <2>6, <2>7 DEF Recoverable, WellStored, e, w
<1>7. CASE w.op = "snapshot"
  <2>1. Len(q) = 1
    BY <1>5, <1>7 DEF Planned
  <2>2. \A i \in DOMAIN q : q[i].op # "advance"
    BY <1>1, <1>5, <1>7, <2>1
  <2>3. h > d.latest
    BY <2>2 DEF Ahead
  <2> QED
    BY <1>2, <1>7, <2>3 DEF Recoverable, WellStored, e, w
<1>8. CASE w.op = "account"
  <2>1. w.height \in {d.latest, d.latest + 1}
    BY <1>5, <1>8 DEF Planned, AccountPlanned
  <2> QED
    BY <1>2, <1>8, <2>1 DEF Recoverable, WellStored, e, w
<1>9. CASE w.op \notin {"commit", "snapshot", "account"}
  <2>1. e.walCommit >= d.walCommit
    BY <1>2, <1>3, <1>4, <1>9
  <2>2. e.walCommit \in Nat
    BY <1>2, <1>3, <1>4
  <2>3. /\ e.latest = d.latest /\ e.blocks = d.blocks /\ e.snap = d.snap
        /\ \A a \in Accounts : e.accounts[a] = d.accounts[a]
    BY <1>2, <1>9
  <2>4. Recoverable(e)
    BY <1>3, <2>1, <2>2, <2>3 DEF Recoverable
  <2>5. WellStored(e)
    BY <2>3 DEF WellStored
  <2> QED
    BY <2>4, <2>5 DEF e, w
<1> QED
  BY <1>6, <1>7, <1>8, <1>9

\* After a step the engine is ahead of the store, or still about to be.
LEMMA TailAhead ==
    ASSUME NEW q \in Seq(Op), q # << >>, NEW d \in Store, NEW h \in 1..(MaxHeight + 1),
           Planned(q, d), Ahead(q, d, h), q[1].op # "execute"
    PROVE  Ahead(Tail(q), Write(d, q[1], h), IF q[1].op = "advance" THEN q[1].height ELSE h)
<1> DEFINE w == q[1]
           e == Write(d, w, h)
           r == Tail(q)
<1>1. /\ Len(q) \in Nat \ {0} /\ DOMAIN q = 1..Len(q) /\ w \in Op
  BY EmptySeq, LenProperties, ElementOfSeq
<1>2. e.latest = IF w.op = "commit" THEN w.height ELSE d.latest
  BY <1>1, WriteEffect
<1>3. /\ r \in Seq(Op) /\ Len(r) = Len(q) - 1
      /\ \A i \in 1..Len(r) : r[i] = q[i + 1]
  BY HeadTailProperties
<1>4. 1 \in DOMAIN q /\ w = q[1]
  BY <1>1
<1> HIDE DEF e, r, w
<1>5. \A i \in DOMAIN q : i # 1 => i - 1 \in DOMAIN r /\ r[i - 1] = q[i]
  <2> TAKE i \in DOMAIN q
  <2> HAVE i # 1
  <2>1. DOMAIN r = 1..(Len(q) - 1) /\ i - 1 \in 1..Len(r) /\ (i - 1) + 1 = i
    BY <1>1, <1>3
  <2> QED
    BY <1>3, <2>1
<1>6. CASE w.op = "commit"
  <2>1. CommitPlanned(q, d, 1)
    BY <1>4, <1>6 DEF Planned
  <2>2. PICK j \in DOMAIN q : j > 1 /\ q[j].op = "advance"
    BY <2>1 DEF CommitPlanned
  <2>3. j # 1
    BY <1>1, <2>2
  <2> QED
    BY <1>5, <2>2, <2>3 DEF Ahead, r
<1>7. CASE w.op = "advance"
  <2>1. w.height > d.latest
    BY <1>4, <1>7 DEF Planned, AdvancePlanned
  <2> QED
    BY <1>2, <1>7, <2>1 DEF Ahead, e, w
<1>8. CASE w.op \notin {"commit", "advance"}
  <2>1. e.latest = d.latest
    BY <1>2, <1>8
  <2>2. CASE h > d.latest
    BY <1>8, <2>1, <2>2 DEF Ahead, e, w
  <2>3. CASE \E i \in DOMAIN q : q[i].op = "advance"
    <3>1. PICK i \in DOMAIN q : q[i].op = "advance"
      BY <2>3
    <3>2. i # 1
      BY <1>4, <1>8, <3>1
    <3> QED
      BY <1>5, <3>1, <3>2 DEF Ahead, r
  <2> QED
    BY <2>2, <2>3 DEF Ahead
<1> QED
  BY <1>6, <1>7, <1>8

-----------------------------------------------------------------------------
(* The invariant of a store with one writer.                               *)

LEMMA RecoversAhead ==
    ASSUME NEW d \in Store, Recoverable(d)
    PROVE  Recover(d) > d.latest
BY Numbers DEF Recoverable, Recover

LEMMA ChainInitially == Init => ChainInv
<1> SUFFICES ASSUME Init PROVE ChainInv
  OBVIOUS
<1>1. TypeInv
  BY TypeInitially
<1>2. Plan = << >>
  BY TasksAssumption DEF Init, Plan
<1>3. Planned(Plan, disk)
  BY <1>2, EmptyPlan
<1>4. disk.snap = 0 /\ disk.blocks = {} /\ disk.latest = 0 /\ \A a \in Accounts : disk.accounts[a] = 0
  BY DEF Init, EmptyStore
<1>5. ~up
  BY DEF Init
<1>6. Recoverable(disk) /\ WellStored(disk)
  BY <1>4 DEF Recoverable, WellStored
<1> QED
  BY <1>1, <1>3, <1>5, <1>6 DEF ChainInv

\* The consensus task takes its next step.
LEMMA OwnStepKeeps ==
    ASSUME ChainInv, Step("consensus")
    PROVE  /\ Planned(Plan', disk') /\ Ahead(Plan', disk', height')
           /\ Recoverable(disk') /\ WellStored(disk')
<1> DEFINE q == Plan
<1>0. TypeInv /\ "consensus" \in Tasks
  BY TasksAssumption DEF ChainInv
<1>1. /\ up /\ q # << >> /\ q \in Seq(Op)
      /\ height' = IF Head(q).op = "advance" THEN Head(q).height ELSE height
      /\ disk' = Write(disk, Head(q), height)
      /\ todo' = [todo EXCEPT !["consensus"] = Rest(q, disk)]
  BY <1>0, StepIs DEF Plan
<1>2. Plan' = Rest(q, disk)
  BY <1>0, <1>1 DEF TypeInv, Plan
<1>3. disk \in Store /\ height \in 1..(MaxHeight + 1)
  BY <1>0 DEF TypeInv
<1>4. Planned(q, disk) /\ Ahead(q, disk, height) /\ Recoverable(disk) /\ WellStored(disk)
  BY <1>1 DEF ChainInv
<1>5. Head(q) = q[1]
  BY <1>1
<1> HIDE DEF q
<1>6. Recoverable(disk') /\ WellStored(disk')
  BY <1>1, <1>3, <1>4, <1>5, WriteStores
<1>7. CASE q[1].op # "execute"
  <2>1. Plan' = Tail(q)
    BY <1>2, <1>5, <1>7 DEF Rest
  <2>2. Planned(Tail(q), Write(disk, q[1], height))
    BY <1>1, <1>3, <1>4, <1>7, TailPlan
  <2>3. Ahead(Tail(q), Write(disk, q[1], height), IF q[1].op = "advance" THEN q[1].height ELSE height)
    BY <1>1, <1>3, <1>4, <1>7, TailAhead
  <2> QED
    BY <1>1, <1>5, <1>6, <2>1, <2>2, <2>3
<1>8. CASE q[1].op = "execute"
  <2> DEFINE h == q[1].height
  <2>1. Len(q) \in Nat \ {0} /\ DOMAIN q = 1..Len(q) /\ q[1] \in Op
    BY <1>1, EmptySeq, LenProperties, ElementOfSeq
  <2>2. h \in Heights
    BY <1>8, <2>1 DEF Op
  <2>3. ExecutePlanned(q, disk, 1)
    BY <1>4, <1>8, <2>1 DEF Planned
  <2>4. Len(q) = 1 /\ disk.walCommit >= h
    BY <2>3 DEF ExecutePlanned
  <2>5. Plan' = ExecuteAndCommit(disk, h)
    BY <1>2, <1>5, <1>8 DEF Rest
  <2>6. disk' = disk /\ height' = height
    BY <1>1, <1>5, <1>8 DEF Write
  <2>7. height > disk.latest
    BY <1>4, <1>8, <2>1, <2>4 DEF Ahead
  <2> HIDE DEF h
  <2>8. CASE PrepareBlock(disk, h)
    <3>1. Planned(ExecuteAndCommit(disk, h), disk)
      BY <1>3, <2>2, <2>4, <2>8, ExecutePlan
    <3> QED
      BY <1>6, <2>5, <2>6, <2>7, <3>1 DEF Ahead
  <2>9. CASE ~PrepareBlock(disk, h)
    <3>1. Plan' = << >>
      BY <1>3, <2>2, <2>5, <2>9, ListsOfSteps
    <3>2. Planned(Plan', disk')
      BY <3>1, EmptyPlan
    <3> QED
      BY <1>6, <2>6, <2>7, <3>2 DEF Ahead
  <2> QED
    BY <2>8, <2>9
<1> QED
  BY <1>7, <1>8

LEMMA ChainStep ==
    ASSUME Tasks = {"consensus"}, ChainInv, [Next]_vars
    PROVE  ChainInv'
<1>0. TypeInv /\ TypeInv'
  BY TypeStep DEF ChainInv
<1>1. CASE Boot
  <2>1. UNCHANGED disk /\ height' = Recover(disk) /\ Plan' = <<[op |-> "snapshot"]>>
    BY <1>1, TasksAssumption DEF Boot, Plan
  <2>2. height' > disk'.latest
    BY <1>0, <2>1, RecoversAhead DEF ChainInv, TypeInv
  <2>3. [op |-> "snapshot"] \in Op
    BY DEF Op
  <2>4. Plan' \in Seq(Op) /\ Len(Plan') = 1 /\ Plan'[1].op = "snapshot"
    BY <2>1, <2>3
  <2>5. Planned(Plan', disk')
    BY <2>4, SnapshotPlan
  <2> QED
    BY <1>0, <2>1, <2>2, <2>5 DEF ChainInv, Ahead
<1>2. CASE Decide
  BY <1>0, <1>2 DEF Decide, ChainInv, Plan
<1>3. CASE OnQuorum
  <2>1. /\ UNCHANGED <<disk, up, height>> /\ Plan = << >> /\ up
        /\ Plan' = Finalize(disk, height)
    BY <1>0, <1>3, TasksAssumption DEF OnQuorum, Idle, Plan, TypeInv
  <2>2. height \in Heights /\ disk \in Store
    BY <1>0, <1>3, SizesAssumption DEF OnQuorum, TypeInv, Heights
  <2>3. height > disk.latest
    BY <2>1 DEF ChainInv, Ahead
  <2>4. Planned(Plan', disk')
    <3>1. CASE PrepareBlock(disk, height)
      BY <2>1, <2>2, <3>1, FinalizePlan
    <3>2. CASE ~PrepareBlock(disk, height)
      BY <2>1, <2>2, <3>2, ListsOfSteps, EmptyPlan
    <3> QED
      BY <3>1, <3>2
  <2> QED
    BY <1>0, <2>1, <2>3, <2>4 DEF ChainInv, Ahead
<1>4. ASSUME NEW t \in Tasks, Step(t) PROVE ChainInv'
  <2>1. Step("consensus")
    BY <1>4
  <2> QED
    BY <1>0, <2>1, OwnStepKeeps DEF ChainInv
<1>5. ASSUME NEW t \in Tasks, NEW h \in 1..tip, OnFinalizedBlock(t, h) PROVE ChainInv'
  <2>1. t = "consensus" /\ h \in Heights
    BY <1>0, SizesAssumption DEF TypeInv, Heights
  <2>2. /\ UNCHANGED <<disk, up, height>> /\ Plan = << >> /\ up /\ Plan' = Import(h)
    BY <1>0, <1>5, <2>1 DEF OnFinalizedBlock, Idle, Plan, TypeInv
  <2>3. height > disk.latest
    BY <2>2 DEF ChainInv, Ahead
  <2>4. Planned(Plan', disk')
    BY <2>1, <2>2, ImportPlan
  <2> QED
    BY <1>0, <2>2, <2>3, <2>4 DEF ChainInv, Ahead
<1>6. CASE Crash
  <2>1. UNCHANGED disk /\ ~up' /\ Plan' = << >>
    BY <1>6, TasksAssumption DEF Crash, Plan
  <2>2. Planned(Plan', disk')
    BY <2>1, EmptyPlan
  <2> QED
    BY <1>0, <2>1, <2>2 DEF ChainInv
<1>7. CASE UNCHANGED vars
  BY <1>0, <1>7 DEF vars, ChainInv, Plan
<1> QED
  BY <1>1, <1>2, <1>3, <1>4, <1>5, <1>6, <1>7 DEF Next

-----------------------------------------------------------------------------
(* Theorems.                                                               *)

(* Whatever tasks write, and whenever the process dies, the store, the     *)
(* engine's height and the bounds of the model keep their types: no        *)
(* handler writes a height beyond the tip it was given.                    *)
THEOREM DurabilityTypeCorrect == Spec => []TypeOK
<1>1. TypeInv => TypeOK
  BY DEF TypeInv, TypeOK, Store, Heights
<1> QED
  BY <1>1, TypeInitially, TypeStep, PTL DEF Spec

(* A node whose consensus task is the only writer never works again on a   *)
(* height it holds the block of, wherever in finalize or in an import it   *)
(* crashed: with the snapshot or with the WAL, recover_snapshot finds a    *)
(* later height.                                                           *)
THEOREM NeverReopensTheorem ==
    ASSUME Tasks = {"consensus"}
    PROVE  Spec => []NeverReopens
<1>1. ChainInv => NeverReopens
  <2> SUFFICES ASSUME ChainInv, AllIdle PROVE height > disk.latest
    BY DEF NeverReopens
  <2>1. up /\ Plan = << >>
    BY TasksAssumption DEF AllIdle, Idle, Plan
  <2> QED
    BY <2>1 DEF ChainInv, Ahead
<1> QED
  BY <1>1, ChainInitially, ChainStep, PTL DEF Spec

(* The stored chain of such a node has no holes: atomic_commit_block runs  *)
(* only for the block after the latest one.                                *)
THEOREM NoHolesTheorem ==
    ASSUME Tasks = {"consensus"}
    PROVE  Spec => []NoHoles
<1>1. ChainInv => NoHoles
  BY DEF ChainInv, WellStored, NoHoles
<1> QED
  BY <1>1, ChainInitially, ChainStep, PTL DEF Spec

(* Every account of such a node is of the latest block or of the next one, *)
(* in the middle of a handler and after any crash.                         *)
THEOREM AccountsNearChainTheorem ==
    ASSUME Tasks = {"consensus"}
    PROVE  Spec => []AccountsNearChain
<1>1. ChainInv => AccountsNearChain
  BY DEF ChainInv, WellStored, AccountsNearChain
<1> QED
  BY <1>1, ChainInitially, ChainStep, PTL DEF Spec

(* "Returns the latest finalized block" (zeno-storage lib.rs 70) holds of  *)
(* such a node over time as well: what latest_block returns never goes     *)
(* back to an older block.                                                 *)
THEOREM LatestAdvancesTheorem ==
    ASSUME Tasks = {"consensus"}
    PROVE  Spec => LatestAdvances
<1>1. ASSUME ChainInv, [Next]_vars
      PROVE  [disk'.latest >= disk.latest]_vars
  <2>1. disk \in Store /\ disk.latest \in Nat
    BY <1>1, Numbers DEF ChainInv, TypeInv
  <2>2. ASSUME Step("consensus") PROVE disk'.latest >= disk.latest
    <3>1. /\ Plan # << >> /\ Plan \in Seq(Op) /\ height \in 1..(MaxHeight + 1)
          /\ disk' = Write(disk, Head(Plan), height) /\ Planned(Plan, disk)
      BY <1>1, <2>2, StepIs, TasksAssumption DEF ChainInv, TypeInv, Plan
    <3>2. Len(Plan) \in Nat \ {0} /\ DOMAIN Plan = 1..Len(Plan)
      BY <3>1, EmptySeq, LenProperties
    <3>3. Head(Plan) = Plan[1] /\ 1 \in DOMAIN Plan /\ Plan[1] \in Op
      BY <3>1, <3>2, ElementOfSeq
    <3>4. disk'.latest = IF Plan[1].op = "commit" THEN Plan[1].height ELSE disk.latest
      <4> DEFINE w == Plan[1]
                 e == Write(disk, w, height)
      <4>1. e.latest = IF w.op = "commit" THEN w.height ELSE disk.latest
        BY <2>1, <3>1, <3>3, WriteEffect
      <4> QED
        BY <3>1, <3>3, <4>1
    <3>5. Plan[1].op = "commit" => Plan[1].height = disk.latest + 1
      BY <3>1, <3>3 DEF Planned, CommitPlanned
    <3> QED
      BY <2>1, <3>4, <3>5
  <2>3. CASE \E t \in Tasks : Step(t)
    BY <2>2, <2>3
  <2>4. CASE UNCHANGED disk
    BY <2>1, <2>4
  <2> QED
    BY <1>1, <2>3, <2>4 DEF Next, Boot, Decide, OnQuorum, OnFinalizedBlock, Crash, vars
<1> QED
  BY <1>1, ChainInitially, ChainStep, PTL DEF Spec, LatestAdvances

=============================================================================
