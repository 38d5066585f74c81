---------------------------- MODULE LedgerProofs ----------------------------
(***************************************************************************)
(* Theorems about Ledger, for any nodes, transactions, genesis, limits and *)
(* budgets: nodes that hold a block of one height hold the same one with   *)
(* the same receipts, and as long as no write of a node was lost, a        *)
(* transaction is on its chain once and in the order of the nonces.        *)
(***************************************************************************)
EXTENDS Ledger, FiniteSetTheorems, SequenceTheorems, WellFoundedInduction, TLAPS

-----------------------------------------------------------------------------
(* Numbers.                                                                *)

\* A set of numbers that is not empty has a least one.
LEMMA LeastNumber ==
    ASSUME NEW S, S \subseteq Nat, S # {}
    PROVE  \E n \in S : \A m \in S : n <= m
<1> DEFINE R == OpToRel(<, Nat)
<1>1. IsWellFoundedOn(R, Nat)
  BY NatLessThanWellFounded, Zenon
<1>2. \A m, n \in Nat : m < n => <<m, n>> \in R
  BY DEF OpToRel
<1> HIDE DEF R
<1>3. PICK n \in S : \A m \in S : ~(<<m, n>> \in R)
  BY <1>1, WFMin
<1>4. \A m \in S : ~(m < n)
  BY <1>2, <1>3
<1> QED
  BY <1>4

\* What holds of 0 and is kept by adding one holds of every number up to N.
LEMMA CountUp ==
    ASSUME NEW N \in Nat, NEW P, 0 \in P, \A k \in 1..N : k - 1 \in P => k \in P
    PROVE  \A k \in 0..N : k \in P
<1> DEFINE Bad == {k \in Nat : k <= N /\ k \notin P}
<1>1. SUFFICES ASSUME Bad # {} PROVE FALSE
  OBVIOUS
<1>2. Bad \subseteq Nat
  OBVIOUS
<1> HIDE DEF Bad
<1>3. PICK k \in Bad : \A j \in Bad : k <= j
  BY <1>1, <1>2, LeastNumber
<1>4. k \in Nat /\ k <= N /\ k \notin P
  BY <1>3 DEF Bad
<1>5. k # 0
  BY <1>4
<1>6. k - 1 \in Nat /\ k - 1 <= N /\ ~(k <= k - 1) /\ k \in 1..N
  BY <1>4, <1>5
<1>7. k - 1 \in P
  BY <1>3, <1>6 DEF Bad
<1> QED
  BY <1>4, <1>6, <1>7

-----------------------------------------------------------------------------
(* The run of a block, as a function of the number of transactions.        *)

RunUpTo(f, acc, db, h, txs, N) ==
    f = [i \in 0..N |->
            IF i = 0 THEN StartRun(acc, db) ELSE ApplyTransaction(f[i - 1], h, txs[i])]

LEMMA RunExists ==
    ASSUME NEW acc, NEW db, NEW h, NEW txs, NEW N \in Nat
    PROVE  \E f : RunUpTo(f, acc, db, h, txs, N)
<1> DEFINE P == {k \in Nat : \E f : RunUpTo(f, acc, db, h, txs, k)}
<1>1. 0 \in P
  <2> DEFINE f == [i \in 0..0 |-> StartRun(acc, db)]
  <2>1. f = [i \in 0..0 |->
                IF i = 0 THEN StartRun(acc, db) ELSE ApplyTransaction(f[i - 1], h, txs[i])]
    OBVIOUS
  <2> HIDE DEF f
  <2> QED
    BY <2>1 DEF RunUpTo
<1>2. ASSUME NEW k \in 1..N, k - 1 \in P PROVE k \in P
  <2>1. PICK g : RunUpTo(g, acc, db, h, txs, k - 1)
    BY <1>2
  <2> DEFINE f == [i \in 0..k |->
                IF i = 0 THEN StartRun(acc, db) ELSE ApplyTransaction(g[i - 1], h, txs[i])]
  <2>2. \A i \in 0..(k - 1) : i \in 0..k /\ f[i] = g[i]
    BY <2>1 DEF RunUpTo
  <2>3. \A i \in 0..k : i # 0 => i - 1 \in 0..(k - 1)
    OBVIOUS
  <2>4. \A i \in 0..k :
           f[i] = IF i = 0 THEN StartRun(acc, db) ELSE ApplyTransaction(f[i - 1], h, txs[i])
    <3> SUFFICES ASSUME NEW i \in 0..k, i # 0
                 PROVE  f[i] = ApplyTransaction(f[i - 1], h, txs[i])
      OBVIOUS
    <3>1. f[i] = ApplyTransaction(g[i - 1], h, txs[i])
      OBVIOUS
    <3>2. f[i - 1] = g[i - 1]
      BY <2>2, <2>3
    <3> HIDE DEF f
    <3> QED
      BY <3>1, <3>2
  <2>5. f = [i \in 0..k |-> f[i]]
    OBVIOUS
  <2> HIDE DEF f
  <2>6. RunUpTo(f, acc, db, h, txs, k)
    BY <2>4, <2>5 DEF RunUpTo
  <2> QED
    BY <2>6
<1> HIDE DEF P
<1>3. N \in P
  BY <1>1, <1>2, CountUp
<1> QED
  BY <1>3 DEF P

LEMMA RunSteps ==
    ASSUME NEW acc, NEW db, NEW h, NEW txs, Len(txs) \in Nat
    PROVE  \E f : /\ RunUpTo(f, acc, db, h, txs, Len(txs))
                  /\ RunTransactions(acc, db, h, txs) = f[Len(txs)]
<1> DEFINE Q(f) == RunUpTo(f, acc, db, h, txs, Len(txs))
           c == CHOOSE f : Q(f)
<1>1. RunTransactions(acc, db, h, txs) = c[Len(txs)]
  BY DEF RunTransactions, RunUpTo
<1>2. \E f : Q(f)
  BY RunExists
<1> HIDE DEF Q
<1>3. Q(c)
  BY <1>2
<1> USE DEF Q
<1> HIDE DEF c
<1> QED
  BY <1>1, <1>3

IsList(s) == \E S : s \in Seq(S)

IsRun(r) ==
    /\ r = [ok |-> r.ok, state |-> r.state, evm |-> r.evm, receipts |-> r.receipts,
            fees |-> r.fees]
    /\ r.ok \in BOOLEAN

LEMMA StartIsRun ==
    ASSUME NEW acc, NEW db
    PROVE  /\ IsRun(StartRun(acc, db)) /\ StartRun(acc, db).ok
           /\ StartRun(acc, db).state = acc /\ StartRun(acc, db).receipts = << >>
BY DEF StartRun, IsRun

\* a is r with one transaction more, if that succeeded.
Extended(r, a, h, tx) ==
    a.ok => /\ r.ok /\ ValidateTransaction(r.state, h, tx)
            /\ a.state = Native(r.state, tx)
            /\ \E x : a.receipts = Append(r.receipts, x)

LEMMA ApplyIsRun ==
    ASSUME NEW r, IsRun(r), NEW h, NEW tx, NEW a, a = ApplyTransaction(r, h, tx)
    PROVE  IsRun(a) /\ Extended(r, a, h, tx)
<1> DEFINE call == CHOOSE c \in tx.evm : TRUE
           done == IF tx.evm = {} THEN [ok |-> TRUE, evm |-> r.evm, output |-> << >>]
                   ELSE IF ~EvmEnabled THEN [ok |-> FALSE, evm |-> r.evm, output |-> << >>]
                   ELSE EvmExecute(r.evm, <<tx.sender>>, call)
           x == <<"receipt", tx, h, done.output>>
           n == [ok |-> TRUE, state |-> Native(r.state, tx), evm |-> done.evm,
                 receipts |-> Append(r.receipts, x), fees |-> r.fees + tx.fee]
<1>1. a = IF ~r.ok THEN r
          ELSE IF ~ValidateTransaction(r.state, h, tx) \/ ~done.ok THEN [r EXCEPT !.ok = FALSE]
          ELSE n
  BY DEF ApplyTransaction
<1>2. /\ IsRun(n) /\ n.state = Native(r.state, tx)
      /\ \E y : n.receipts = Append(r.receipts, y)
  <2> HIDE DEF x
  <2> QED
    BY DEF IsRun
<1> HIDE DEF n, done
<1>3. CASE ~r.ok
  BY <1>1, <1>3 DEF Extended
<1>4. CASE r.ok /\ (~ValidateTransaction(r.state, h, tx) \/ ~done.ok)
  <2>1. a = [r EXCEPT !.ok = FALSE]
    BY <1>1, <1>4
  <2>2. a = [ok |-> FALSE, state |-> r.state, evm |-> r.evm, receipts |-> r.receipts,
             fees |-> r.fees]
    BY <2>1 DEF IsRun
  <2> QED
    BY <2>2 DEF IsRun, Extended
<1>5. CASE r.ok /\ ValidateTransaction(r.state, h, tx) /\ done.ok
  BY <1>1, <1>2, <1>5 DEF Extended
<1> QED
  BY <1>3, <1>4, <1>5

LEMMA LongerList ==
    ASSUME NEW s, IsList(s), NEW x
    PROVE  IsList(Append(s, x)) /\ Len(s) \in Nat /\ Len(Append(s, x)) = Len(s) + 1
<1>1. PICK S : s \in Seq(S)
  BY DEF IsList
<1>2. s \in Seq(S \cup {x})
  BY <1>1
<1> DEFINE T == S \cup {x}
<1>3. x \in T /\ s \in Seq(T)
  BY <1>2
<1> HIDE DEF T
<1>4. Append(s, x) \in Seq(T) /\ Len(s) \in Nat /\ Len(Append(s, x)) = Len(s) + 1
  BY <1>3
<1> QED
  BY <1>4 DEF IsList

\* A run that got through has one receipt for each transaction.
OneEach(r, i) == r.ok => IsList(r.receipts) /\ Len(r.receipts) = i

LEMMA ReceiptEach ==
    ASSUME NEW acc, NEW db, NEW h, NEW txs, NEW N \in Nat, NEW f,
           RunUpTo(f, acc, db, h, txs, N)
    PROVE  \A i \in 0..N : IsRun(f[i]) /\ OneEach(f[i], i)
<1> DEFINE Good(i) == /\ IsRun(f[i])
                      /\ f[i].ok => IsList(f[i].receipts) /\ Len(f[i].receipts) = i
           P == {i \in Nat : Good(i)}
<1>1. f[0] = StartRun(acc, db) /\ \A i \in 1..N : f[i] = ApplyTransaction(f[i - 1], h, txs[i])
  BY DEF RunUpTo
<1>2. 0 \in P
  <2>1. IsList(<< >>) /\ Len(<< >>) = 0
    BY DEF IsList
  <2> QED
    BY <1>1, <2>1, StartIsRun
<1>3. ASSUME NEW k \in 1..N, k - 1 \in P PROVE k \in P
  <2>1. IsRun(f[k - 1])
    BY <1>3
  <2>2. /\ IsRun(f[k])
        /\ f[k].ok => f[k - 1].ok /\ \E x : f[k].receipts = Append(f[k - 1].receipts, x)
    <3> DEFINE r == f[k - 1]
               a == f[k]
    <3>1. IsRun(r) /\ a = ApplyTransaction(r, h, txs[k])
      BY <1>1, <2>1
    <3> HIDE DEF r, a
    <3>2. IsRun(a) /\ Extended(r, a, h, txs[k])
      BY <3>1, ApplyIsRun
    <3> QED
      BY <3>2 DEF r, a, Extended
  <2>3. ASSUME f[k].ok PROVE IsList(f[k].receipts) /\ Len(f[k].receipts) = k
    <3>1. PICK x : f[k].receipts = Append(f[k - 1].receipts, x)
      BY <2>2, <2>3
    <3>2. IsList(f[k - 1].receipts) /\ Len(f[k - 1].receipts) = k - 1
      BY <1>3, <2>2, <2>3
    <3>3. IsList(f[k].receipts) /\ Len(f[k].receipts) = (k - 1) + 1
      BY <3>1, <3>2, LongerList
    <3> QED
      BY <3>3
  <2> QED
    BY <2>2, <2>3
<1> HIDE DEF P
<1>4. \A i \in 0..N : i \in P
  BY <1>2, <1>3, CountUp
<1> QED
  BY <1>4 DEF P, OneEach

-----------------------------------------------------------------------------
(* The Merkle root over a list.                                            *)

Up(layer) == IF Len(layer) > 1 THEN NextLayer(layer) ELSE layer

LayersUpTo(f, leaves, N) == f = [k \in 0..N |-> IF k = 0 THEN leaves ELSE Up(f[k - 1])]

LEMMA LayersExist ==
    ASSUME NEW leaves, NEW N \in Nat
    PROVE  \E f : LayersUpTo(f, leaves, N)
<1> DEFINE P == {k \in Nat : \E f : LayersUpTo(f, leaves, k)}
<1>1. 0 \in P
  <2> DEFINE f == [i \in 0..0 |-> leaves]
  <2>1. f = [i \in 0..0 |-> IF i = 0 THEN leaves ELSE Up(f[i - 1])]
    OBVIOUS
  <2> HIDE DEF f
  <2> QED
    BY <2>1 DEF LayersUpTo
<1>2. ASSUME NEW k \in 1..N, k - 1 \in P PROVE k \in P
  <2>1. PICK g : LayersUpTo(g, leaves, k - 1)
    BY <1>2
  <2> DEFINE f == [i \in 0..k |-> IF i = 0 THEN leaves ELSE Up(g[i - 1])]
  <2>2. \A i \in 0..(k - 1) : i \in 0..k /\ f[i] = g[i]
    BY <2>1 DEF LayersUpTo
  <2>3. \A i \in 0..k : i # 0 => i - 1 \in 0..(k - 1)
    OBVIOUS
  <2>4. \A i \in 0..k : f[i] = IF i = 0 THEN leaves ELSE Up(f[i - 1])
    <3> SUFFICES ASSUME NEW i \in 0..k, i # 0 PROVE f[i] = Up(f[i - 1])
      OBVIOUS
    <3>1. f[i] = Up(g[i - 1])
      OBVIOUS
    <3>2. f[i - 1] = g[i - 1]
      BY <2>2, <2>3
    <3> HIDE DEF f
    <3> QED
      BY <3>1, <3>2
  <2>5. f = [i \in 0..k |-> f[i]]
    OBVIOUS
  <2> HIDE DEF f
  <2>6. LayersUpTo(f, leaves, k)
    BY <2>4, <2>5 DEF LayersUpTo
  <2> QED
    BY <2>6
<1> HIDE DEF P
<1>3. N \in P
  BY <1>1, <1>2, CountUp
<1> QED
  BY <1>3 DEF P

LEMMA RootIsLast ==
    ASSUME NEW leaves, Len(leaves) \in Nat, leaves # << >>
    PROVE  \E f : /\ LayersUpTo(f, leaves, Len(leaves))
                  /\ MerkleRoot(leaves) = f[Len(leaves)][1]
<1> DEFINE Q(f) == LayersUpTo(f, leaves, Len(leaves))
           c == CHOOSE f : Q(f)
<1>1. MerkleRoot(leaves) = c[Len(leaves)][1]
  BY DEF MerkleRoot, LayersUpTo, Up
<1>2. \E f : Q(f)
  BY LayersExist
<1> HIDE DEF Q
<1>3. Q(c)
  BY <1>2
<1> USE DEF Q
<1> HIDE DEF c
<1> QED
  BY <1>1, <1>3

\* A list of n elements, as a function.
Row(s, n) == s = [i \in 1..n |-> s[i]]

RowSize(n) == IF n > 1 THEN (n + 1) \div 2 ELSE n

LEMMA RowLength ==
    ASSUME NEW s, NEW n \in Nat, Row(s, n)
    PROVE  Len(s) = n
BY DEF Row

LEMMA SizeShrinks ==
    ASSUME NEW n \in Nat \ {0}
    PROVE  /\ RowSize(n) \in Nat \ {0} /\ RowSize(n) <= n
           /\ n > 1 => RowSize(n) <= n - 1
BY DEF RowSize

LEMMA UpIsRow ==
    ASSUME NEW s, NEW n \in Nat \ {0}, Row(s, n)
    PROVE  Row(Up(s), RowSize(n))
<1>1. Len(s) = n
  BY RowLength
<1>2. CASE n > 1
  <2>1. Up(s) = NextLayer(s) /\ RowSize(n) = (n + 1) \div 2
    BY <1>1, <1>2 DEF Up, RowSize
  <2> QED
    BY <1>1, <2>1 DEF NextLayer, Row
<1>3. CASE ~(n > 1)
  BY <1>1, <1>3 DEF Up, RowSize
<1> QED
  BY <1>2, <1>3

\* Two rows of one length with the same next layer are the same.
LEMMA UpInjective ==
    ASSUME NEW s, NEW t, NEW n \in Nat \ {0}, Row(s, n), Row(t, n), Up(s) = Up(t)
    PROVE  s = t
<1>1. Len(s) = n /\ Len(t) = n
  BY RowLength
<1>2. CASE ~(n > 1)
  BY <1>1, <1>2 DEF Up
<1>3. CASE n > 1
  <2> DEFINE m == (n + 1) \div 2
             Right(i) == IF 2 * i <= n THEN 2 * i ELSE 2 * i - 1
  <2>1. NextLayer(s) = NextLayer(t)
    BY <1>1, <1>3 DEF Up
  <2>2. /\ NextLayer(s) = [i \in 1..m |-> <<"pair", s[2 * i - 1], s[Right(i)]>>]
        /\ NextLayer(t) = [i \in 1..m |-> <<"pair", t[2 * i - 1], t[Right(i)]>>]
    BY <1>1 DEF NextLayer
  <2>3. ASSUME NEW i \in 1..m PROVE s[2 * i - 1] = t[2 * i - 1] /\ s[Right(i)] = t[Right(i)]
    <3> DEFINE x == s[2 * i - 1]
               y == s[Right(i)]
               v == t[2 * i - 1]
               w == t[Right(i)]
    <3>1. <<"pair", x, y>> = <<"pair", v, w>>
      BY <2>1, <2>2
    <3> HIDE DEF x, y, v, w
    <3>2. x = v /\ y = w
      BY <3>1
    <3> QED
      BY <3>2 DEF x, y, v, w
  <2> HIDE DEF m
  <2>4. ASSUME NEW j \in 1..n PROVE s[j] = t[j]
    <3>1. PICK i \in 1..m : j = 2 * i - 1 \/ (j = 2 * i /\ 2 * i <= n)
      <4>1. PICK i \in Nat : j = 2 * i - 1 \/ j = 2 * i
        <5>1. j \in Nat /\ (j + 1) \div 2 \in Nat
              /\ (j = 2 * ((j + 1) \div 2) - 1 \/ j = 2 * ((j + 1) \div 2))
          OBVIOUS
        <5> QED
          BY <5>1
      <4>2. i \in 1..m
        BY <4>1 DEF m
      <4> QED
        BY <4>1, <4>2
    <3>2. CASE j = 2 * i - 1
      BY <2>3, <3>2
    <3>3. CASE j = 2 * i /\ 2 * i <= n
      <4>1. Right(i) = j
        BY <3>3
      <4>2. s[Right(i)] = t[Right(i)]
        BY <2>3
      <4> HIDE DEF Right
      <4> QED
        BY <4>1, <4>2
    <3> QED
      BY <3>1, <3>2, <3>3
  <2> QED
    BY <2>4 DEF Row
<1> QED
  BY <1>2, <1>3

\* Lists of one length with one root are the same.  (Of different lengths they
\* need not be: the last of an odd number of hashes is its own sibling.)
LEMMA RootInjective ==
    ASSUME NEW s, NEW t, NEW n \in Nat, Row(s, n), Row(t, n), MerkleRoot(s) = MerkleRoot(t)
    PROVE  s = t
<1>1. Len(s) = n /\ Len(t) = n
  BY RowLength
<1>2. CASE n = 0
  BY <1>2 DEF Row
<1>3. CASE n # 0
  <2>1. n \in Nat \ {0} /\ s # << >> /\ t # << >>
    BY <1>1, <1>3
  <2>2. PICK f : LayersUpTo(f, s, n) /\ MerkleRoot(s) = f[n][1]
    BY <1>1, <2>1, RootIsLast
  <2>3. PICK g : LayersUpTo(g, t, n) /\ MerkleRoot(t) = g[n][1]
    BY <1>1, <2>1, RootIsLast
  <2>4. /\ f[0] = s /\ \A k \in 1..n : f[k] = Up(f[k - 1])
        /\ g[0] = t /\ \A k \in 1..n : g[k] = Up(g[k - 1])
    BY <2>2, <2>3 DEF LayersUpTo
  <2> DEFINE Sized(k, z) == Row(f[k], z) /\ Row(g[k], z) /\ (z <= n - k \/ z = 1)
             P == {k \in Nat : \E z \in Nat \ {0} : Sized(k, z)}
  <2>5. 0 \in P
    <3>1. Sized(0, n)
      BY <2>4
    <3> QED
      BY <2>1, <3>1
  <2>6. ASSUME NEW k \in 1..n, k - 1 \in P PROVE k \in P
    <3>1. PICK z \in Nat \ {0} : Sized(k - 1, z)
      BY <2>6
    <3>2. /\ Row(Up(f[k - 1]), RowSize(z)) /\ Row(Up(g[k - 1]), RowSize(z))
          /\ RowSize(z) \in Nat \ {0} /\ RowSize(z) <= z /\ (z > 1 => RowSize(z) <= z - 1)
      BY <3>1, UpIsRow, SizeShrinks
    <3>3. RowSize(z) <= n - k \/ RowSize(z) = 1
      BY <3>1, <3>2
    <3>4. Sized(k, RowSize(z))
      BY <2>4, <3>2, <3>3
    <3> QED
      BY <3>2, <3>4
  <2> HIDE DEF P
  <2>7. \A k \in 0..n : k \in P
    BY <2>5, <2>6, CountUp
  <2> USE DEF P
  <2>8. f[n] = g[n]
    <3>1. PICK z \in Nat \ {0} : Sized(n, z)
      BY <2>7
    <3>2. Row(f[n], 1) /\ Row(g[n], 1)
      BY <3>1
    <3> QED
      BY <2>2, <2>3, <3>2 DEF Row
  <2> DEFINE Q == {d \in Nat : f[n - d] = g[n - d]}
  <2>9. 0 \in Q
    BY <2>8
  <2>10. ASSUME NEW d \in 1..n, d - 1 \in Q PROVE d \in Q
    <3> DEFINE k == n - (d - 1)
    <3>1. k \in 1..n /\ k - 1 = n - d /\ k - 1 \in 0..n /\ d \in Nat
      OBVIOUS
    <3>2. f[k] = g[k]
      BY <2>10
    <3> HIDE DEF k
    <3>3. Up(f[k - 1]) = Up(g[k - 1])
      BY <2>4, <3>1, <3>2
    <3>4. PICK z \in Nat \ {0} : Sized(k - 1, z)
      BY <2>7, <3>1
    <3>5. f[k - 1] = g[k - 1]
      BY <3>3, <3>4, UpInjective
    <3> QED
      BY <3>1, <3>5
  <2> HIDE DEF Q
  <2>11. n \in Q
    BY <2>9, <2>10, CountUp
  <2>12. f[n - n] = g[n - n]
    BY <2>11 DEF Q
  <2> QED
    BY <2>4, <2>12
<1> QED
  BY <1>2, <1>3

-----------------------------------------------------------------------------
(* Blocks and their receipts.                                              *)

\* The receipts of a block have one element for each transaction, and the root
\* in its header.
Fits(block, receipts) ==
    /\ IsList(receipts) /\ Len(receipts) = Len(block.transactions)
    /\ ReceiptRoot(receipts) = block.header.receipt_root

LEMMA OneFits ==
    ASSUME NEW block, NEW r, NEW q, Fits(block, r), Fits(block, q)
    PROVE  r = q
<1> DEFINE n == Len(r)
<1>1. n \in Nat /\ Row(r, n) /\ Row(q, n)
  <2>1. PICK S : r \in Seq(S)
    BY DEF Fits, IsList
  <2>2. PICK T : q \in Seq(T)
    BY DEF Fits, IsList
  <2>3. Len(r) = Len(q)
    BY DEF Fits
  <2> QED
    BY <2>1, <2>2, <2>3 DEF Row
<1>2. MerkleRoot(r) = MerkleRoot(q)
  BY DEF Fits, ReceiptRoot
<1> QED
  BY <1>1, <1>2, RootInjective

\* f is the run of a block, and p what prepare_block makes of it.
Prepared(acc, db, block, p, f) ==
    LET n == Len(block.transactions)
    IN  /\ RunUpTo(f, acc, db, block.header.height, block.transactions, n)
        /\ f[n].ok
        /\ p.receipts = f[n].receipts
        /\ p.state = ApplyBlockAccounting(f[n].state, block.header.proposer, f[n].fees)
        /\ ReceiptRoot(p.receipts) = block.header.receipt_root

LEMMA PreparedRun ==
    ASSUME NEW acc, NEW db, NEW latest, NEW block, Len(block.transactions) \in Nat,
           NEW p, p = PrepareBlock(acc, db, latest, block), p.ok
    PROVE  \E f : Prepared(acc, db, block, p, f)
<1> DEFINE h == block.header.height
           txs == block.transactions
           run == RunTransactions(acc, db, h, txs)
           whole == RunBlock(acc, db, h, block.header.proposer, txs)
           accounted == ApplyBlockAccounting(run.state, block.header.proposer, run.fees)
<1>1. PICK f : RunUpTo(f, acc, db, h, txs, Len(txs)) /\ run = f[Len(txs)]
  BY RunSteps
<1>2. IsRun(run)
  <2>1. IsRun(f[Len(txs)])
    <3> DEFINE n == Len(txs)
    <3>1. n \in Nat /\ n \in 0..n /\ RunUpTo(f, acc, db, h, txs, n)
      BY <1>1
    <3> HIDE DEF n, h, txs, run
    <3>2. IsRun(f[n])
      BY <3>1, ReceiptEach
    <3> QED
      BY <3>2 DEF n
  <2> HIDE DEF run
  <2> QED
    BY <1>1, <2>1
<1>3. /\ IsRun(whole) /\ whole.ok = run.ok /\ whole.receipts = run.receipts
      /\ run.ok => whole.state = accounted
  <2>1. whole = IF run.ok
                THEN [run EXCEPT !.state = ApplyBlockAccounting(@, block.header.proposer, run.fees)]
                ELSE run
    BY DEF RunBlock, Accounted
  <2> HIDE DEF run, whole
  <2>2. CASE run.ok
    <3>1. whole = [run EXCEPT !.state = accounted]
      BY <2>1, <2>2
    <3> HIDE DEF accounted
    <3>2. whole = [ok |-> run.ok, state |-> accounted, evm |-> run.evm,
                   receipts |-> run.receipts, fees |-> run.fees]
      BY <1>2, <3>1 DEF IsRun
    <3> QED
      BY <1>2, <3>2 DEF IsRun
  <2> QED
    BY <1>2, <2>1, <2>2
<1>4. p = IF block.header.parent_hash # latest
          THEN [StartRun(acc, db) EXCEPT !.ok = FALSE]
          ELSE [whole EXCEPT !.ok = whole.ok /\ RootsMatch(block, whole)]
  BY DEF PrepareBlock, Compared
<1> HIDE DEF run, whole, accounted
<1>5. block.header.parent_hash = latest
  <2>1. SUFFICES ASSUME block.header.parent_hash # latest PROVE FALSE
    OBVIOUS
  <2>2. p = [StartRun(acc, db) EXCEPT !.ok = FALSE]
    BY <1>4, <2>1
  <2>3. ~p.ok
    BY <2>2 DEF StartRun
  <2> QED
    BY <2>3
<1>6. p = [whole EXCEPT !.ok = whole.ok /\ RootsMatch(block, whole)]
  BY <1>4, <1>5
<1>7. /\ p.ok = (whole.ok /\ RootsMatch(block, whole))
      /\ p.receipts = whole.receipts /\ p.state = whole.state
  BY <1>3, <1>6 DEF IsRun
<1>8. whole.ok /\ RootsMatch(block, whole)
  BY <1>7
<1>9. ReceiptRoot(p.receipts) = block.header.receipt_root
  BY <1>7, <1>8 DEF RootsMatch
<1>10. /\ run.ok /\ p.receipts = run.receipts
       /\ p.state = ApplyBlockAccounting(run.state, block.header.proposer, run.fees)
  BY <1>3, <1>7, <1>8 DEF accounted
<1> QED
  BY <1>1, <1>9, <1>10 DEF Prepared

\* A block that was prepared has receipts that fit it.
LEMMA PreparedFits ==
    ASSUME NEW acc, NEW db, NEW block, Len(block.transactions) \in Nat, NEW p, NEW f,
           Prepared(acc, db, block, p, f)
    PROVE  Fits(block, p.receipts)
<1> DEFINE n == Len(block.transactions)
           h == block.header.height
           txs == block.transactions
<1>1. /\ n \in Nat /\ n \in 0..n /\ RunUpTo(f, acc, db, h, txs, n)
      /\ f[n].ok /\ p.receipts = f[n].receipts
      /\ ReceiptRoot(p.receipts) = block.header.receipt_root
  BY DEF Prepared
<1> HIDE DEF n, h, txs
<1>2. IsList(f[n].receipts) /\ Len(f[n].receipts) = n
  <2>1. OneEach(f[n], n)
    BY <1>1, ReceiptEach
  <2> QED
    BY <1>1, <2>1 DEF OneEach
<1> QED
  BY <1>1, <1>2 DEF Fits, n

-----------------------------------------------------------------------------
(* Receipts.                                                               *)

\* A chain c holds the blocks decided so far, d, up to some height.
ChainOK(c, d) ==
    /\ IsList(c) /\ Len(c) <= Len(d)
    /\ \A i \in 1..Len(c) : /\ c[i] = [block |-> c[i].block, receipts |-> c[i].receipts]
                            /\ c[i].block = d[i] /\ Fits(d[i], c[i].receipts)

Todos == {<<"persist", "commit">>, <<"commit">>, <<"commit", "persist">>, <<"persist">>}

\* What is still to be committed is the next block decided.
JobOK(j, c, d) ==
    /\ j = [block |-> j.block, receipts |-> j.receipts, state |-> j.state, todo |-> j.todo,
            seen |-> j.seen, credits |-> j.credits]
    /\ j.todo \in Todos
    /\ j.todo # <<"persist">> =>
          Len(c) < Len(d) /\ j.block = d[Len(c) + 1] /\ Fits(j.block, j.receipts)

BlocksOK(d, prop) ==
    /\ IsList(d)
    /\ \A i \in 1..Len(d) : IsList(d[i].transactions)
    /\ \A b \in prop : IsList(b.transactions)

\* At most one job at a time.
JobsOK(js, c, d) == js = {} \/ \E j : js = {j} /\ JobOK(j, c, d)

AgreeInv ==
    /\ BlocksOK(decided, proposal)
    /\ chain = [n \in Nodes |-> chain[n]] /\ job = [n \in Nodes |-> job[n]]
    /\ \A n \in Nodes : ChainOK(chain[n], decided) /\ JobsOK(job[n], chain[n], decided)

LEMMA ListLength ==
    ASSUME NEW s, IsList(s)
    PROVE  Len(s) \in Nat
BY DEF IsList

LEMMA AppendElements ==
    ASSUME NEW s, IsList(s), NEW x
    PROVE  /\ \A i \in 1..Len(s) : Append(s, x)[i] = s[i]
           /\ Append(s, x)[Len(s) + 1] = x
<1>1. PICK S : s \in Seq(S)
  BY DEF IsList
<1> DEFINE T == S \cup {x}
<1>2. s \in Seq(T) /\ x \in T
  BY <1>1
<1> HIDE DEF T
<1> QED
  BY <1>2

LEMMA AgreeInit == Init => AgreeInv
<1> SUFFICES ASSUME Init PROVE AgreeInv
  OBVIOUS
<1>1. IsList(<< >>) /\ Len(<< >>) = 0
  BY DEF IsList
<1>2. decided = << >> /\ proposal = {} /\ chain = [n \in Nodes |-> << >>] /\ job = [n \in Nodes |-> {}]
  BY DEF Init
<1>3. BlocksOK(decided, proposal)
  BY <1>1, <1>2 DEF BlocksOK
<1>4. \A n \in Nodes : ChainOK(chain[n], decided) /\ JobsOK(job[n], chain[n], decided)
  BY <1>1, <1>2 DEF ChainOK, JobsOK
<1> QED
  BY <1>2, <1>3, <1>4 DEF AgreeInv

\* Only one node's chain and job change.
LEMMA AgreeAt ==
    ASSUME AgreeInv, NEW n \in Nodes, UNCHANGED <<decided, proposal>>,
           NEW c, NEW js, chain' = [chain EXCEPT ![n] = c], job' = [job EXCEPT ![n] = js],
           ChainOK(c, decided), JobsOK(js, c, decided)
    PROVE  AgreeInv'
<1>1. /\ chain = [m \in Nodes |-> chain[m]] /\ job = [m \in Nodes |-> job[m]]
      /\ \A m \in Nodes : ChainOK(chain[m], decided) /\ JobsOK(job[m], chain[m], decided)
  BY DEF AgreeInv
<1>2. /\ chain' = [m \in Nodes |-> IF m = n THEN c ELSE chain[m]]
      /\ job' = [m \in Nodes |-> IF m = n THEN js ELSE job[m]]
  BY <1>1
<1>3. \A m \in Nodes : /\ chain'[m] = IF m = n THEN c ELSE chain[m]
                       /\ job'[m] = IF m = n THEN js ELSE job[m]
  BY <1>2
<1>4. ASSUME NEW m \in Nodes PROVE ChainOK(chain'[m], decided) /\ JobsOK(job'[m], chain'[m], decided)
  <2>1. CASE m = n
    BY <1>3, <2>1
  <2>2. CASE m # n
    BY <1>1, <1>3, <2>2
  <2> QED
    BY <2>1, <2>2
<1>5. chain' = [m \in Nodes |-> chain'[m]] /\ job' = [m \in Nodes |-> job'[m]]
  BY <1>2
<1>6. decided' = decided /\ proposal' = proposal /\ BlocksOK(decided, proposal)
  BY DEF AgreeInv
<1> QED
  BY <1>4, <1>5, <1>6 DEF AgreeInv

LEMMA AgreePropose ==
    ASSUME AgreeInv, NEW n \in Nodes, NEW txs \in Lists, Propose(n, txs)
    PROVE  AgreeInv'
<1> DEFINE height == Len(chain[n]) + 1
           run == DryRun(accounts[n], evm[n], height, n, txs)
           block == [header |-> BuildHeader(LatestHash(n), height, n, txs, run),
                     transactions |-> txs]
<1>1. UNCHANGED <<chain, job, decided>> /\ proposal' = IF run.ok THEN {block} ELSE proposal
  BY DEF Propose
<1>2. IsList(txs)
  <2>1. PICK k \in 0..MaxBlockTxs : txs \in [1..k -> Txs]
    BY DEF Lists
  <2>2. k \in Nat
    BY LedgerAssumption
  <2>3. txs \in Seq(Txs)
    BY <2>1, <2>2
  <2> QED
    BY <2>3 DEF IsList
<1>3. block.transactions = txs
  OBVIOUS
<1> HIDE DEF block, run, height
<1>4. \A b \in proposal' : IsList(b.transactions)
  BY <1>1, <1>2, <1>3 DEF AgreeInv, BlocksOK
<1> QED
  BY <1>1, <1>4 DEF AgreeInv, BlocksOK

LEMMA AgreeDecide ==
    ASSUME AgreeInv, NEW block \in proposal, Decide(block)
    PROVE  AgreeInv'
<1>1. UNCHANGED <<chain, job>> /\ proposal' = {} /\ decided' = Append(decided, block)
  BY DEF Decide, storeVars
<1>2. IsList(decided) /\ IsList(block.transactions) /\ Len(decided) \in Nat
  BY ListLength DEF AgreeInv, BlocksOK
<1> DEFINE d == Append(decided, block)
<1>3. /\ IsList(d) /\ Len(d) = Len(decided) + 1
      /\ \A i \in 1..Len(decided) : d[i] = decided[i]
      /\ d[Len(decided) + 1] = block
  BY <1>2, LongerList, AppendElements
<1> HIDE DEF d
<1>4. decided' = d
  BY <1>1 DEF d
<1>5. BlocksOK(d, {})
  <2>1. \A i \in 1..Len(d) : i \in 1..Len(decided) \/ i = Len(decided) + 1
    BY <1>2, <1>3
  <2> QED
    BY <1>2, <1>3, <2>1 DEF AgreeInv, BlocksOK
<1>6. ASSUME NEW n \in Nodes PROVE ChainOK(chain[n], d) /\ JobsOK(job[n], chain[n], d)
  <2>1. ChainOK(chain[n], decided) /\ JobsOK(job[n], chain[n], decided)
    BY DEF AgreeInv
  <2>2. Len(chain[n]) \in Nat /\ Len(chain[n]) <= Len(decided)
    BY <2>1, ListLength DEF ChainOK
  <2>3. \A i \in 1..Len(chain[n]) : d[i] = decided[i]
    BY <1>2, <1>3, <2>2
  <2>4. Len(chain[n]) < Len(decided) => d[Len(chain[n]) + 1] = decided[Len(chain[n]) + 1]
    BY <1>2, <1>3, <2>2
  <2>5. ChainOK(chain[n], d)
    BY <1>2, <1>3, <2>1, <2>2, <2>3 DEF ChainOK
  <2>6. JobsOK(job[n], chain[n], d)
    BY <1>2, <1>3, <2>1, <2>2, <2>4 DEF JobsOK, JobOK
  <2> QED
    BY <2>5, <2>6
<1> QED
  BY <1>1, <1>4, <1>5, <1>6 DEF AgreeInv

LEMMA AgreeSame ==
    ASSUME AgreeInv, UNCHANGED <<decided, proposal, chain, job>>
    PROVE  AgreeInv'
BY DEF AgreeInv

LEMMA TodoStages ==
    ASSUME NEW t \in Todos
    PROVE  /\ Head(t) = "persist" => t = <<"persist">> \/ t = <<"persist", "commit">>
           /\ Head(t) = "commit" => t = <<"commit">> \/ t = <<"commit", "persist">>
           /\ Len(<<"persist">>) = 1 /\ Len(<<"commit">>) = 1
           /\ Len(<<"persist", "commit">>) = 2 /\ Len(<<"commit", "persist">>) = 2
           /\ Tail(<<"persist", "commit">>) = <<"commit">>
           /\ Tail(<<"commit", "persist">>) = <<"persist">>
           /\ <<"commit">> # <<"persist">> /\ <<"persist", "commit">> # <<"persist">>
           /\ <<"commit", "persist">> # <<"persist">>
BY DEF Todos

LEMMA AgreeExecute ==
    ASSUME AgreeInv, NEW n \in Nodes, NEW block, NEW receipts,
           NEW todo \in {<<"persist", "commit">>, <<"commit", "persist">>},
           Execute(n, block, todo, receipts),
           Len(chain[n]) < Len(decided), block = decided[Len(chain[n]) + 1]
    PROVE  AgreeInv'
<1> DEFINE prepared == PrepareBlock(accounts[n], evm[n], LatestHash(n), block)
           ok == prepared.ok /\ \A r \in receipts : r = prepared.receipts
           j == [block |-> block, receipts |-> prepared.receipts, state |-> prepared.state,
                 todo |-> todo, seen |-> accounts[n], credits |-> credits[n]]
<1>1. /\ UNCHANGED <<decided, proposal, chain>>
      /\ ok => job' = [job EXCEPT ![n] = {j}]
      /\ ~ok => job' = job
  BY DEF Execute, consVars
<1>2. CASE ~ok
  BY <1>1, <1>2, AgreeSame
<1>3. CASE ok
  <2>1. Len(chain[n]) \in Nat /\ Len(decided) \in Nat
    BY ListLength DEF AgreeInv, ChainOK, BlocksOK
  <2>2. Len(block.transactions) \in Nat
    <3>1. Len(chain[n]) + 1 \in 1..Len(decided)
      BY <2>1
    <3>2. IsList(block.transactions)
      BY <3>1 DEF AgreeInv, BlocksOK
    <3> QED
      BY <3>2, ListLength
  <2>3. Fits(block, prepared.receipts)
    <3> DEFINE acc == accounts[n]
               db == evm[n]
               latest == LatestHash(n)
    <3>1. prepared = PrepareBlock(acc, db, latest, block) /\ prepared.ok
      BY <1>3
    <3> HIDE DEF prepared, acc, db, latest
    <3>2. \E f : Prepared(acc, db, block, prepared, f)
      BY <2>2, <3>1, PreparedRun
    <3>3. PICK f : Prepared(acc, db, block, prepared, f)
      BY <3>2
    <3> QED
      BY <2>2, <3>3, PreparedFits
  <2>4. JobOK(j, chain[n], decided)
    <3> HIDE DEF prepared
    <3>1. j.todo = todo /\ j.block = block /\ j.receipts = prepared.receipts
      OBVIOUS
    <3>2. j = [block |-> j.block, receipts |-> j.receipts, state |-> j.state, todo |-> j.todo,
               seen |-> j.seen, credits |-> j.credits]
      OBVIOUS
    <3>3. todo \in Todos /\ todo # <<"persist">>
      <4>1. todo \in Todos
        BY DEF Todos
      <4>2. <<"persist", "commit">> # <<"persist">> /\ <<"commit", "persist">> # <<"persist">>
        BY <4>1, TodoStages
      <4> QED
        BY <4>1, <4>2
    <3> HIDE DEF j
    <3> QED
      BY <2>3, <3>1, <3>2, <3>3 DEF JobOK
  <2> HIDE DEF j
  <2>5. JobsOK({j}, chain[n], decided)
    BY <2>4 DEF JobsOK
  <2>6. ChainOK(chain[n], decided) /\ chain' = [chain EXCEPT ![n] = chain[n]]
    BY <1>1 DEF AgreeInv
  <2>7. job' = [job EXCEPT ![n] = {j}]
    BY <1>1, <1>3
  <2> QED
    BY <1>1, <2>5, <2>6, <2>7, AgreeAt
<1> QED
  BY <1>2, <1>3

LEMMA AgreeFinalize ==
    ASSUME AgreeInv, NEW n \in Nodes, Finalize(n)
    PROVE  AgreeInv'
<1> DEFINE block == decided[Len(chain[n]) + 1]
           todo == <<"persist", "commit">>
<1>1. Len(chain[n]) < Len(decided) /\ Execute(n, block, todo, {})
  BY DEF Finalize
<1>2. todo \in {<<"persist", "commit">>, <<"commit", "persist">>}
  OBVIOUS
<1>3. block = decided[Len(chain[n]) + 1]
  OBVIOUS
<1> HIDE DEF block, todo
<1> QED
  BY <1>1, <1>2, <1>3, AgreeExecute

LEMMA AgreeImport ==
    ASSUME AgreeInv, NEW n \in Nodes, NEW m \in Nodes, Import(n, m)
    PROVE  AgreeInv'
<1> DEFINE i == Len(chain[n]) + 1
           block == chain[m][i].block
           receipts == {chain[m][i].receipts}
           todo == <<"commit", "persist">>
<1>1. Len(chain[n]) < Len(chain[m]) /\ Execute(n, block, todo, receipts)
  BY DEF Import
<1>2. todo \in {<<"persist", "commit">>, <<"commit", "persist">>}
  OBVIOUS
<1>3. /\ Len(chain[n]) \in Nat /\ Len(chain[m]) \in Nat /\ Len(decided) \in Nat
      /\ Len(chain[m]) <= Len(decided)
      /\ \A k \in 1..Len(chain[m]) : chain[m][k].block = decided[k]
  BY ListLength DEF AgreeInv, ChainOK, BlocksOK
<1>4. Len(chain[n]) < Len(decided) /\ block = decided[Len(chain[n]) + 1]
  BY <1>1, <1>3
<1> HIDE DEF block, todo, receipts
<1> QED
  BY <1>1, <1>2, <1>4, AgreeExecute

\* The job after its next write.
Rest(j, acc) ==
    [block |-> j.block, receipts |-> j.receipts, state |-> j.state, todo |-> Tail(j.todo),
     seen |-> Over(j.state, acc), credits |-> j.credits]

LEMMA Rested ==
    ASSUME NEW c, NEW d, NEW j, JobOK(j, c, d), NEW n, WriteAccounts(n, j)
    PROVE  job' = [job EXCEPT ![n] = IF Len(j.todo) = 1 THEN {} ELSE {Rest(j, accounts[n])}]
<1> DEFINE o == Over(j.state, accounts[n])
           next == [block |-> j.block, receipts |-> j.receipts, state |-> j.state,
                    todo |-> Tail(j.todo), seen |-> o, credits |-> j.credits]
<1>1. job' = [job EXCEPT ![n] = IF Len(j.todo) = 1 THEN {}
                                ELSE {[j EXCEPT !.todo = Tail(@), !.seen = o]}]
  BY DEF WriteAccounts
<1> HIDE DEF o
<1>2. [j EXCEPT !.todo = Tail(@), !.seen = o] = next
  <2> DEFINE t == Tail(j.todo)
  <2>1. j = [block |-> j.block, receipts |-> j.receipts, state |-> j.state, todo |-> j.todo,
             seen |-> j.seen, credits |-> j.credits]
    BY DEF JobOK
  <2>2. [j EXCEPT !.todo = Tail(@), !.seen = o] = [j EXCEPT !.todo = t, !.seen = o]
    BY <2>1
  <2> HIDE DEF t
  <2> DEFINE b == j.block
             r == j.receipts
             s == j.state
             u == j.todo
             e == j.seen
             k == j.credits
  <2>3. j = [block |-> b, receipts |-> r, state |-> s, todo |-> u, seen |-> e, credits |-> k]
    BY <2>1
  <2> HIDE DEF b, r, s, u, e, k
  <2>4. [j EXCEPT !.todo = t, !.seen = o] =
            [block |-> b, receipts |-> r, state |-> s, todo |-> t, seen |-> o, credits |-> k]
    <3> DEFINE y == [j EXCEPT !.todo = t]
               z == [y EXCEPT !.seen = o]
    <3>1. [j EXCEPT !.todo = t, !.seen = o] = z
      BY <2>3
    <3>2. y = [block |-> b, receipts |-> r, state |-> s, todo |-> t, seen |-> e, credits |-> k]
      BY <2>3
    <3> HIDE DEF y
    <3>3. z = [block |-> b, receipts |-> r, state |-> s, todo |-> t, seen |-> o, credits |-> k]
      BY <3>2
    <3> QED
      BY <3>1, <3>3
  <2> QED
    BY <2>2, <2>4 DEF t, b, r, s, k
<1> HIDE DEF next
<1>3. job' = [job EXCEPT ![n] = IF Len(j.todo) = 1 THEN {} ELSE {next}]
  BY <1>1, <1>2
<1> QED
  BY <1>3 DEF next, o, Rest

LEMMA RestOK ==
    ASSUME NEW j, NEW acc, NEW c, NEW d, JobOK(j, c, d), NEW e,
           Tail(j.todo) \in Todos,
           Tail(j.todo) # <<"persist">> => e = c /\ j.todo # <<"persist">>
    PROVE  JobOK(Rest(j, acc), e, d)
<1> DEFINE q == Rest(j, acc)
           o == Over(j.state, acc)
           t == Tail(j.todo)
<1>1. q = [block |-> j.block, receipts |-> j.receipts, state |-> j.state, todo |-> t,
           seen |-> o, credits |-> j.credits]
  BY DEF Rest
<1> HIDE DEF o, q, t
<1>2. /\ q = [block |-> q.block, receipts |-> q.receipts, state |-> q.state, todo |-> q.todo,
              seen |-> q.seen, credits |-> q.credits]
      /\ q.block = j.block /\ q.receipts = j.receipts /\ q.todo = t
  BY <1>1
<1>3. q.todo \in Todos
  BY <1>2 DEF t
<1>4. q.todo # <<"persist">> =>
         Len(e) < Len(d) /\ q.block = d[Len(e) + 1] /\ Fits(q.block, q.receipts)
  BY <1>2 DEF JobOK, t
<1>5. JobOK(q, e, d)
  BY <1>2, <1>3, <1>4 DEF JobOK
<1> QED
  BY <1>5 DEF q

LEMMA AgreePersist ==
    ASSUME AgreeInv, NEW n \in Nodes, Persist(n)
    PROVE  AgreeInv'
<1>1. PICK j \in job[n] : Head(j.todo) = "persist" /\ WriteAccounts(n, j)
  BY DEF Persist
<1>2. UNCHANGED <<decided, proposal, chain>>
  BY DEF Persist, consVars
<1>3. JobOK(j, chain[n], decided) /\ ChainOK(chain[n], decided)
  BY DEF AgreeInv, JobsOK
<1> DEFINE q == Rest(j, accounts[n])
           js == IF Len(j.todo) = 1 THEN {} ELSE {q}
<1>4. job' = [job EXCEPT ![n] = js]
  BY <1>1, <1>3, Rested
<1>5. JobsOK(js, chain[n], decided)
  <2>1. j.todo \in Todos
    BY <1>3 DEF JobOK
  <2>2. CASE j.todo = <<"persist">>
    <3>1. js = {}
      BY <2>1, <2>2, TodoStages
    <3> QED
      BY <3>1 DEF JobsOK
  <2>3. CASE j.todo = <<"persist", "commit">>
    <3>1. /\ js = {q} /\ Tail(j.todo) = <<"commit">> /\ <<"commit">> # <<"persist">>
          /\ j.todo # <<"persist">>
      BY <2>1, <2>3, TodoStages
    <3>2. Tail(j.todo) \in Todos
      BY <3>1 DEF Todos
    <3>3. JobOK(q, chain[n], decided)
      BY <1>3, <3>1, <3>2, RestOK
    <3> HIDE DEF q
    <3> QED
      BY <3>1, <3>3 DEF JobsOK
  <2> QED
    BY <1>1, <2>1, <2>2, <2>3, TodoStages
<1>6. chain' = [chain EXCEPT ![n] = chain[n]]
  BY <1>2 DEF AgreeInv
<1> HIDE DEF js
<1> QED
  BY <1>2, <1>3, <1>4, <1>5, <1>6, AgreeAt

LEMMA AgreeCommit ==
    ASSUME AgreeInv, NEW n \in Nodes, Commit(n)
    PROVE  AgreeInv'
<1>1. PICK j \in job[n] : /\ Head(j.todo) = "commit" /\ WriteAccounts(n, j)
                          /\ chain' = [chain EXCEPT ![n] =
                                Append(@, [block |-> j.block, receipts |-> j.receipts])]
  BY DEF Commit
<1>2. UNCHANGED <<decided, proposal>>
  BY DEF Commit, consVars
<1>3. JobOK(j, chain[n], decided) /\ ChainOK(chain[n], decided)
  BY DEF AgreeInv, JobsOK
<1>4. j.todo \in Todos /\ (j.todo = <<"commit">> \/ j.todo = <<"commit", "persist">>)
  BY <1>1, <1>3, TodoStages DEF JobOK
<1>5. Len(chain[n]) < Len(decided) /\ j.block = decided[Len(chain[n]) + 1] /\ Fits(j.block, j.receipts)
  <2>1. j.todo # <<"persist">>
    BY <1>4, TodoStages
  <2> QED
    BY <1>3, <2>1 DEF JobOK
<1> DEFINE b == [block |-> j.block, receipts |-> j.receipts]
           c == Append(chain[n], b)
           q == Rest(j, accounts[n])
           js == IF Len(j.todo) = 1 THEN {} ELSE {q}
<1>6. chain' = [chain EXCEPT ![n] = c]
  BY <1>1
<1>7. job' = [job EXCEPT ![n] = js]
  BY <1>1, <1>3, Rested
<1>8. ChainOK(c, decided)
  <2>1. /\ b.block = j.block /\ b.receipts = j.receipts
        /\ b = [block |-> b.block, receipts |-> b.receipts]
    OBVIOUS
  <2> HIDE DEF b
  <2>2. IsList(chain[n]) /\ Len(chain[n]) \in Nat /\ Len(decided) \in Nat
    BY <1>3, ListLength DEF ChainOK, AgreeInv, BlocksOK
  <2>3. IsList(c) /\ Len(c) = Len(chain[n]) + 1
    BY <2>2, LongerList
  <2>4. (\A i \in 1..Len(chain[n]) : c[i] = chain[n][i]) /\ c[Len(chain[n]) + 1] = b
    BY <2>2, AppendElements
  <2> HIDE DEF c
  <2>5. ASSUME NEW i \in 1..Len(c)
        PROVE  /\ c[i] = [block |-> c[i].block, receipts |-> c[i].receipts]
               /\ c[i].block = decided[i] /\ Fits(decided[i], c[i].receipts)
    <3>1. CASE i \in 1..Len(chain[n])
      BY <1>3, <2>4, <3>1 DEF ChainOK
    <3>2. CASE i = Len(chain[n]) + 1
      BY <1>5, <2>1, <2>4, <3>2
    <3> QED
      BY <2>2, <2>3, <3>1, <3>2
  <2>6. Len(c) <= Len(decided)
    BY <1>5, <2>2, <2>3
  <2> QED
    BY <2>3, <2>5, <2>6, Zenon DEF ChainOK
<1>9. JobsOK(js, c, decided)
  <2>1. CASE j.todo = <<"commit">>
    <3>1. js = {}
      BY <1>4, <2>1, TodoStages
    <3> QED
      BY <3>1 DEF JobsOK
  <2>2. CASE j.todo = <<"commit", "persist">>
    <3>1. js = {q} /\ Tail(j.todo) = <<"persist">>
      BY <1>4, <2>2, TodoStages
    <3>2. Tail(j.todo) \in Todos
      BY <3>1 DEF Todos
    <3> HIDE DEF c
    <3>3. JobOK(q, c, decided)
      BY <1>3, <3>1, <3>2, RestOK
    <3> HIDE DEF q
    <3> QED
      BY <3>1, <3>3 DEF JobsOK
  <2> QED
    BY <1>4, <2>1, <2>2
<1> HIDE DEF c, js
<1> QED
  BY <1>2, <1>6, <1>7, <1>8, <1>9, AgreeAt

LEMMA AgreeRestart ==
    ASSUME AgreeInv, NEW n \in Nodes, Restart(n)
    PROVE  AgreeInv'
<1>1. /\ UNCHANGED <<decided, proposal, chain>> /\ job' = [job EXCEPT ![n] = {}]
  BY DEF Restart, storeVars, consVars
<1>2. JobsOK({}, chain[n], decided) /\ ChainOK(chain[n], decided)
  BY DEF JobsOK, AgreeInv
<1>3. chain' = [chain EXCEPT ![n] = chain[n]]
  BY <1>1 DEF AgreeInv
<1> QED
  BY <1>1, <1>2, <1>3, AgreeAt

\* The calls and the shielded pool.
Aside(n) ==
    \/ \E to \in Nodes : FaucetSend(n, to, 1)
    \/ LoadAccount(n)
    \/ StoreAccount(n)
    \/ \E call \in Calls : SendRawTransaction(n, <<"eth">>, call)
    \/ PersistDb(n)
    \/ n \in PoolNodes /\ \E committed \in {1, 2} : ZkShield(n, 1, committed)
    \/ \E i \in DOMAIN notes[n], value \in {1, 2} :
          \E nullifier \in Nullifiers(notes[n][i]) :
             \/ PrepareUnshield(n, i, nullifier, value)
             \/ PrepareTransfer(n, i, nullifier, value)
    \/ \E to \in Nodes : ZkUnshield(n, to)
    \/ ZkTransfer(n)

LEMMA AsideKeeps ==
    ASSUME NEW n, Aside(n)
    PROVE  /\ UNCHANGED <<decided, proposal, chain, job>>
           /\ StoreAccount(n) \/ UNCHANGED <<accounts, clean>>
<1>1. CASE \E to \in Nodes : FaucetSend(n, to, 1)
  BY <1>1 DEF FaucetSend, storeVars, consVars, histVars
<1>2. CASE LoadAccount(n)
  BY <1>2 DEF LoadAccount, storeVars, consVars, histVars
<1>3. CASE StoreAccount(n)
  BY <1>3 DEF StoreAccount, consVars
<1>4. CASE \E call \in Calls : SendRawTransaction(n, <<"eth">>, call)
  BY <1>4 DEF SendRawTransaction, storeVars, consVars, histVars
<1>5. CASE PersistDb(n)
  BY <1>5 DEF PersistDb, consVars, histVars
<1>6. CASE \E committed \in {1, 2} : ZkShield(n, 1, committed)
  BY <1>6 DEF ZkShield, storeVars, consVars, histVars
<1>7. CASE \E i \in DOMAIN notes[n], value \in {1, 2} :
              \E nullifier \in Nullifiers(notes[n][i]) :
                 \/ PrepareUnshield(n, i, nullifier, value)
                 \/ PrepareTransfer(n, i, nullifier, value)
  BY <1>7 DEF PrepareUnshield, PrepareTransfer, storeVars, consVars, histVars
<1>8. CASE \E to \in Nodes : ZkUnshield(n, to)
  BY <1>8 DEF ZkUnshield, storeVars, consVars, histVars
<1>9. CASE ZkTransfer(n)
  BY <1>9 DEF ZkTransfer, storeVars, consVars, histVars
<1> QED
  BY <1>1, <1>2, <1>3, <1>4, <1>5, <1>6, <1>7, <1>8, <1>9 DEF Aside

\* The steps of Next.
Steps ==
    \/ \E n \in Nodes, txs \in Lists : Propose(n, txs)
    \/ \E block \in proposal : Decide(block)
    \/ \E n \in Nodes : \/ Finalize(n)
                        \/ \E m \in Nodes : Import(n, m)
                        \/ Persist(n) \/ Commit(n) \/ Restart(n) \/ Aside(n)

LEMMA NextIsSteps == Next => Steps
BY Zenon DEF Next, Steps, Aside

LEMMA AgreeNext == AgreeInv /\ [Next]_vars => AgreeInv'
<1> SUFFICES ASSUME AgreeInv, [Next]_vars PROVE AgreeInv'
  OBVIOUS
<1>1. CASE Next
  <2>1. Steps
    BY <1>1, NextIsSteps
  <2>2. ASSUME NEW n \in Nodes, Aside(n) PROVE AgreeInv'
    BY <2>2, AsideKeeps, AgreeSame
  <2> QED
    BY <2>1, <2>2, AgreePropose, AgreeDecide, AgreeFinalize, AgreeImport, AgreePersist,
       AgreeCommit, AgreeRestart DEF Steps
<1>2. CASE UNCHANGED vars
  BY <1>2, AgreeSame DEF vars, storeVars, consVars
<1> QED
  BY <1>1, <1>2

\* What every node holds of the chain is what was decided, with the receipts
\* the headers commit to.
THEOREM AgreeInvariant == Spec => []AgreeInv
BY AgreeInit, AgreeNext, PTL DEF Spec

\* Two nodes that hold a block of one height hold the same block and the same
\* receipts, whatever crashes, failed executions, dry runs and calls have done
\* to their EVM states: prepare_block compares the receipt root, and a list of
\* as many receipts as the block has transactions has a root of its own.
THEOREM ReceiptsAgreeTheorem == Spec => []ReceiptsAgree
<1>1. AgreeInv => ReceiptsAgree
  <2> SUFFICES ASSUME AgreeInv, NEW n \in Nodes, NEW m \in Nodes,
                      NEW i \in DOMAIN chain[n] \cap DOMAIN chain[m]
               PROVE  chain[n][i] = chain[m][i]
    BY DEF ReceiptsAgree
  <2>1. ChainOK(chain[n], decided) /\ ChainOK(chain[m], decided)
    BY DEF AgreeInv
  <2>2. i \in 1..Len(chain[n]) /\ i \in 1..Len(chain[m])
    BY <2>1 DEF ChainOK, IsList
  <2>3. /\ chain[n][i] = [block |-> chain[n][i].block, receipts |-> chain[n][i].receipts]
        /\ chain[m][i] = [block |-> chain[m][i].block, receipts |-> chain[m][i].receipts]
        /\ chain[n][i].block = chain[m][i].block
        /\ Fits(decided[i], chain[n][i].receipts) /\ Fits(decided[i], chain[m][i].receipts)
    BY <2>1, <2>2 DEF ChainOK
  <2>4. chain[n][i].receipts = chain[m][i].receipts
    BY <2>3, OneFits
  <2> QED
    BY <2>3, <2>4, Zenon
<1> QED
  BY <1>1, AgreeInvariant, PTL

-----------------------------------------------------------------------------
(* Nonces of accounts.                                                     *)

AcctOK(x) == x = [nonce |-> x.nonce, balance |-> x.balance] /\ x.nonce \in Nat

AcctsOK(st) == \A a \in DOMAIN st : AcctOK(st[a])

NonceOf(st, a) == AccountOf(st, a).nonce

LEMMA AccountTyped ==
    ASSUME NEW st, AcctsOK(st), NEW a
    PROVE  AcctOK(AccountOf(st, a)) /\ NonceOf(st, a) \in Nat
BY DEF AcctsOK, AcctOK, AccountOf, NonceOf

LEMMA PutNonce ==
    ASSUME NEW st, AcctsOK(st), NEW a, NEW x, AcctOK(x)
    PROVE  /\ AcctsOK(PutAccount(st, a, x))
           /\ \A b : NonceOf(PutAccount(st, a, x), b) = IF b = a THEN x.nonce ELSE NonceOf(st, b)
<1> DEFINE new == PutAccount(st, a, x)
<1>1. DOMAIN new = DOMAIN st \cup {a} /\ \A b \in DOMAIN new : new[b] = IF b = a THEN x ELSE st[b]
  BY DEF PutAccount
<1> HIDE DEF new
<1>2. AcctsOK(new)
  BY <1>1 DEF AcctsOK
<1>3. ASSUME NEW b PROVE NonceOf(new, b) = IF b = a THEN x.nonce ELSE NonceOf(st, b)
  <2>1. CASE b = a
    BY <1>1, <2>1 DEF NonceOf, AccountOf
  <2>2. CASE b # a
    <3>1. AccountOf(new, b) = AccountOf(st, b)
      BY <1>1, <2>2 DEF AccountOf
    <3> QED
      BY <2>2, <3>1 DEF NonceOf
  <2> QED
    BY <2>1, <2>2
<1> QED
  BY <1>2, <1>3 DEF new

LEMMA NewBalance ==
    ASSUME NEW x, AcctOK(x), NEW m, NEW y, y = [x EXCEPT !.balance = m]
    PROVE  AcctOK(y) /\ y.nonce = x.nonce
BY DEF AcctOK

\* A credit leaves all nonces alone.
SameNonces(st, new) == AcctsOK(new) /\ \A b : NonceOf(new, b) = NonceOf(st, b)

LEMMA PutBalance ==
    ASSUME NEW st, AcctsOK(st), NEW a, NEW m
    PROVE  SameNonces(st, PutAccount(st, a, [AccountOf(st, a) EXCEPT !.balance = m]))
<1> DEFINE x == AccountOf(st, a)
           y == [x EXCEPT !.balance = m]
<1>1. AcctOK(x) /\ x.nonce = NonceOf(st, a)
  BY AccountTyped DEF NonceOf
<1> HIDE DEF x
<1>2. AcctOK(y) /\ y.nonce = NonceOf(st, a)
  BY <1>1, NewBalance
<1> HIDE DEF y
<1>3. /\ AcctsOK(PutAccount(st, a, y))
      /\ \A b : NonceOf(PutAccount(st, a, y), b) = IF b = a THEN y.nonce ELSE NonceOf(st, b)
  BY <1>2, PutNonce
<1>4. SameNonces(st, PutAccount(st, a, y))
  BY <1>2, <1>3 DEF SameNonces
<1> QED
  BY <1>4 DEF y, x

LEMMA CreditNonce ==
    ASSUME NEW st, AcctsOK(st), NEW a, NEW m
    PROVE  SameNonces(st, Credit(st, a, m))
<1> DEFINE total == SaturatingAdd(AccountOf(st, a).balance, m)
<1>1. Credit(st, a, m) = PutAccount(st, a, [AccountOf(st, a) EXCEPT !.balance = total])
  BY DEF Credit
<1> HIDE DEF total
<1> QED
  BY <1>1, PutBalance

LEMMA AccountingNonce ==
    ASSUME NEW st, AcctsOK(st), NEW p, NEW fees
    PROVE  SameNonces(st, ApplyBlockAccounting(st, p, fees))
<1> DEFINE one == Credit(st, p, fees - TreasuryCut(fees))
           two == Credit(one, Treasury, TreasuryCut(fees))
<1>1. SameNonces(st, one)
  BY CreditNonce
<1> HIDE DEF one
<1>2. SameNonces(one, two)
  BY <1>1, CreditNonce DEF SameNonces
<1> HIDE DEF two
<1>3. SameNonces(st, two)
  BY <1>1, <1>2 DEF SameNonces
<1> QED
  BY <1>3 DEF two, one, ApplyBlockAccounting

\* A transaction uses one nonce of its sender.
OneNonce(st, new, a) ==
    AcctsOK(new) /\ \A b : NonceOf(new, b) = IF b = a THEN NonceOf(st, b) + 1 ELSE NonceOf(st, b)

LEMMA NativeNonce ==
    ASSUME NEW st, AcctsOK(st), NEW tx
    PROVE  OneNonce(st, Native(st, tx), tx.sender)
<1> DEFINE a == tx.sender
           x == [nonce |-> AccountOf(st, a).nonce + 1,
                 balance |-> AccountOf(st, a).balance - (tx.amount + tx.fee)]
<1>1. AcctOK(x) /\ x.nonce = NonceOf(st, a) + 1
  BY AccountTyped DEF AcctOK, NonceOf
<1>2. Debit(st, tx) = PutAccount(st, a, x)
  BY DEF Debit
<1> HIDE DEF x, a
<1>3. OneNonce(st, Debit(st, tx), a)
  BY <1>1, <1>2, PutNonce DEF OneNonce
<1> DEFINE d == Debit(st, tx)
           c == Credit(d, tx.recipient, tx.amount)
<1>4. Native(st, tx) = IF tx.evm # {} THEN d ELSE c
  BY DEF Native
<1>5. SameNonces(d, c)
  BY <1>3, CreditNonce DEF OneNonce
<1> HIDE DEF c
<1>6. OneNonce(st, c, a)
  BY <1>3, <1>5 DEF OneNonce, SameNonces
<1> QED
  BY <1>3, <1>4, <1>6 DEF a

-----------------------------------------------------------------------------
(* Counting the transactions of a sender.                                  *)

\* The places of a's transactions among the first i of the block at height pos.
Place(pos, txs, a, i) == {<<pos, k>> : k \in {l \in 1..i : txs[l].sender = a}}

LEMMA PlaceFinite ==
    ASSUME NEW pos, NEW txs, NEW a, NEW i \in Nat
    PROVE  IsFiniteSet(Place(pos, txs, a, i))
<1>1. IsFiniteSet({pos} \X (1..i))
  <2> DEFINE A == {pos}
             B == 1..i
  <2>1. IsFiniteSet(A) /\ IsFiniteSet(B)
    <3>1. IsFiniteSet(A)
      BY FS_Singleton
    <3>2. 1 \in Int /\ i \in Int
      OBVIOUS
    <3>3. IsFiniteSet(B)
      BY <3>2, FS_Interval
    <3> QED
      BY <3>1, <3>3
  <2> HIDE DEF A, B
  <2>2. IsFiniteSet(A \X B)
    BY <2>1, FS_Product
  <2> QED
    BY <2>2 DEF A, B
<1>2. Place(pos, txs, a, i) \subseteq {pos} \X (1..i)
  BY DEF Place
<1> DEFINE A == {pos} \X (1..i)
           B == Place(pos, txs, a, i)
<1> HIDE DEF A, B
<1>3. IsFiniteSet(A) /\ B \subseteq A
  BY <1>1, <1>2 DEF A, B
<1>4. IsFiniteSet(B)
  BY <1>3, FS_Subset
<1> QED
  BY <1>4 DEF B

OneMore(S, pos, txs, a, k) ==
    /\ txs[k].sender # a => Place(pos, txs, a, k) = Place(pos, txs, a, k - 1)
    /\ txs[k].sender = a =>
          Cardinality(S \cup Place(pos, txs, a, k))
              = Cardinality(S \cup Place(pos, txs, a, k - 1)) + 1
    /\ Cardinality(S \cup Place(pos, txs, a, k - 1)) \in Nat

LEMMA PlaceStep ==
    ASSUME NEW pos, NEW txs, NEW a, NEW k \in Nat \ {0}, NEW S, IsFiniteSet(S),
           \A l : <<pos, l>> \notin S
    PROVE  OneMore(S, pos, txs, a, k)
<1> DEFINE U == S \cup Place(pos, txs, a, k - 1)
<1>2. txs[k].sender # a => Place(pos, txs, a, k) = Place(pos, txs, a, k - 1)
  <2>1. \A l \in 1..k : l \in 1..(k - 1) \/ l = k
    OBVIOUS
  <2>2. \A l \in 1..(k - 1) : l \in 1..k
    OBVIOUS
  <2>3. txs[k].sender # a =>
           {l \in 1..k : txs[l].sender = a} = {l \in 1..(k - 1) : txs[l].sender = a}
    BY <2>1, <2>2
  <2> QED
    BY <2>3, Zenon DEF Place
<1>3. IsFiniteSet(U)
  <2> DEFINE j == k - 1
             V == Place(pos, txs, a, j)
  <2>1. j \in Nat
    OBVIOUS
  <2> HIDE DEF j
  <2>2. IsFiniteSet(V)
    BY <2>1, PlaceFinite
  <2>3. U = S \cup V
    BY DEF j
  <2> HIDE DEF V, U
  <2>4. IsFiniteSet(S \cup V)
    BY <2>2, FS_Union
  <2> QED
    BY <2>3, <2>4
<1>4. <<pos, k>> \notin U
  <2>1. <<pos, k>> \notin Place(pos, txs, a, k - 1)
    <3>1. SUFFICES ASSUME NEW l \in 1..(k - 1), <<pos, k>> = <<pos, l>> PROVE FALSE
      BY DEF Place
    <3> QED
      BY <3>1
  <2> QED
    BY <2>1
<1>5. txs[k].sender = a => S \cup Place(pos, txs, a, k) = U \cup {<<pos, k>>}
  <2>1. SUFFICES ASSUME txs[k].sender = a
                 PROVE  Place(pos, txs, a, k) = Place(pos, txs, a, k - 1) \cup {<<pos, k>>}
    BY Zenon
  <2>2. {l \in 1..k : txs[l].sender = a} = {l \in 1..(k - 1) : txs[l].sender = a} \cup {k}
    <3>1. \A l \in 1..k : l \in 1..(k - 1) \/ l = k
      OBVIOUS
    <3>2. k \in 1..k /\ \A l \in 1..(k - 1) : l \in 1..k
      OBVIOUS
    <3> QED
      BY <2>1, <3>1, <3>2
  <2> DEFINE A == {l \in 1..k : txs[l].sender = a}
             B == {l \in 1..(k - 1) : txs[l].sender = a}
  <2>3. Place(pos, txs, a, k) = {<<pos, l>> : l \in A} /\ Place(pos, txs, a, k - 1) = {<<pos, l>> : l \in B}
    BY DEF Place
  <2> HIDE DEF A, B
  <2>4. A = B \cup {k}
    BY <2>2 DEF A, B
  <2>5. {<<pos, l>> : l \in A} = {<<pos, l>> : l \in B} \cup {<<pos, k>>}
    BY <2>4
  <2> QED
    BY <2>3, <2>5
<1> HIDE DEF U
<1>6. Cardinality(U) \in Nat /\ Cardinality(U \cup {<<pos, k>>}) = Cardinality(U) + 1
  BY <1>3, <1>4, FS_AddElement, FS_CardinalityType
<1>7. txs[k].sender = a =>
          Cardinality(S \cup Place(pos, txs, a, k)) = Cardinality(U) + 1
  BY <1>5, <1>6
<1> QED
  BY <1>2, <1>6, <1>7 DEF U, OneMore

\* Up to transaction i, the nonces of a's transactions, and of its account,
\* count the places before: those of S and those in the block.
Counted(r, i, g, S, pos, txs, a) ==
    r.ok => /\ AcctsOK(r.state)
            /\ NonceOf(r.state, a) = g + Cardinality(S \cup Place(pos, txs, a, i))
            /\ \A k \in 1..i : txs[k].sender = a =>
                  txs[k].nonce = g + Cardinality(S \cup Place(pos, txs, a, k - 1))

LEMMA RunCounts ==
    ASSUME NEW acc, NEW db, NEW h, NEW txs, NEW N \in Nat, NEW f,
           RunUpTo(f, acc, db, h, txs, N),
           NEW pos, NEW a, NEW g \in Nat, NEW S, IsFiniteSet(S), \A l : <<pos, l>> \notin S,
           AcctsOK(acc), NonceOf(acc, a) = g + Cardinality(S)
    PROVE  Counted(f[N], N, g, S, pos, txs, a)
<1> DEFINE P == {i \in Nat : Counted(f[i], i, g, S, pos, txs, a)}
<1>1. f[0] = StartRun(acc, db) /\ \A i \in 1..N : f[i] = ApplyTransaction(f[i - 1], h, txs[i])
  BY DEF RunUpTo
<1>2. 0 \in P
  <2>1. S \cup Place(pos, txs, a, 0) = S
    BY DEF Place
  <2>2. f[0].state = acc
    BY <1>1, StartIsRun
  <2> QED
    BY <2>1, <2>2 DEF Counted
<1>3. ASSUME NEW k \in 1..N, k - 1 \in P PROVE k \in P
  <2> DEFINE r == f[k - 1]
             q == f[k]
             tx == txs[k]
  <2>1. IsRun(r) /\ q = ApplyTransaction(r, h, tx)
    <3> DEFINE i == k - 1
    <3>1. i \in 0..N /\ q = ApplyTransaction(r, h, tx) /\ r = f[i]
      BY <1>1
    <3> HIDE DEF i, r, q, tx
    <3>2. IsRun(f[i])
      BY <3>1, ReceiptEach
    <3> QED
      BY <3>1, <3>2
  <2>2. Counted(r, k - 1, g, S, pos, txs, a)
    BY <1>3
  <2> HIDE DEF r, q
  <2>3. Extended(r, q, h, tx)
    <3> HIDE DEF tx
    <3> QED
      BY <2>1, ApplyIsRun
  <2>4. ASSUME q.ok
        PROVE  /\ AcctsOK(q.state)
               /\ NonceOf(q.state, a) = g + Cardinality(S \cup Place(pos, txs, a, k))
               /\ \A l \in 1..k : txs[l].sender = a =>
                     txs[l].nonce = g + Cardinality(S \cup Place(pos, txs, a, l - 1))
    <3>1. r.ok /\ ValidateTransaction(r.state, h, tx) /\ q.state = Native(r.state, tx)
      BY <2>3, <2>4 DEF Extended
    <3>2. /\ AcctsOK(r.state)
          /\ NonceOf(r.state, a) = g + Cardinality(S \cup Place(pos, txs, a, k - 1))
          /\ \A l \in 1..(k - 1) : txs[l].sender = a =>
                txs[l].nonce = g + Cardinality(S \cup Place(pos, txs, a, l - 1))
      BY <2>2, <3>1 DEF Counted
    <3>3. NonceOf(r.state, tx.sender) = tx.nonce
      BY <3>1 DEF ValidateTransaction, NonceOf
    <3>4. OneNonce(r.state, q.state, tx.sender)
      BY <3>1, <3>2, NativeNonce
    <3>5. /\ tx.sender # a => Place(pos, txs, a, k) = Place(pos, txs, a, k - 1)
          /\ tx.sender = a =>
                Cardinality(S \cup Place(pos, txs, a, k))
                    = Cardinality(S \cup Place(pos, txs, a, k - 1)) + 1
          /\ Cardinality(S \cup Place(pos, txs, a, k - 1)) \in Nat
      <4>1. k \in Nat \ {0}
        OBVIOUS
      <4>2. OneMore(S, pos, txs, a, k)
        BY <4>1, PlaceStep
      <4> QED
        BY <4>2 DEF OneMore
    <3>6. AcctsOK(q.state)
      BY <3>4 DEF OneNonce
    <3>7. NonceOf(q.state, a) = g + Cardinality(S \cup Place(pos, txs, a, k))
      <4>1. NonceOf(q.state, a) = IF a = tx.sender THEN NonceOf(r.state, a) + 1
                                  ELSE NonceOf(r.state, a)
        BY <3>4 DEF OneNonce
      <4>2. CASE a = tx.sender
        BY <3>2, <3>5, <4>1, <4>2
      <4>3. CASE a # tx.sender
        BY <3>2, <3>5, <4>1, <4>3
      <4> QED
        BY <4>2, <4>3
    <3>8. ASSUME NEW l \in 1..k, txs[l].sender = a
          PROVE  txs[l].nonce = g + Cardinality(S \cup Place(pos, txs, a, l - 1))
      <4>1. CASE l = k
        BY <3>2, <3>3, <3>8, <4>1
      <4>2. CASE l # k
        <5>1. l \in 1..(k - 1)
          BY <4>2
        <5> QED
          BY <3>2, <3>8, <5>1
      <4> QED
        BY <4>1, <4>2
    <3> QED
      BY <3>6, <3>7, <3>8
  <2>5. Counted(q, k, g, S, pos, txs, a)
    BY <2>4 DEF Counted
  <2> QED
    BY <2>5 DEF q
<1> HIDE DEF P
<1>4. N \in P
  BY <1>2, <1>3, CountUp
<1> QED
  BY <1>4 DEF P

-----------------------------------------------------------------------------
(* The places of a sender's transactions on a chain.                       *)

Sits(c, a, p) ==
    \E i \in DOMAIN c : \E k \in DOMAIN c[i].block.transactions :
        p = <<i, k>> /\ c[i].block.transactions[k].sender = a

LEMMA TxsSit ==
    ASSUME NEW c, NEW a, NEW p
    PROVE  p \in TxsOf(c, a) <=> Sits(c, a, p)
<1>1. \A i, l : TxAt(c, <<i, l>>) = c[i].block.transactions[l]
  BY DEF TxAt
<1> DEFINE In(i) == {<<i, k>> : k \in {l \in DOMAIN c[i].block.transactions :
                                           TxAt(c, <<i, l>>).sender = a}}
<1>2. ASSUME NEW i
      PROVE  p \in In(i) <=> \E k \in DOMAIN c[i].block.transactions :
                                p = <<i, k>> /\ c[i].block.transactions[k].sender = a
  BY <1>1
<1>3. TxsOf(c, a) = UNION {In(i) : i \in DOMAIN c}
  BY DEF TxsOf
<1> HIDE DEF In
<1>4. p \in TxsOf(c, a) <=> \E i \in DOMAIN c : p \in In(i)
  BY <1>3
<1> QED
  BY <1>2, <1>4 DEF Sits

TxList(b) == b.block.transactions

\* A block at the end of a chain adds its places and leaves the others.
Added(c, b, e, a) ==
    /\ TxsOf(e, a) = TxsOf(c, a) \cup Place(Len(c) + 1, TxList(b), a, Len(TxList(b)))
    /\ \A p \in TxsOf(c, a) : TxAt(e, p) = TxAt(c, p) /\ p[1] \in 1..Len(c)
    /\ \A l : <<Len(c) + 1, l>> \notin TxsOf(c, a)
    /\ \A l : TxAt(e, <<Len(c) + 1, l>>) = TxList(b)[l]

LEMMA TxsAppend ==
    ASSUME NEW c, IsList(c), NEW b, IsList(TxList(b)), NEW e, e = Append(c, b), NEW a
    PROVE  Added(c, b, e, a)
<1> DEFINE L == Len(c)
           txs == TxList(b)
           N == Len(txs)
<1>1. /\ L \in Nat /\ DOMAIN c = 1..L /\ Len(e) = L + 1 /\ DOMAIN e = 1..(L + 1)
  <2>1. L \in Nat /\ IsList(e) /\ Len(e) = L + 1
    BY LongerList
  <2> QED
    BY <2>1 DEF IsList
<1>2. (\A i \in 1..L : e[i] = c[i]) /\ e[L + 1] = b
  BY AppendElements
<1>3. N \in Nat /\ DOMAIN txs = 1..N
  BY DEF IsList
<1>4. \A p : p \in Place(L + 1, txs, a, N) <=> \E k \in 1..N : p = <<L + 1, k>> /\ txs[k].sender = a
  BY DEF Place
<1>5. txs = b.block.transactions
  BY DEF TxList
<1> HIDE DEF L, N, txs
<1>6. ASSUME NEW p PROVE Sits(e, a, p) <=> Sits(c, a, p) \/ p \in Place(L + 1, txs, a, N)
  <2>1. ASSUME Sits(e, a, p), ~Sits(c, a, p) PROVE p \in Place(L + 1, txs, a, N)
    <3>1. PICK i \in DOMAIN e : \E k \in DOMAIN e[i].block.transactions :
                                   p = <<i, k>> /\ e[i].block.transactions[k].sender = a
      BY <2>1 DEF Sits
    <3>2. i = L + 1
      <4>1. SUFFICES ASSUME i # L + 1 PROVE FALSE
        OBVIOUS
      <4>2. i \in 1..L
        BY <1>1, <4>1
      <4>3. e[i] = c[i] /\ i \in DOMAIN c
        BY <1>1, <1>2, <4>2
      <4>4. Sits(c, a, p)
        BY <3>1, <4>3 DEF Sits
      <4> QED
        BY <2>1, <4>4
    <3>3. \E k \in 1..N : p = <<L + 1, k>> /\ txs[k].sender = a
      BY <1>2, <1>3, <1>5, <3>1, <3>2
    <3> QED
      BY <1>4, <3>3
  <2>2. ASSUME Sits(c, a, p) PROVE Sits(e, a, p)
    <3>1. PICK i \in DOMAIN c : \E k \in DOMAIN c[i].block.transactions :
                                   p = <<i, k>> /\ c[i].block.transactions[k].sender = a
      BY <2>2 DEF Sits
    <3>2. i \in DOMAIN e /\ e[i] = c[i]
      BY <1>1, <1>2
    <3> QED
      BY <3>1, <3>2 DEF Sits
  <2>3. ASSUME p \in Place(L + 1, txs, a, N) PROVE Sits(e, a, p)
    <3>1. PICK k \in 1..N : p = <<L + 1, k>> /\ txs[k].sender = a
      BY <1>4, <2>3
    <3>2. L + 1 \in DOMAIN e /\ e[L + 1].block.transactions = txs /\ k \in DOMAIN txs
      BY <1>1, <1>2, <1>3, <1>5
    <3> QED
      BY <3>1, <3>2 DEF Sits
  <2> QED
    BY <2>1, <2>2, <2>3
<1>7. TxsOf(e, a) = TxsOf(c, a) \cup Place(L + 1, txs, a, N)
  <2>1. ASSUME NEW p PROVE p \in TxsOf(e, a) <=> p \in TxsOf(c, a) \cup Place(L + 1, txs, a, N)
    BY <1>6, TxsSit
  <2> QED
    BY <2>1
<1>8. ASSUME NEW p \in TxsOf(c, a) PROVE TxAt(e, p) = TxAt(c, p) /\ p[1] \in 1..Len(c)
  <2>1. Sits(c, a, p)
    BY TxsSit
  <2>2. PICK i \in DOMAIN c : \E k \in DOMAIN c[i].block.transactions : p = <<i, k>>
    BY <2>1 DEF Sits
  <2>3. p[1] = i /\ i \in 1..L
    BY <1>1, <2>2
  <2>4. e[p[1]] = c[p[1]]
    BY <1>2, <2>3
  <2> QED
    BY <2>3, <2>4 DEF TxAt, L
<1>9. ASSUME NEW l PROVE <<L + 1, l>> \notin TxsOf(c, a)
  <2>1. SUFFICES ASSUME <<L + 1, l>> \in TxsOf(c, a) PROVE FALSE
    OBVIOUS
  <2> DEFINE p == <<L + 1, l>>
  <2>2. p[1] = L + 1
    OBVIOUS
  <2> HIDE DEF p
  <2>3. p[1] \in 1..L
    BY <1>8, <2>1 DEF p, L
  <2> QED
    BY <1>1, <2>2, <2>3
<1>10. ASSUME NEW l PROVE TxAt(e, <<L + 1, l>>) = txs[l]
  BY <1>2, <1>5 DEF TxAt
<1> QED
  BY <1>7, <1>8, <1>9, <1>10 DEF L, N, txs, Added

\* The places of S before p.
Before(S, p) == {q \in S : Earlier(q, p)}

Ordered(c, a) ==
    \A p \in TxsOf(c, a) :
        TxAt(c, p).nonce = NonceOf(Genesis, a) + Cardinality(Before(TxsOf(c, a), p))

OrderedAll(c) == \A a : IsFiniteSet(TxsOf(c, a)) /\ Ordered(c, a)

\* The nonce of an account is that of genesis and one for each transaction.
NoncesAre(st, c) ==
    /\ AcctsOK(st)
    /\ \A a : NonceOf(st, a) = NonceOf(Genesis, a) + Cardinality(TxsOf(c, a))

LEMMA GenesisTyped == AcctsOK(Genesis) /\ \A a : NonceOf(Genesis, a) \in Nat
<1>1. AcctsOK(Genesis)
  BY LedgerAssumption DEF AcctsOK, AcctOK
<1> QED
  BY <1>1, AccountTyped

\* A block whose transactions count on from those of c keeps them in order.
LEMMA OrderedAppend ==
    ASSUME NEW c, IsList(c), NEW b, IsList(TxList(b)), NEW e, e = Append(c, b), NEW a,
           IsFiniteSet(TxsOf(c, a)), Ordered(c, a),
           \A k \in 1..Len(TxList(b)) : TxList(b)[k].sender = a =>
               TxList(b)[k].nonce = NonceOf(Genesis, a)
                   + Cardinality(TxsOf(c, a) \cup Place(Len(c) + 1, TxList(b), a, k - 1))
    PROVE  IsFiniteSet(TxsOf(e, a)) /\ Ordered(e, a)
<1> DEFINE L == Len(c)
           txs == TxList(b)
           N == Len(txs)
           S == TxsOf(c, a)
           V == Place(L + 1, txs, a, N)
           g == NonceOf(Genesis, a)
<1>1. /\ TxsOf(e, a) = S \cup V
      /\ \A p \in S : TxAt(e, p) = TxAt(c, p) /\ p[1] \in 1..L
      /\ \A l : TxAt(e, <<L + 1, l>>) = txs[l]
  <2>1. Added(c, b, e, a)
    BY TxsAppend
  <2> QED
    BY <2>1 DEF Added
<1>2. L \in Nat /\ N \in Nat
  BY ListLength
<1>3. \A p : p \in V <=> \E k \in 1..N : p = <<L + 1, k>> /\ txs[k].sender = a
  BY DEF Place
<1>4. \A k : \A p : p \in Place(L + 1, txs, a, k - 1) <=>
                    \E l \in 1..(k - 1) : p = <<L + 1, l>> /\ txs[l].sender = a
  BY DEF Place
<1>5. \A k \in 1..N : txs[k].sender = a =>
         txs[k].nonce = g + Cardinality(S \cup Place(L + 1, txs, a, k - 1))
  OBVIOUS
<1>6. \A p \in S : TxAt(c, p).nonce = g + Cardinality(Before(S, p))
  BY DEF Ordered
<1>7. IsFiniteSet(S) /\ IsFiniteSet(V)
  <2> HIDE DEF N
  <2> QED
    BY <1>2, PlaceFinite
<1> HIDE DEF L, txs, N, S, V, g
<1>8. IsFiniteSet(S \cup V)
  BY <1>7, FS_Union
<1>9. ASSUME NEW p \in S PROVE TxAt(e, p).nonce = g + Cardinality(Before(S \cup V, p))
  <2>1. ASSUME NEW q \in V PROVE ~Earlier(q, p)
    <3>1. PICK k \in 1..N : q = <<L + 1, k>>
      BY <1>3
    <3>2. q[1] = L + 1 /\ p[1] \in 1..L
      BY <1>1, <3>1
    <3> QED
      BY <1>2, <3>2 DEF Earlier
  <2>2. Before(S \cup V, p) = Before(S, p)
    BY <2>1 DEF Before
  <2> QED
    BY <1>1, <1>6, <2>2
<1>10. ASSUME NEW p \in V PROVE TxAt(e, p).nonce = g + Cardinality(Before(S \cup V, p))
  <2>1. PICK k \in 1..N : p = <<L + 1, k>> /\ txs[k].sender = a
    BY <1>3
  <2>2. p[1] = L + 1 /\ p[2] = k
    BY <2>1
  <2>3. \A q \in S : Earlier(q, p)
    <3>1. \A q \in S : q[1] \in 1..L
      BY <1>1
    <3> QED
      BY <1>2, <2>2, <3>1 DEF Earlier
  <2>4. \A q \in V : Earlier(q, p) <=> q \in Place(L + 1, txs, a, k - 1)
    <3>1. SUFFICES ASSUME NEW q \in V
                   PROVE  Earlier(q, p) <=> q \in Place(L + 1, txs, a, k - 1)
      OBVIOUS
    <3>2. PICK l \in 1..N : q = <<L + 1, l>> /\ txs[l].sender = a
      BY <1>3
    <3>3. q[1] = L + 1 /\ q[2] = l
      BY <3>2
    <3>4. Earlier(q, p) <=> l < k
      BY <1>2, <2>2, <3>3 DEF Earlier
    <3>5. l < k => q \in Place(L + 1, txs, a, k - 1)
      <4>1. SUFFICES ASSUME l < k PROVE q \in Place(L + 1, txs, a, k - 1)
        OBVIOUS
      <4>2. l \in 1..(k - 1)
        BY <1>2, <4>1
      <4> QED
        BY <1>4, <3>2, <4>2
    <3>6. q \in Place(L + 1, txs, a, k - 1) => l < k
      <4>1. SUFFICES ASSUME q \in Place(L + 1, txs, a, k - 1) PROVE l < k
        OBVIOUS
      <4>2. PICK m \in 1..(k - 1) : q = <<L + 1, m>>
        BY <1>4, <4>1
      <4>3. q[2] = m
        BY <4>2
      <4> QED
        BY <3>3, <4>3
    <3> QED
      BY <3>4, <3>5, <3>6
  <2>5. Place(L + 1, txs, a, k - 1) \subseteq V
    <3>1. \A l \in 1..(k - 1) : l \in 1..N
      BY <1>2
    <3>2. ASSUME NEW q \in Place(L + 1, txs, a, k - 1) PROVE q \in V
      <4>1. PICK l \in 1..(k - 1) : q = <<L + 1, l>> /\ txs[l].sender = a
        BY <1>4
      <4>2. l \in 1..N
        BY <3>1
      <4> QED
        BY <1>3, <4>1, <4>2
    <3> QED
      BY <3>2
  <2>6. Before(S \cup V, p) = S \cup Place(L + 1, txs, a, k - 1)
    <3> DEFINE W == Place(L + 1, txs, a, k - 1)
    <3>1. (\A q \in V : Earlier(q, p) <=> q \in W) /\ W \subseteq V
      BY <2>4, <2>5
    <3> HIDE DEF W
    <3>2. Before(S \cup V, p) = S \cup W
      BY <2>3, <3>1 DEF Before
    <3> QED
      BY <3>2 DEF W
  <2>7. TxAt(e, p) = txs[k]
    BY <1>1, <2>1
  <2> QED
    BY <1>5, <2>1, <2>6, <2>7
<1>11. \A p \in TxsOf(e, a) : TxAt(e, p).nonce = g + Cardinality(Before(TxsOf(e, a), p))
  BY <1>1, <1>9, <1>10
<1> QED
  BY <1>1, <1>8, <1>11 DEF Ordered, g

\* A block prepared on the accounts a chain amounts to keeps senders in order,
\* and leaves the accounts the longer chain amounts to.
LEMMA BlockNonces ==
    ASSUME NEW acc, NEW db, NEW block, IsList(block.transactions), NEW p, NEW f,
           Prepared(acc, db, block, p, f), NEW c, IsList(c), OrderedAll(c), NoncesAre(acc, c),
           NEW b, b.block = block, NEW e, e = Append(c, b)
    PROVE  OrderedAll(e) /\ NoncesAre(p.state, e)
<1> DEFINE txs == block.transactions
           N == Len(txs)
           h == block.header.height
           pos == Len(c) + 1
<1>1. /\ RunUpTo(f, acc, db, h, txs, N) /\ f[N].ok
      /\ p.state = ApplyBlockAccounting(f[N].state, block.header.proposer, f[N].fees)
  BY DEF Prepared
<1>2. N \in Nat
  BY ListLength
<1>3. TxList(b) = txs /\ IsList(TxList(b))
  BY DEF TxList
<1> HIDE DEF txs, N, h, pos
<1>4. ASSUME NEW a PROVE Counted(f[N], N, NonceOf(Genesis, a), TxsOf(c, a), pos, txs, a)
  <2> DEFINE S == TxsOf(c, a)
             g == NonceOf(Genesis, a)
  <2>1. \A l : <<pos, l>> \notin S
    <3>1. Added(c, b, e, a)
      BY <1>3, TxsAppend
    <3> QED
      BY <3>1 DEF Added, pos
  <2>2. IsFiniteSet(S) /\ g \in Nat /\ AcctsOK(acc) /\ NonceOf(acc, a) = g + Cardinality(S)
    BY GenesisTyped DEF OrderedAll, NoncesAre
  <2> HIDE DEF S, g
  <2>3. Counted(f[N], N, g, S, pos, txs, a)
    BY <1>1, <1>2, <2>1, <2>2, RunCounts
  <2> QED
    BY <2>3 DEF S, g
<1>5. ASSUME NEW a
      PROVE  /\ AcctsOK(f[N].state)
             /\ NonceOf(f[N].state, a) = NonceOf(Genesis, a)
                    + Cardinality(TxsOf(c, a) \cup Place(pos, txs, a, N))
             /\ \A k \in 1..N : txs[k].sender = a =>
                   txs[k].nonce = NonceOf(Genesis, a)
                       + Cardinality(TxsOf(c, a) \cup Place(pos, txs, a, k - 1))
  BY <1>1, <1>4 DEF Counted
<1>6. ASSUME NEW a PROVE IsFiniteSet(TxsOf(e, a)) /\ Ordered(e, a)
  <2>1. IsFiniteSet(TxsOf(c, a)) /\ Ordered(c, a)
    BY DEF OrderedAll
  <2>2. \A k \in 1..Len(TxList(b)) : TxList(b)[k].sender = a =>
            TxList(b)[k].nonce = NonceOf(Genesis, a)
                + Cardinality(TxsOf(c, a) \cup Place(Len(c) + 1, TxList(b), a, k - 1))
    BY <1>3, <1>5 DEF N, pos
  <2> QED
    BY <1>3, <2>1, <2>2, OrderedAppend
<1>7. ASSUME NEW a PROVE TxsOf(e, a) = TxsOf(c, a) \cup Place(pos, txs, a, N)
  <2>1. Added(c, b, e, a)
    BY <1>3, TxsAppend
  <2> QED
    BY <1>3, <2>1 DEF Added, pos, N
<1>8. AcctsOK(f[N].state)
  BY <1>5
<1>9. SameNonces(f[N].state, p.state)
  <2> DEFINE st == f[N].state
             fees == f[N].fees
             who == block.header.proposer
  <2> HIDE DEF st, fees, who
  <2>1. AcctsOK(st) /\ p.state = ApplyBlockAccounting(st, who, fees)
    BY <1>1, <1>8 DEF st, fees, who
  <2>2. SameNonces(st, p.state)
    BY <2>1, AccountingNonce
  <2> QED
    BY <2>2 DEF st
<1>10. NoncesAre(p.state, e)
  <2>1. AcctsOK(p.state)
    BY <1>9 DEF SameNonces
  <2>2. ASSUME NEW a PROVE NonceOf(p.state, a) = NonceOf(Genesis, a) + Cardinality(TxsOf(e, a))
    <3>1. NonceOf(p.state, a) = NonceOf(f[N].state, a)
      BY <1>9 DEF SameNonces
    <3> QED
      BY <1>5, <1>7, <3>1
  <2> QED
    BY <2>1, <2>2 DEF NoncesAre
<1> QED
  BY <1>6, <1>10 DEF OrderedAll

\* Accounts of a longer chain, e, written over those of c.
LEMMA OverNonces ==
    ASSUME NEW st, NEW acc, NEW c, NEW e, NoncesAre(st, e), NoncesAre(acc, c), OrderedAll(e),
           \A a : TxsOf(c, a) \subseteq TxsOf(e, a)
    PROVE  NoncesAre(Over(st, acc), e)
<1> DEFINE o == Over(st, acc)
<1>1. /\ DOMAIN o = DOMAIN st \cup DOMAIN acc
      /\ \A a \in DOMAIN o : o[a] = IF a \in DOMAIN st THEN st[a] ELSE acc[a]
  BY DEF Over
<1> HIDE DEF o
<1>2. AcctsOK(o)
  BY <1>1 DEF NoncesAre, AcctsOK
<1>3. ASSUME NEW a PROVE NonceOf(o, a) = NonceOf(Genesis, a) + Cardinality(TxsOf(e, a))
  <2>1. NonceOf(st, a) = NonceOf(Genesis, a) + Cardinality(TxsOf(e, a))
    BY DEF NoncesAre
  <2>2. CASE a \in DOMAIN st
    <3>1. NonceOf(o, a) = NonceOf(st, a)
      BY <1>1, <2>2 DEF NonceOf, AccountOf
    <3> QED
      BY <2>1, <3>1
  <2>3. CASE a \notin DOMAIN st
    <3>1. NonceOf(st, a) = 0
      BY <2>3 DEF NonceOf, AccountOf
    <3>2. NonceOf(o, a) = NonceOf(acc, a)
      <4>1. AccountOf(o, a) = AccountOf(acc, a)
        BY <1>1, <2>3 DEF AccountOf
      <4> QED
        BY <4>1 DEF NonceOf
    <3>3. NonceOf(acc, a) = NonceOf(Genesis, a) + Cardinality(TxsOf(c, a))
      BY DEF NoncesAre
    <3> DEFINE S == TxsOf(c, a)
               T == TxsOf(e, a)
    <3>4. IsFiniteSet(T) /\ S \in SUBSET T
      BY DEF OrderedAll
    <3> HIDE DEF S, T
    <3>5. IsFiniteSet(S) /\ Cardinality(S) <= Cardinality(T)
      BY <3>4, FS_Subset
    <3>6. Cardinality(S) \in Nat /\ Cardinality(T) \in Nat
      BY <3>4, <3>5, FS_CardinalityType
    <3>7. NonceOf(Genesis, a) \in Nat
      BY GenesisTyped
    <3> QED
      BY <2>1, <3>1, <3>2, <3>3, <3>5, <3>6, <3>7 DEF S, T
  <2> QED
    BY <2>2, <2>3
<1>4. NoncesAre(o, e)
  BY <1>2, <1>3 DEF NoncesAre
<1> QED
  BY <1>4 DEF o

LEMMA SameNoncesAre ==
    ASSUME NEW st, NEW new, NEW c, NoncesAre(st, c), SameNonces(st, new)
    PROVE  NoncesAre(new, c)
BY DEF NoncesAre, SameNonces

-----------------------------------------------------------------------------
(* Once on the chain.                                                      *)

\* The chain with the block of a job.
With(c, j) == Append(c, [block |-> j.block, receipts |-> j.receipts])

\* The blocks in the state a job is about to store, and those in the store.
Executed(c, j) == IF j.todo = <<"persist">> THEN c ELSE With(c, j)

Stored(c, j) == IF j.todo = <<"commit">> THEN With(c, j) ELSE c

JobNonces(j, c, acc) ==
    /\ OrderedAll(Executed(c, j))
    /\ NoncesAre(j.state, Executed(c, j))
    /\ NoncesAre(acc, Stored(c, j))

NodeNonces(c, js, acc) ==
    /\ OrderedAll(c)
    /\ js = {} => NoncesAre(acc, c)
    /\ \A j \in js : JobNonces(j, c, acc)

\* On a node that has lost no write, the chain is in order and the nonces of
\* the accounts count the transactions, at every stage of a commit.
NonceInv ==
    /\ AgreeInv
    /\ accounts = [n \in Nodes |-> accounts[n]] /\ clean = [n \in Nodes |-> clean[n]]
    /\ \A n \in Nodes : clean[n] => NodeNonces(chain[n], job[n], accounts[n])

LEMMA NonceInit == Init => NonceInv
<1> SUFFICES ASSUME Init PROVE NonceInv
  OBVIOUS
<1>1. AgreeInv
  BY AgreeInit
<1>2. /\ accounts = [n \in Nodes |-> Genesis] /\ clean = [n \in Nodes |-> TRUE]
      /\ \A n \in Nodes : chain[n] = << >> /\ job[n] = {}
  BY DEF Init
<1>3. ASSUME NEW a PROVE TxsOf(<< >>, a) = {}
  <2>1. ASSUME NEW p PROVE p \notin TxsOf(<< >>, a)
    <3>1. ~Sits(<< >>, a, p)
      BY DEF Sits
    <3> QED
      BY <3>1, TxsSit
  <2> QED
    BY <2>1
<1>4. IsFiniteSet({}) /\ Cardinality({}) = 0
  BY FS_EmptySet
<1>5. OrderedAll(<< >>)
  BY <1>3, <1>4 DEF OrderedAll, Ordered
<1>6. NoncesAre(Genesis, << >>)
  <2>1. ASSUME NEW a
        PROVE  NonceOf(Genesis, a) = NonceOf(Genesis, a) + Cardinality(TxsOf(<< >>, a))
    <3>1. NonceOf(Genesis, a) \in Nat
      BY GenesisTyped
    <3>2. Cardinality(TxsOf(<< >>, a)) = 0
      BY <1>3, <1>4
    <3> QED
      BY <3>1, <3>2
  <2> QED
    BY <2>1, GenesisTyped DEF NoncesAre
<1>7. NodeNonces(<< >>, {}, Genesis)
  BY <1>5, <1>6 DEF NodeNonces
<1> QED
  BY <1>1, <1>2, <1>7 DEF NonceInv

\* Only one node's chain, job and accounts change.
LEMMA NonceAt ==
    ASSUME NonceInv, AgreeInv', NEW n \in Nodes, NEW c, NEW js, NEW acc, NEW k,
           chain' = [chain EXCEPT ![n] = c], job' = [job EXCEPT ![n] = js],
           accounts' = [accounts EXCEPT ![n] = acc], clean' = [clean EXCEPT ![n] = k],
           k => NodeNonces(c, js, acc)
    PROVE  NonceInv'
<1>1. /\ chain = [m \in Nodes |-> chain[m]] /\ job = [m \in Nodes |-> job[m]]
      /\ accounts = [m \in Nodes |-> accounts[m]] /\ clean = [m \in Nodes |-> clean[m]]
      /\ \A m \in Nodes : clean[m] => NodeNonces(chain[m], job[m], accounts[m])
  BY DEF NonceInv, AgreeInv
<1>2. /\ chain' = [m \in Nodes |-> IF m = n THEN c ELSE chain[m]]
      /\ job' = [m \in Nodes |-> IF m = n THEN js ELSE job[m]]
      /\ accounts' = [m \in Nodes |-> IF m = n THEN acc ELSE accounts[m]]
      /\ clean' = [m \in Nodes |-> IF m = n THEN k ELSE clean[m]]
  BY <1>1
<1>3. ASSUME NEW m \in Nodes, clean'[m] PROVE NodeNonces(chain'[m], job'[m], accounts'[m])
  <2>1. CASE m = n
    <3>1. clean'[m] = k /\ chain'[m] = c /\ job'[m] = js /\ accounts'[m] = acc
      BY <1>2, <2>1
    <3> QED
      BY <1>3, <3>1
  <2>2. CASE m # n
    <3>1. /\ clean'[m] = clean[m] /\ chain'[m] = chain[m] /\ job'[m] = job[m]
          /\ accounts'[m] = accounts[m]
      BY <1>2, <2>2
    <3> QED
      BY <1>1, <1>3, <3>1
  <2> QED
    BY <2>1, <2>2
<1>4. accounts' = [m \in Nodes |-> accounts'[m]] /\ clean' = [m \in Nodes |-> clean'[m]]
  BY <1>2
<1> QED
  BY <1>3, <1>4 DEF NonceInv

LEMMA NonceSame ==
    ASSUME NonceInv, AgreeInv', UNCHANGED <<chain, job, accounts, clean>>
    PROVE  NonceInv'
BY DEF NonceInv

LEMMA NonceExecute ==
    ASSUME NonceInv, NEW n \in Nodes, NEW block, NEW receipts,
           NEW todo \in {<<"persist", "commit">>, <<"commit", "persist">>},
           Execute(n, block, todo, receipts),
           Len(chain[n]) < Len(decided), block = decided[Len(chain[n]) + 1]
    PROVE  NonceInv'
<1> DEFINE prepared == PrepareBlock(accounts[n], evm[n], LatestHash(n), block)
           ok == prepared.ok /\ \A r \in receipts : r = prepared.receipts
           j == [block |-> block, receipts |-> prepared.receipts, state |-> prepared.state,
                 todo |-> todo, seen |-> accounts[n], credits |-> credits[n]]
           c == chain[n]
           acc == accounts[n]
<1>1. /\ UNCHANGED <<chain, accounts, clean>> /\ job[n] = {}
      /\ ok => job' = [job EXCEPT ![n] = {j}]
      /\ ~ok => job' = job
  BY DEF Execute
<1>2. AgreeInv /\ AgreeInv'
  <2>1. AgreeInv
    BY DEF NonceInv
  <2> QED
    BY <2>1, AgreeExecute
<1>3. CASE ~ok
  BY <1>1, <1>2, <1>3, NonceSame
<1>4. CASE ok
  <2>1. IsList(c) /\ Len(c) \in Nat /\ Len(decided) \in Nat
    BY <1>2, ListLength DEF AgreeInv, ChainOK, BlocksOK
  <2>2. IsList(block.transactions) /\ Len(block.transactions) \in Nat
    <3>1. Len(c) + 1 \in 1..Len(decided)
      BY <2>1
    <3>2. IsList(block.transactions)
      BY <1>2, <3>1 DEF AgreeInv, BlocksOK
    <3> QED
      BY <3>2, ListLength
  <2>3. ASSUME clean[n] PROVE NodeNonces(c, {j}, acc)
    <3> DEFINE db == evm[n]
               latest == LatestHash(n)
               b == [block |-> block, receipts |-> prepared.receipts]
               e == Append(c, b)
    <3>1. prepared = PrepareBlock(acc, db, latest, block) /\ prepared.ok
      BY <1>4
    <3>2. OrderedAll(c) /\ NoncesAre(acc, c)
      BY <1>1, <2>3 DEF NonceInv, NodeNonces
    <3> HIDE DEF prepared, acc, db, latest, c
    <3>3. \E f : Prepared(acc, db, block, prepared, f)
      BY <2>2, <3>1, PreparedRun
    <3>4. PICK f : Prepared(acc, db, block, prepared, f)
      BY <3>3
    <3>5. b.block = block
      OBVIOUS
    <3>6. /\ j.state = prepared.state /\ j.todo = todo
          /\ b = [block |-> j.block, receipts |-> j.receipts]
      OBVIOUS
    <3> HIDE DEF b, j
    <3>7. e = Append(c, b)
      OBVIOUS
    <3> HIDE DEF e
    <3>8. OrderedAll(e) /\ NoncesAre(prepared.state, e)
      BY <2>1, <2>2, <3>2, <3>4, <3>5, <3>7, BlockNonces
    <3>9. e = With(c, j)
      BY <3>6, <3>7 DEF With
    <3>10. j.todo # <<"persist">> /\ j.todo # <<"commit">>
      <4>1. todo \in Todos
        BY DEF Todos
      <4>2. Len(todo) = 2 /\ Len(<<"persist">>) = 1 /\ Len(<<"commit">>) = 1
        BY <4>1, TodoStages
      <4> QED
        BY <3>6, <4>2
    <3>11. Executed(c, j) = e /\ Stored(c, j) = c
      BY <3>9, <3>10 DEF Executed, Stored
    <3>12. JobNonces(j, c, acc)
      BY <3>2, <3>6, <3>8, <3>11 DEF JobNonces
    <3> QED
      BY <3>2, <3>12 DEF NodeNonces
  <2>4. /\ chain' = [chain EXCEPT ![n] = c] /\ accounts' = [accounts EXCEPT ![n] = acc]
        /\ clean' = [clean EXCEPT ![n] = clean[n]]
    BY <1>1 DEF NonceInv, AgreeInv
  <2>5. job' = [job EXCEPT ![n] = {j}]
    BY <1>1, <1>4
  <2> DEFINE k == clean[n]
             js == {j}
  <2>6. k => NodeNonces(c, js, acc)
    BY <2>3
  <2> HIDE DEF c, acc, k, js, j, prepared
  <2> QED
    BY <1>2, <2>4, <2>5, <2>6, NonceAt DEF k, js
<1> QED
  BY <1>3, <1>4

LEMMA NonceFinalize ==
    ASSUME NonceInv, NEW n \in Nodes, Finalize(n)
    PROVE  NonceInv'
<1> DEFINE block == decided[Len(chain[n]) + 1]
           todo == <<"persist", "commit">>
<1>1. Len(chain[n]) < Len(decided) /\ Execute(n, block, todo, {})
  BY DEF Finalize
<1>2. todo \in {<<"persist", "commit">>, <<"commit", "persist">>}
  OBVIOUS
<1>3. block = decided[Len(chain[n]) + 1]
  OBVIOUS
<1> HIDE DEF block, todo
<1> QED
  BY <1>1, <1>2, <1>3, NonceExecute

LEMMA NonceImport ==
    ASSUME NonceInv, NEW n \in Nodes, NEW m \in Nodes, Import(n, m)
    PROVE  NonceInv'
<1> DEFINE i == Len(chain[n]) + 1
           block == chain[m][i].block
           receipts == {chain[m][i].receipts}
           todo == <<"commit", "persist">>
<1>1. Len(chain[n]) < Len(chain[m]) /\ Execute(n, block, todo, receipts)
  BY DEF Import
<1>2. todo \in {<<"persist", "commit">>, <<"commit", "persist">>}
  OBVIOUS
<1>3. /\ Len(chain[n]) \in Nat /\ Len(chain[m]) \in Nat /\ Len(decided) \in Nat
      /\ Len(chain[m]) <= Len(decided)
      /\ \A k \in 1..Len(chain[m]) : chain[m][k].block = decided[k]
  BY ListLength DEF NonceInv, AgreeInv, ChainOK, BlocksOK
<1>4. Len(chain[n]) < Len(decided) /\ block = decided[Len(chain[n]) + 1]
  BY <1>1, <1>3
<1> HIDE DEF block, todo, receipts
<1> QED
  BY <1>1, <1>2, <1>4, NonceExecute

\* A write of a job leaves the accounts of all blocks executed.
LEMMA WriteNonces ==
    ASSUME AgreeInv, NEW n \in Nodes, NEW j, JobOK(j, chain[n], decided),
           NEW acc, JobNonces(j, chain[n], acc)
    PROVE  NoncesAre(Over(j.state, acc), Executed(chain[n], j))
<1> DEFINE c == chain[n]
           st == j.state
           s == Stored(c, j)
           e == Executed(c, j)
<1>1. OrderedAll(e) /\ NoncesAre(st, e) /\ NoncesAre(acc, s)
  BY DEF JobNonces
<1>2. ASSUME NEW a PROVE TxsOf(s, a) \subseteq TxsOf(e, a)
  <2>1. CASE s = e
    BY <2>1
  <2>2. CASE s # e
    <3> DEFINE b == [block |-> j.block, receipts |-> j.receipts]
    <3>1. s = c /\ e = Append(c, b) /\ j.todo # <<"persist">>
      BY <2>2 DEF Stored, Executed, With
    <3>2. IsList(c) /\ Len(c) \in Nat /\ Len(decided) \in Nat
      BY ListLength DEF AgreeInv, ChainOK, BlocksOK
    <3>3. Len(c) < Len(decided) /\ j.block = decided[Len(c) + 1]
      BY <3>1 DEF JobOK
    <3>4. IsList(j.block.transactions)
      <4>1. Len(c) + 1 \in 1..Len(decided)
        BY <3>2, <3>3
      <4> QED
        BY <3>3, <4>1 DEF AgreeInv, BlocksOK
    <3>5. b.block = j.block
      OBVIOUS
    <3> HIDE DEF b, c, e, s
    <3>6. IsList(TxList(b))
      BY <3>4, <3>5 DEF TxList
    <3>7. Added(c, b, e, a)
      BY <3>1, <3>2, <3>6, TxsAppend
    <3> QED
      BY <3>1, <3>7 DEF Added
  <2> QED
    BY <2>1, <2>2
<1> HIDE DEF c, st, s, e
<1>3. NoncesAre(Over(st, acc), e)
  BY <1>1, <1>2, OverNonces
<1> QED
  BY <1>3 DEF st, e, c

LEMMA RestFields ==
    ASSUME NEW j, NEW acc, NEW q, q = Rest(j, acc), NEW c
    PROVE  /\ q.state = j.state /\ q.todo = Tail(j.todo) /\ With(c, q) = With(c, j)
<1> DEFINE o == Over(j.state, acc)
<1>1. q = [block |-> j.block, receipts |-> j.receipts, state |-> j.state, todo |-> Tail(j.todo),
           seen |-> o, credits |-> j.credits]
  BY DEF Rest
<1> HIDE DEF o
<1>2. /\ q.block = j.block /\ q.receipts = j.receipts /\ q.state = j.state
      /\ q.todo = Tail(j.todo)
  BY <1>1
<1> QED
  BY <1>2 DEF With

LEMMA NoncePersist ==
    ASSUME NonceInv, NEW n \in Nodes, Persist(n)
    PROVE  NonceInv'
<1>1. PICK j \in job[n] : Head(j.todo) = "persist" /\ WriteAccounts(n, j)
  BY DEF Persist
<1>2. AgreeInv /\ AgreeInv'
  BY AgreePersist DEF NonceInv
<1>3. JobOK(j, chain[n], decided)
  BY <1>2 DEF AgreeInv, JobsOK
<1> DEFINE c == chain[n]
           o == Over(j.state, accounts[n])
           q == Rest(j, accounts[n])
           js == IF Len(j.todo) = 1 THEN {} ELSE {q}
           k == clean[n] /\ \A a \in DOMAIN j.state :
                               AccountOf(accounts[n], a) = AccountOf(j.seen, a)
<1>4. /\ chain' = [chain EXCEPT ![n] = c] /\ job' = [job EXCEPT ![n] = js]
      /\ accounts' = [accounts EXCEPT ![n] = o] /\ clean' = [clean EXCEPT ![n] = k]
  <2>1. job' = [job EXCEPT ![n] = js]
    BY <1>1, <1>3, Rested
  <2>2. chain' = chain
    BY DEF Persist
  <2>3. chain' = [chain EXCEPT ![n] = c]
    BY <1>2, <2>2 DEF AgreeInv
  <2>4. accounts' = [accounts EXCEPT ![n] = o] /\ clean' = [clean EXCEPT ![n] = k]
    BY <1>1 DEF WriteAccounts
  <2> QED
    BY <2>1, <2>3, <2>4
<1>5. ASSUME clean[n] PROVE NodeNonces(c, js, o)
  <2>1. OrderedAll(c) /\ JobNonces(j, c, accounts[n])
    BY <1>5 DEF NonceInv, NodeNonces
  <2>2. NoncesAre(o, Executed(c, j))
    BY <1>2, <1>3, <2>1, WriteNonces
  <2>3. j.todo \in Todos
    BY <1>3 DEF JobOK
  <2>4. CASE j.todo = <<"persist">>
    <3>1. js = {}
      BY <2>3, <2>4, TodoStages
    <3>2. Executed(c, j) = c
      BY <2>4 DEF Executed
    <3> HIDE DEF js, o, c
    <3> QED
      BY <2>1, <2>2, <3>1, <3>2 DEF NodeNonces
  <2>5. CASE j.todo = <<"persist", "commit">>
    <3>1. /\ js = {q} /\ Tail(j.todo) = <<"commit">> /\ <<"commit">> # <<"persist">>
          /\ j.todo # <<"persist">>
      BY <2>3, <2>5, TodoStages
    <3>2. q.state = j.state /\ q.todo = <<"commit">> /\ With(c, q) = With(c, j)
      <4> DEFINE acc == accounts[n]
      <4>1. q = Rest(j, acc)
        OBVIOUS
      <4> HIDE DEF acc, q, c
      <4>2. q.state = j.state /\ q.todo = Tail(j.todo) /\ With(c, q) = With(c, j)
        BY <4>1, RestFields, Zenon
      <4> QED
        BY <3>1, <4>2
    <3> HIDE DEF js, o, q, c
    <3>3. Executed(c, j) = With(c, j) /\ Executed(c, q) = With(c, j) /\ Stored(c, q) = With(c, j)
      BY <3>1, <3>2 DEF Executed, Stored
    <3>4. JobNonces(q, c, o)
      BY <2>1, <2>2, <3>2, <3>3 DEF JobNonces
    <3> QED
      BY <2>1, <3>1, <3>4 DEF NodeNonces
  <2> QED
    BY <1>1, <2>3, <2>4, <2>5, TodoStages
<1>6. k => NodeNonces(c, js, o)
  BY <1>5
<1> HIDE DEF c, js, o, k
<1> QED
  BY <1>2, <1>4, <1>6, NonceAt

LEMMA NonceCommit ==
    ASSUME NonceInv, NEW n \in Nodes, Commit(n)
    PROVE  NonceInv'
<1>1. PICK j \in job[n] : /\ Head(j.todo) = "commit" /\ WriteAccounts(n, j)
                          /\ chain' = [chain EXCEPT ![n] =
                                Append(@, [block |-> j.block, receipts |-> j.receipts])]
  BY DEF Commit
<1>2. AgreeInv /\ AgreeInv'
  BY AgreeCommit DEF NonceInv
<1>3. JobOK(j, chain[n], decided)
  BY <1>2 DEF AgreeInv, JobsOK
<1>4. j.todo \in Todos /\ (j.todo = <<"commit">> \/ j.todo = <<"commit", "persist">>)
  BY <1>1, <1>3, TodoStages DEF JobOK
<1> DEFINE c == With(chain[n], j)
           o == Over(j.state, accounts[n])
           q == Rest(j, accounts[n])
           js == IF Len(j.todo) = 1 THEN {} ELSE {q}
           k == clean[n] /\ \A a \in DOMAIN j.state :
                               AccountOf(accounts[n], a) = AccountOf(j.seen, a)
<1>5. /\ chain' = [chain EXCEPT ![n] = c] /\ job' = [job EXCEPT ![n] = js]
      /\ accounts' = [accounts EXCEPT ![n] = o] /\ clean' = [clean EXCEPT ![n] = k]
  <2>1. job' = [job EXCEPT ![n] = js]
    BY <1>1, <1>3, Rested
  <2>2. chain' = [chain EXCEPT ![n] = c]
    BY <1>1 DEF With
  <2>3. accounts' = [accounts EXCEPT ![n] = o] /\ clean' = [clean EXCEPT ![n] = k]
    BY <1>1 DEF WriteAccounts
  <2> QED
    BY <2>1, <2>2, <2>3
<1>6. ASSUME clean[n] PROVE NodeNonces(c, js, o)
  <2>1. JobNonces(j, chain[n], accounts[n])
    BY <1>6 DEF NonceInv, NodeNonces
  <2>2. NoncesAre(o, Executed(chain[n], j))
    BY <1>2, <1>3, <2>1, WriteNonces
  <2>3. Executed(chain[n], j) = c
    <3>1. j.todo # <<"persist">>
      BY <1>4, TodoStages
    <3> QED
      BY <3>1 DEF Executed
  <2>4. OrderedAll(c) /\ NoncesAre(j.state, c) /\ NoncesAre(o, c)
    BY <2>1, <2>2, <2>3 DEF JobNonces
  <2>5. CASE j.todo = <<"commit">>
    <3>1. js = {}
      BY <1>4, <2>5, TodoStages
    <3> HIDE DEF js, o, c
    <3> QED
      BY <2>4, <3>1 DEF NodeNonces
  <2>6. CASE j.todo = <<"commit", "persist">>
    <3>1. js = {q} /\ Tail(j.todo) = <<"persist">> /\ <<"commit">> # <<"persist">>
      BY <1>4, <2>6, TodoStages
    <3>2. q.state = j.state /\ q.todo = <<"persist">>
      <4> DEFINE acc == accounts[n]
      <4>1. q = Rest(j, acc)
        OBVIOUS
      <4> HIDE DEF acc, q, c
      <4> QED
        BY <3>1, <4>1, RestFields
    <3> HIDE DEF js, o, q, c
    <3>3. Executed(c, q) = c /\ Stored(c, q) = c
      BY <3>1, <3>2 DEF Executed, Stored
    <3>4. JobNonces(q, c, o)
      BY <2>4, <3>2, <3>3 DEF JobNonces
    <3> QED
      BY <2>4, <3>1, <3>4 DEF NodeNonces
  <2> QED
    BY <1>4, <2>5, <2>6
<1>7. k => NodeNonces(c, js, o)
  BY <1>6
<1> HIDE DEF c, js, o, k
<1> QED
  BY <1>2, <1>5, <1>7, NonceAt

LEMMA NonceRestart ==
    ASSUME NonceInv, NEW n \in Nodes, Restart(n)
    PROVE  NonceInv'
<1> DEFINE c == chain[n]
           acc == accounts[n]
           k == clean[n] /\ job[n] = {} /\ rpc[n] = {}
<1>1. AgreeInv /\ AgreeInv'
  BY AgreeRestart DEF NonceInv
<1>2. /\ UNCHANGED <<chain, accounts>> /\ job' = [job EXCEPT ![n] = {}]
      /\ clean' = [clean EXCEPT ![n] = k]
  BY DEF Restart, storeVars
<1>3. chain' = [chain EXCEPT ![n] = c] /\ accounts' = [accounts EXCEPT ![n] = acc]
  BY <1>1, <1>2 DEF NonceInv, AgreeInv
<1>4. k => NodeNonces(c, {}, acc)
  BY DEF NonceInv
<1> HIDE DEF c, acc, k
<1> QED
  BY <1>1, <1>2, <1>3, <1>4, NonceAt

\* put_account of what is still stored changes no nonce.
LEMMA NonceStore ==
    ASSUME NonceInv, AgreeInv', NEW n \in Nodes, StoreAccount(n)
    PROVE  NonceInv'
<1>1. PICK r \in rpc[n] : \E account \in r.loaded :
          /\ accounts' = [accounts EXCEPT ![n] = PutAccount(@, Head(r.todo).addr,
                 [account EXCEPT !.balance = SaturatingAdd(@, Head(r.todo).add)])]
          /\ clean' = [clean EXCEPT ![n] = @ /\ account = AccountOf(accounts[n], Head(r.todo).addr)]
  BY DEF StoreAccount
<1>2. PICK account \in r.loaded :
          /\ accounts' = [accounts EXCEPT ![n] = PutAccount(@, Head(r.todo).addr,
                 [account EXCEPT !.balance = SaturatingAdd(@, Head(r.todo).add)])]
          /\ clean' = [clean EXCEPT ![n] = @ /\ account = AccountOf(accounts[n], Head(r.todo).addr)]
  BY <1>1
<1> DEFINE addr == Head(r.todo).addr
           m == SaturatingAdd(account.balance, Head(r.todo).add)
           acc == accounts[n]
           new == PutAccount(acc, addr, [account EXCEPT !.balance = m])
           k == clean[n] /\ account = AccountOf(acc, addr)
           c == chain[n]
           js == job[n]
<1>3. accounts' = [accounts EXCEPT ![n] = new] /\ clean' = [clean EXCEPT ![n] = k]
  BY <1>2
<1>4. UNCHANGED <<chain, job>>
  BY DEF StoreAccount
<1>5. chain' = [chain EXCEPT ![n] = c] /\ job' = [job EXCEPT ![n] = js]
  BY <1>4 DEF NonceInv, AgreeInv
<1>6. ASSUME k PROVE NodeNonces(c, js, new)
  <2>1. NodeNonces(c, js, acc)
    BY <1>6 DEF NonceInv
  <2>2. account = AccountOf(acc, addr)
    BY <1>6
  <2> HIDE DEF addr, m, acc, c, js
  <2>3. new = PutAccount(acc, addr, [AccountOf(acc, addr) EXCEPT !.balance = m])
    BY <2>2
  <2> HIDE DEF new
  <2>4. AcctsOK(acc) => SameNonces(acc, new)
    BY <2>3, PutBalance
  <2>5. ASSUME NEW e, NoncesAre(acc, e) PROVE NoncesAre(new, e)
    <3>1. SameNonces(acc, new)
      BY <2>4, <2>5 DEF NoncesAre
    <3> QED
      BY <2>5, <3>1, SameNoncesAre
  <2>6. ASSUME NEW j \in js PROVE JobNonces(j, c, new)
    BY <2>1, <2>5 DEF NodeNonces, JobNonces
  <2> QED
    BY <2>1, <2>5, <2>6 DEF NodeNonces
<1> HIDE DEF addr, m, acc, new, k, c, js
<1> QED
  BY <1>3, <1>5, <1>6, NonceAt

LEMMA NonceNext == NonceInv /\ [Next]_vars => NonceInv'
<1> SUFFICES ASSUME NonceInv, [Next]_vars PROVE NonceInv'
  OBVIOUS
<1>1. AgreeInv'
  BY AgreeNext DEF NonceInv
<1>2. CASE Next
  <2>1. Steps
    BY <1>2, NextIsSteps
  <2>2. ASSUME NEW n \in Nodes, NEW txs \in Lists, Propose(n, txs) PROVE NonceInv'
    <3>1. UNCHANGED <<chain, job, accounts, clean>>
      BY <2>2 DEF Propose, histVars
    <3> QED
      BY <1>1, <3>1, NonceSame
  <2>3. ASSUME NEW block \in proposal, Decide(block) PROVE NonceInv'
    <3>1. UNCHANGED <<chain, job, accounts, clean>>
      BY <2>3 DEF Decide, storeVars, histVars
    <3> QED
      BY <1>1, <3>1, NonceSame
  <2>4. ASSUME NEW n \in Nodes, Aside(n) PROVE NonceInv'
    <3>1. CASE StoreAccount(n)
      BY <1>1, <3>1, NonceStore
    <3>2. CASE ~StoreAccount(n)
      <4>1. UNCHANGED <<chain, job, accounts, clean>>
        BY <2>4, <3>2, AsideKeeps
      <4> QED
        BY <1>1, <4>1, NonceSame
    <3> QED
      BY <3>1, <3>2
  <2> QED
    BY <2>1, <2>2, <2>3, <2>4, NonceFinalize, NonceImport, NoncePersist, NonceCommit,
       NonceRestart DEF Steps
<1>3. CASE UNCHANGED vars
  <2>1. UNCHANGED <<chain, job, accounts, clean>>
    BY <1>3 DEF vars, storeVars, histVars
  <2> QED
    BY <1>1, <2>1, NonceSame
<1> QED
  BY <1>2, <1>3

\* On a node that has lost no write, the nonce of every account is that of
\* genesis and one for each of its transactions on the chain.
THEOREM NonceInvariant == Spec => []NonceInv
BY NonceInit, NonceNext, PTL DEF Spec

\* On a node that has lost no write, the transactions of a sender are on the
\* chain once and in the order of their nonces, whatever lists proposers select:
\* validate_transaction asks for the very nonce of the account, and every write
\* of a commit leaves nonces that count the blocks.
THEOREM OnceOnChainTheorem == Spec => []OnceOnChain
<1>1. NonceInv => OnceOnChain
  <2> SUFFICES ASSUME NonceInv, NEW n \in Nodes, clean[n], NEW a \in Nodes,
                      NEW p \in TxsOf(chain[n], a)
               PROVE  TxAt(chain[n], p).nonce = AccountOf(Genesis, a).nonce
                          + Cardinality({q \in TxsOf(chain[n], a) : Earlier(q, p)})
    BY DEF OnceOnChain
  <2>1. Ordered(chain[n], a)
    BY DEF NonceInv, NodeNonces, OrderedAll
  <2> QED
    BY <2>1 DEF Ordered, Before, NonceOf
<1> QED
  BY <1>1, NonceInvariant, PTL

=============================================================================
