------------------------------ MODULE Mempool ------------------------------
(***************************************************************************)
(* The transaction pool of crates/zeno-mempool in one node, with those who *)
(* use it: submit_tx of the RPC, the gossip task, the proposer and the     *)
(* commit of a block.  All operations of Mempool hold its lock from start  *)
(* to end, so each is one step.                                            *)
(*                                                                         *)
(* A transaction is a record [id, sender, nonce, fee, until].  id is its   *)
(* hash, as a number in hash order; until is the Option valid_until, a set *)
(* of at most one height.  Balances are left out: every sender can pay.    *)
(***************************************************************************)
EXTENDS Integers, FiniteSets

CONSTANTS
    Txs,            \* the transactions users have signed
    MaxSize,        \* MAX_MEMPOOL_SIZE
    MaxPerSender,   \* MAX_PER_SENDER
    BlockLimit,     \* max_transactions_per_block
    PriorityFee,    \* from this fee on a transaction is in the priority lane
    MaxHeight,      \* bound on the height of the chain
    MaxRestarts     \* bound on the number of restarts

ASSUME TxsAssumption ==
    /\ IsFiniteSet(Txs)
    /\ \A t \in Txs : /\ t.id \in Nat /\ t.nonce \in Nat /\ t.fee \in Nat
                      /\ t.until \in SUBSET Nat
    /\ \A t, u \in Txs : t.id = u.id => t = u

ASSUME LimitsAssumption ==
    /\ MaxSize \in Nat \ {0} /\ MaxPerSender \in Nat \ {0}
    /\ BlockLimit \in Nat /\ PriorityFee \in Nat
    /\ MaxHeight \in Nat /\ MaxRestarts \in Nat

Senders == {t.sender : t \in Txs}

VARIABLES
    pool,       \* Inner: the five indexes
    nonce,      \* account nonces in the node's store
    height,     \* the height being decided
    halted,     \* the consensus task has ended with an error
    restarts

vars == <<pool, nonce, height, halted, restarts>>

-----------------------------------------------------------------------------
(* The pool and its indexes.                                               *)

EmptyPool ==
    [by_hash |-> {}, by_sender_nonce |-> << >>, order |-> {},
     by_sender_count |-> << >>, highest_nonce |-> << >>]

Key(t) == <<t.sender, t.nonce>>

Rank(t) == <<t.fee, t.id>>

RankBelow(r, q) == r[1] < q[1] \/ (r[1] = q[1] /\ r[2] < q[2])

\* map.get(k).unwrap_or(0), and insertion of one entry.
Lookup(map, k) == IF k \in DOMAIN map THEN map[k] ELSE 0

With(map, k, v) == [x \in DOMAIN map \cup {k} |-> IF x = k THEN v ELSE map[x]]

Without(map, K) == [x \in DOMAIN map \ K |-> map[x]]

\* The first entry of order, as the transaction it stands for.
Lowest(p) ==
    CHOOSE t \in Txs : /\ Rank(t) \in p.order
                       /\ \A r \in p.order : r = Rank(t) \/ RankBelow(Rank(t), r)

\* The replaced transaction leaves two indexes; its key is about to be reused.
Replaced(p, old) ==
    [p EXCEPT !.order = @ \ {Rank(old)}, !.by_hash = @ \ {old}]

\* Mutant: the evicted transaction keeps its slot.
Evicted_KeepsKey(p, old) ==
    [p EXCEPT !.by_hash = @ \ {old},
              !.order = @ \ {Rank(old)},
              !.by_sender_count =
                  With(@, old.sender, IF Lookup(@, old.sender) = 0 THEN 0
                                      ELSE Lookup(@, old.sender) - 1)]

\* Eviction at capacity: the sender's count may stay at zero.
Evicted(p, old) ==
    [p EXCEPT !.by_hash = @ \ {old},
              !.by_sender_nonce = Without(@, {Key(old)}),
              !.order = @ \ {Rank(old)},
              !.by_sender_count =
                  With(@, old.sender, IF Lookup(@, old.sender) = 0 THEN 0
                                      ELSE Lookup(@, old.sender) - 1)]

\* The end of insert.
Placed(p, t, isReplacement) ==
    [by_hash |-> p.by_hash \cup {t},
     by_sender_nonce |-> With(p.by_sender_nonce, Key(t), t),
     order |-> p.order \cup {Rank(t)},
     by_sender_count |-> IF isReplacement THEN p.by_sender_count
                         ELSE With(p.by_sender_count, t.sender,
                                   Lookup(p.by_sender_count, t.sender) + 1),
     highest_nonce |-> With(p.highest_nonce, t.sender,
                            IF t.nonce > Lookup(p.highest_nonce, t.sender)
                            THEN t.nonce ELSE Lookup(p.highest_nonce, t.sender))]

NonceGap(p, t) == t.nonce > Lookup(p.highest_nonce, t.sender) + MaxPerSender

SenderLimit(p, t) == Lookup(p.by_sender_count, t.sender) >= MaxPerSender

\* Mutant: a full pool always makes room.
Insert_EvictsAlways(p, t) ==
    IF t \in p.by_hash THEN p
    ELSE IF Key(t) \in DOMAIN p.by_sender_nonce
    THEN LET old == p.by_sender_nonce[Key(t)]
         IN  IF t.fee <= old.fee THEN p ELSE Placed(Replaced(p, old), t, TRUE)
    ELSE IF SenderLimit(p, t) \/ NonceGap(p, t) THEN p
    ELSE IF Cardinality(p.by_hash) >= MaxSize THEN Placed(Evicted(p, Lowest(p)), t, FALSE)
    ELSE Placed(p, t, FALSE)

\* Mutant: a full pool is one that has outgrown its limit.
Insert_OffByOne(p, t) ==
    IF t \in p.by_hash THEN p
    ELSE IF Key(t) \in DOMAIN p.by_sender_nonce
    THEN LET old == p.by_sender_nonce[Key(t)]
         IN  IF t.fee <= old.fee THEN p ELSE Placed(Replaced(p, old), t, TRUE)
    ELSE IF SenderLimit(p, t) \/ NonceGap(p, t) THEN p
    ELSE IF Cardinality(p.by_hash) > MaxSize
    THEN IF t.fee <= Lowest(p).fee THEN p ELSE Placed(Evicted(p, Lowest(p)), t, FALSE)
    ELSE Placed(p, t, FALSE)

\* insert; an error leaves the pool as it was.
Insert(p, t) ==
    IF t \in p.by_hash THEN p
    ELSE IF Key(t) \in DOMAIN p.by_sender_nonce
    THEN LET old == p.by_sender_nonce[Key(t)]
         IN  IF t.fee <= old.fee THEN p ELSE Placed(Replaced(p, old), t, TRUE)
    ELSE IF SenderLimit(p, t) \/ NonceGap(p, t) THEN p
    ELSE IF Cardinality(p.by_hash) >= MaxSize
    THEN IF t.fee <= Lowest(p).fee THEN p ELSE Placed(Evicted(p, Lowest(p)), t, FALSE)
    ELSE Placed(p, t, FALSE)

\* The loop of remove_committed and of evict_expired, over the transactions
\* of T that are in the pool.  A count that falls to zero loses its entry.
Removed(p, T) ==
    LET gone == p.by_hash \cap T
        of(s) == Cardinality({t \in gone : t.sender = s})
        counts == p.by_sender_count
    IN  [p EXCEPT
           !.by_hash = @ \ gone,
           !.by_sender_nonce = Without(@, {Key(t) : t \in gone}),
           !.order = @ \ {Rank(t) : t \in gone},
           !.by_sender_count =
              [s \in {s \in DOMAIN counts : of(s) = 0 \/ counts[s] > of(s)}
                  |-> counts[s] - of(s)]]

Expired(t, h) == \E until \in t.until : h > until

EvictExpired(p, h) == Removed(p, {t \in p.by_hash : Expired(t, h)})

\* The comparison of select_for_block_prioritized: a is taken before b.
Before(a, b) ==
    \/ a.fee >= PriorityFee /\ b.fee < PriorityFee
    \/ (a.fee >= PriorityFee <=> b.fee >= PriorityFee) /\ a.fee > b.fee

(* select_for_block_prioritized.  The sort is stable over the arbitrary    *)
(* order of a HashMap, so ties are broken arbitrarily.                     *)
Selections(p, h) ==
    LET live  == {t \in p.by_hash : ~Expired(t, h)}
        taken == IF Cardinality(live) < BlockLimit THEN Cardinality(live) ELSE BlockLimit
    IN  {q \in [1..taken -> live] :
           /\ \A i, j \in 1..taken : i < j => q[i] # q[j] /\ ~Before(q[j], q[i])
           /\ \A t \in live : (\A i \in 1..taken : q[i] # t)
                              => \A i \in 1..taken : ~Before(t, q[i])}

-----------------------------------------------------------------------------
(* Execution, as far as nonces and expiry go.                              *)

\* validate_transaction and apply_transaction for every transaction of q.
Executes(q, h) ==
    \A i \in DOMAIN q :
        /\ ~Expired(q[i], h)
        /\ q[i].nonce = nonce[q[i].sender]
                        + Cardinality({j \in DOMAIN q : j < i /\ q[j].sender = q[i].sender})

\* The sets of transactions some block of height h can carry.
Committable(h) ==
    {B \in SUBSET Txs :
        /\ Cardinality(B) <= BlockLimit
        /\ \A t \in B : /\ ~Expired(t, h)
                        /\ t.nonce >= nonce[t.sender]
                        /\ \A k \in nonce[t.sender]..t.nonce :
                              Cardinality({u \in B : u.sender = t.sender /\ u.nonce = k}) = 1}

-----------------------------------------------------------------------------
Init ==
    /\ pool = EmptyPool
    /\ nonce = [s \in Senders |-> 0]
    /\ height = 1
    /\ halted = FALSE
    /\ restarts = 0

\* RPC submit_tx: the transaction must be executable now.
SubmitTx(t) ==
    /\ t.nonce = nonce[t.sender]
    /\ ~Expired(t, height)
    /\ pool' = Insert(pool, t)
    /\ UNCHANGED <<nonce, height, halted, restarts>>

\* The gossip task inserts whatever a peer sends, unvalidated, and drops
\* the error.
GossipTx(t) ==
    /\ pool' = Insert(pool, t)
    /\ UNCHANGED <<nonce, height, halted, restarts>>

\* maybe_propose: an error of the dry run ends the consensus task.
Propose ==
    /\ ~halted
    /\ pool' = EvictExpired(pool, height)
    /\ \E q \in Selections(pool', height) : halted' = ~Executes(q, height)
    /\ UNCHANGED <<nonce, height, restarts>>

\* A block is finalized here or imported, whoever proposed it.
CommitBlock ==
    /\ height <= MaxHeight
    /\ \E B \in Committable(height) :
          /\ pool' = Removed(pool, B)
          /\ nonce' = [s \in Senders |->
                          nonce[s] + Cardinality({t \in B : t.sender = s})]
    /\ height' = height + 1
    /\ UNCHANGED <<halted, restarts>>

\* The pool is not persisted; the store is.
Restart ==
    /\ restarts < MaxRestarts
    /\ pool' = EmptyPool
    /\ halted' = FALSE
    /\ restarts' = restarts + 1
    /\ UNCHANGED <<nonce, height>>

Next ==
    \/ \E t \in Txs : SubmitTx(t) \/ GossipTx(t)
    \/ Propose
    \/ CommitBlock
    \/ Restart

Spec == Init /\ [][Next]_vars

-----------------------------------------------------------------------------
(* Properties.                                                             *)

OfSender(s) == {t \in pool.by_hash : t.sender = s}

(* The indexes of Inner stay in step through replacement, eviction, expiry *)
(* and commit: every pooled transaction has its slot, its rank and its     *)
(* place in the count, and nothing else has.  In particular neither        *)
(* expect() of insert can fail.                                            *)
IndexesAgree ==
    /\ pool.order = {Rank(t) : t \in pool.by_hash}
    /\ DOMAIN pool.by_sender_nonce = {Key(t) : t \in pool.by_hash}
    /\ \A t \in pool.by_hash : pool.by_sender_nonce[Key(t)] = t
    /\ \A s \in Senders :
          /\ Lookup(pool.by_sender_count, s) = Cardinality(OfSender(s))
          /\ OfSender(s) # {} => s \in DOMAIN pool.by_sender_count

\* MAX_MEMPOOL_SIZE and MAX_PER_SENDER hold, although replacement skips both
\* checks and eviction makes room before the insertion.
WithinLimits ==
    /\ Cardinality(pool.by_hash) <= MaxSize
    /\ \A s \in Senders : Cardinality(OfSender(s)) <= MaxPerSender

(* A transaction leaves the pool only when its nonce has been used, it has *)
(* expired, or a better paying one has come in and taken its slot or, the  *)
(* pool being full, its place.  An insert that fails costs nobody a place. *)
FairExit ==
    [][\A t \in pool.by_hash \ pool'.by_hash :
          \/ nonce'[t.sender] > t.nonce
          \/ Expired(t, height)
          \/ \E u \in pool'.by_hash \ pool.by_hash :
                /\ u.fee > t.fee
                /\ \/ Key(u) = Key(t)
                   \/ /\ Cardinality(pool.by_hash) = MaxSize
                      /\ \A w \in pool.by_hash : w.fee >= t.fee
          \/ restarts' > restarts]_vars

(* "The proposer builds a block from the mempool and signs the block       *)
(* header" (docs/consensus.md 8): what select_for_block_prioritized        *)
(* returns executes in the order it is returned.                           *)
SelectionExecutes == ~halted

=============================================================================
