--------------------------- MODULE MempoolProofs ---------------------------
(***************************************************************************)
(* The indexes, the limits and the exits of the transaction pool, for any  *)
(* set of signed transactions and any limits.                              *)
(*                                                                         *)
(* PoolOK is about one pool, so that the lemmas follow insert: the end of  *)
(* insert, eviction and removal each take a good pool to a good pool, and  *)
(* replacement is done as a whole, because between its two halves a key    *)
(* points to a transaction that is gone.                                   *)
(***************************************************************************)
EXTENDS Mempool, FiniteSetTheorems, FunctionTheorems, WellFoundedInduction, TLAPS

Of(p, s) == {t \in p.by_hash : t.sender = s}

IsPool(p) ==
    p = [by_hash |-> p.by_hash, by_sender_nonce |-> p.by_sender_nonce, order |-> p.order,
         by_sender_count |-> p.by_sender_count, highest_nonce |-> p.highest_nonce]

Indexed(p) ==
    /\ p.order = {Rank(t) : t \in p.by_hash}
    /\ DOMAIN p.by_sender_nonce = {Key(t) : t \in p.by_hash}
    /\ \A t \in p.by_hash : p.by_sender_nonce[Key(t)] = t

Counted(p) ==
    \A s \in Senders :
        /\ Lookup(p.by_sender_count, s) = Cardinality(Of(p, s))
        /\ Of(p, s) # {} => s \in DOMAIN p.by_sender_count

Limited(p) ==
    /\ Cardinality(p.by_hash) <= MaxSize
    /\ \A s \in Senders : Cardinality(Of(p, s)) <= MaxPerSender

PoolOK(p) ==
    /\ IsPool(p)
    /\ p.by_hash \subseteq Txs
    /\ Indexed(p)
    /\ Counted(p)
    /\ Limited(p)

\* What the steps need besides: nonces and restarts are numbers.
MempoolInv ==
    /\ PoolOK(pool)
    /\ nonce \in [Senders -> Nat]
    /\ restarts \in Nat

-----------------------------------------------------------------------------
(* Facts about transactions and sets of them.                              *)

LEMMA TxFields ==
    ASSUME NEW t \in Txs
    PROVE  /\ t.id \in Nat /\ t.nonce \in Nat /\ t.fee \in Nat
           /\ t.sender \in Senders
BY TxsAssumption DEF Senders

LEMMA RankInjective ==
    ASSUME NEW t \in Txs, NEW u \in Txs, Rank(t) = Rank(u)
    PROVE  t = u
BY TxsAssumption DEF Rank

LEMMA SetsOfTxsFinite ==
    ASSUME NEW S, S \subseteq Txs
    PROVE  IsFiniteSet(S) /\ Cardinality(S) \in Nat
<1>1. IsFiniteSet(S)
  BY TxsAssumption, FS_Subset
<1> QED
  BY <1>1, FS_CardinalityType

LEMMA OfFinite ==
    ASSUME NEW p, p.by_hash \subseteq Txs, NEW s
    PROVE  IsFiniteSet(Of(p, s)) /\ Cardinality(Of(p, s)) \in Nat
<1>1. Of(p, s) \subseteq Txs
  BY DEF Of
<1> QED
  BY <1>1, SetsOfTxsFinite

\* A set of numbers that is not empty has a least one.
LEMMA LeastNumber ==
    ASSUME NEW S, S \subseteq Nat, S # {}
    PROVE  \E n \in S : \A m \in S : n <= m
<1> DEFINE R == OpToRel(<, Nat)
<1>1. IsWellFoundedOn(R, Nat)
  BY NatLessThanWellFounded, Zenon
<1>2. \A m, n \in Nat : m < n => <<m, n>> \in R
  BY DEF OpToRel
<1> HIDE DEF R
<1>3. PICK n \in S : \A m \in S : ~(<<m, n>> \in R)
  BY <1>1, WFMin
<1>4. \A m \in S : ~(m < n)
  BY <1>2, <1>3
<1>5. \A m \in S : n <= m
  BY <1>4
<1> QED
  BY <1>5

\* Two keys of one map, as With and Without leave it.
LEMMA WithMap ==
    ASSUME NEW map, NEW k, NEW v
    PROVE  /\ DOMAIN With(map, k, v) = DOMAIN map \cup {k}
           /\ With(map, k, v)[k] = v
           /\ \A x \in DOMAIN map : x # k => With(map, k, v)[x] = map[x]
BY DEF With

LEMMA WithLookup ==
    ASSUME NEW map, NEW k, NEW v, NEW x
    PROVE  Lookup(With(map, k, v), x) = IF x = k THEN v ELSE Lookup(map, x)
BY DEF With, Lookup

LEMMA WithoutMap ==
    ASSUME NEW map, NEW K
    PROVE  /\ DOMAIN Without(map, K) = DOMAIN map \ K
           /\ \A x \in DOMAIN map \ K : Without(map, K)[x] = map[x]
BY DEF Without

\* In a pool that is not empty, the first entry of order stands for a
\* transaction of the pool that pays no more than any other.
LEMMA LowestPays ==
    ASSUME NEW p, p.by_hash \subseteq Txs, p.order = {Rank(t) : t \in p.by_hash}, p.by_hash # {}
    PROVE  /\ Lowest(p) \in p.by_hash
           /\ \A t \in p.by_hash : Lowest(p).fee <= t.fee
<1> DEFINE fees == {t.fee : t \in p.by_hash}
<1>1. fees \subseteq Nat /\ fees # {}
  BY TxFields
<1>2. PICK f \in fees : \A m \in fees : f <= m
  BY <1>1, LeastNumber
<1> DEFINE ids == {t.id : t \in {u \in p.by_hash : u.fee = f}}
<1>3. ids \subseteq Nat /\ ids # {}
  BY TxFields
<1> HIDE DEF ids
<1>4. PICK i \in ids : \A m \in ids : i <= m
  BY <1>3, LeastNumber
<1>5. PICK t \in p.by_hash : t.fee = f /\ t.id = i
  BY <1>4 DEF ids
<1>6. ASSUME NEW u \in p.by_hash
      PROVE  Rank(u) = Rank(t) \/ RankBelow(Rank(t), Rank(u))
  <2>1. t.fee \in Nat /\ u.fee \in Nat /\ t.id \in Nat /\ u.id \in Nat
    BY TxFields
  <2>2. t.fee <= u.fee
    BY <1>2, <1>5
  <2>3. u.fee = t.fee => t.id <= u.id
    BY <1>4, <1>5 DEF ids
  <2> QED
    BY <2>1, <2>2, <2>3 DEF Rank, RankBelow
<1>7. \E x \in Txs : Rank(x) \in p.order
                     /\ \A r \in p.order : r = Rank(x) \/ RankBelow(Rank(x), r)
  BY <1>5, <1>6
<1>8. /\ Lowest(p) \in Txs /\ Rank(Lowest(p)) \in p.order
      /\ \A r \in p.order : r = Rank(Lowest(p)) \/ RankBelow(Rank(Lowest(p)), r)
  BY <1>7 DEF Lowest
<1>9. Lowest(p) \in p.by_hash
  BY <1>8, RankInjective
<1>10. ASSUME NEW u \in p.by_hash PROVE Lowest(p).fee <= u.fee
  <2>1. Lowest(p).fee \in Nat /\ u.fee \in Nat
    BY <1>9, TxFields
  <2>2. Rank(u) = Rank(Lowest(p)) \/ RankBelow(Rank(Lowest(p)), Rank(u))
    BY <1>8
  <2> QED
    BY <2>1, <2>2 DEF Rank, RankBelow
<1> QED
  BY <1>9, <1>10

-----------------------------------------------------------------------------
(* The operations, on one pool.                                            *)

LEMMA EmptyPoolOK == PoolOK(EmptyPool)
<1> DEFINE p == EmptyPool
<1>1. p.by_hash = {} /\ p.order = {} /\ DOMAIN p.by_sender_nonce = {} /\ DOMAIN p.by_sender_count = {}
  BY DEF EmptyPool
<1>2. IsPool(p)
  BY DEF EmptyPool, IsPool
<1> HIDE DEF p
<1>3. \A s : Of(p, s) = {}
  BY <1>1 DEF Of
<1>4. Cardinality({}) = 0
  BY FS_EmptySet
<1>5. Indexed(p)
  BY <1>1 DEF Indexed
<1>6. Counted(p)
  BY <1>1, <1>3, <1>4 DEF Counted, Lookup
<1>7. Limited(p)
  BY <1>1, <1>3, <1>4, LimitsAssumption DEF Limited
<1>8. PoolOK(p)
  BY <1>1, <1>2, <1>5, <1>6, <1>7 DEF PoolOK
<1> QED
  BY <1>8 DEF p

\* The end of insert, for a transaction whose slot is free and for whom the
\* limits leave room.
LEMMA PlacedOK ==
    ASSUME NEW p, PoolOK(p), NEW t \in Txs, t \notin p.by_hash,
           Key(t) \notin DOMAIN p.by_sender_nonce,
           Cardinality(p.by_hash) < MaxSize,
           Cardinality(Of(p, t.sender)) < MaxPerSender
    PROVE  PoolOK(Placed(p, t, FALSE))
<1> DEFINE r == Placed(p, t, FALSE)
<1>1. /\ IsPool(r)
      /\ r.by_hash = p.by_hash \cup {t}
      /\ r.by_sender_nonce = With(p.by_sender_nonce, Key(t), t)
      /\ r.order = p.order \cup {Rank(t)}
      /\ r.by_sender_count = With(p.by_sender_count, t.sender,
                                  Lookup(p.by_sender_count, t.sender) + 1)
  BY DEF Placed, IsPool
<1> HIDE DEF r
<1>1a. /\ DOMAIN r.by_sender_nonce = DOMAIN p.by_sender_nonce \cup {Key(t)}
       /\ r.by_sender_nonce[Key(t)] = t
       /\ \A x \in DOMAIN p.by_sender_nonce : x # Key(t) => r.by_sender_nonce[x] = p.by_sender_nonce[x]
  <2> DEFINE m == p.by_sender_nonce
             k == Key(t)
             w == r.by_sender_nonce
  <2>1. w = With(m, k, t)
    BY <1>1
  <2> HIDE DEF m, k, w
  <2>2. /\ DOMAIN w = DOMAIN m \cup {k} /\ w[k] = t
        /\ \A x \in DOMAIN m : x # k => w[x] = m[x]
    <3>1. /\ DOMAIN With(m, k, t) = DOMAIN m \cup {k} /\ With(m, k, t)[k] = t
          /\ \A x \in DOMAIN m : x # k => With(m, k, t)[x] = m[x]
      BY DEF With
    <3> QED
      BY <2>1, <3>1
  <2> QED
    BY <2>2 DEF m, k, w
<1>1b. DOMAIN r.by_sender_count = DOMAIN p.by_sender_count \cup {t.sender}
  <2> DEFINE c == p.by_sender_count
             s == t.sender
             v == Lookup(p.by_sender_count, t.sender) + 1
  <2>1. r.by_sender_count = With(c, s, v)
    BY <1>1
  <2> HIDE DEF c, s, v
  <2>2. DOMAIN With(c, s, v) = DOMAIN c \cup {s}
    BY WithMap
  <2> QED
    BY <2>1, <2>2 DEF c, s, v
<1>2. p.by_hash \subseteq Txs /\ Indexed(p) /\ Counted(p) /\ Limited(p)
  BY DEF PoolOK
<1>3. r.by_hash \subseteq Txs
  BY <1>1, <1>2
<1>4. Indexed(r)
  <2>1. r.order = {Rank(u) : u \in r.by_hash}
    BY <1>1, <1>2 DEF Indexed
  <2>2. DOMAIN r.by_sender_nonce = {Key(u) : u \in r.by_hash}
    BY <1>1, <1>1a, <1>2 DEF Indexed
  <2>3. ASSUME NEW u \in r.by_hash PROVE r.by_sender_nonce[Key(u)] = u
    <3>1. CASE u = t
      BY <1>1a, <3>1
    <3>2. CASE u # t
      <4>1. u \in p.by_hash /\ Key(u) \in DOMAIN p.by_sender_nonce /\ p.by_sender_nonce[Key(u)] = u
        BY <1>1, <1>2, <3>2 DEF Indexed
      <4>2. Key(u) # Key(t)
        BY <4>1
      <4> QED
        BY <1>1a, <4>1, <4>2, Zenon
    <3> QED
      BY <3>1, <3>2
  <2> QED
    BY <2>1, <2>2, <2>3 DEF Indexed
<1>5. Cardinality(r.by_hash) = Cardinality(p.by_hash) + 1 /\ Cardinality(p.by_hash) \in Nat
  <2>1. IsFiniteSet(p.by_hash) /\ Cardinality(p.by_hash) \in Nat
    BY <1>2, SetsOfTxsFinite
  <2> QED
    BY <1>1, <2>1, FS_AddElement
<1>6. ASSUME NEW s \in Senders
      PROVE  /\ Cardinality(Of(r, s)) = Cardinality(Of(p, s)) + (IF s = t.sender THEN 1 ELSE 0)
             /\ Cardinality(Of(p, s)) \in Nat
  <2>1. IsFiniteSet(Of(p, s)) /\ Cardinality(Of(p, s)) \in Nat
    BY <1>2, OfFinite
  <2>2. CASE s = t.sender
    <3>1. Of(r, s) = Of(p, s) \cup {t} /\ t \notin Of(p, s)
      BY <1>1, <2>2 DEF Of
    <3> QED
      BY <2>1, <2>2, <3>1, FS_AddElement
  <2>3. CASE s # t.sender
    <3>1. Of(r, s) = Of(p, s)
      BY <1>1, <2>3 DEF Of
    <3> QED
      BY <2>1, <2>3, <3>1
  <2> QED
    BY <2>2, <2>3
<1>7. Counted(r)
  <2> SUFFICES ASSUME NEW s \in Senders
               PROVE  /\ Lookup(r.by_sender_count, s) = Cardinality(Of(r, s))
                      /\ Of(r, s) # {} => s \in DOMAIN r.by_sender_count
    BY DEF Counted
  <2>1. /\ Lookup(p.by_sender_count, s) = Cardinality(Of(p, s))
        /\ Of(p, s) # {} => s \in DOMAIN p.by_sender_count
    BY <1>2 DEF Counted
  <2>2. Lookup(r.by_sender_count, s) = Cardinality(Of(r, s))
    BY <1>1, <1>6, <2>1, WithLookup
  <2>3. s # t.sender => Of(r, s) = Of(p, s)
    BY <1>1 DEF Of
  <2> QED
    BY <1>1b, <2>1, <2>2, <2>3
<1>8. Limited(r)
  <2>1. MaxSize \in Nat /\ MaxPerSender \in Nat
    BY LimitsAssumption
  <2>2. Cardinality(r.by_hash) <= MaxSize
    BY <1>5, <2>1
  <2>3. ASSUME NEW s \in Senders PROVE Cardinality(Of(r, s)) <= MaxPerSender
    BY <1>2, <1>6, <2>1 DEF Limited
  <2> QED
    BY <2>2, <2>3 DEF Limited
<1>9. PoolOK(r)
  BY <1>1, <1>3, <1>4, <1>7, <1>8 DEF PoolOK
<1> QED
  BY <1>9 DEF r

\* Eviction takes one transaction out of every index.
LEMMA EvictedOK ==
    ASSUME NEW p, PoolOK(p), NEW old \in p.by_hash
    PROVE  /\ PoolOK(Evicted(p, old))
           /\ Evicted(p, old).by_hash = p.by_hash \ {old}
           /\ DOMAIN Evicted(p, old).by_sender_nonce \subseteq DOMAIN p.by_sender_nonce
           /\ Cardinality(Evicted(p, old).by_hash) = Cardinality(p.by_hash) - 1
           /\ \A s \in Senders : Cardinality(Of(Evicted(p, old), s)) <= Cardinality(Of(p, s))
<1> DEFINE r == Evicted(p, old)
           n == Lookup(p.by_sender_count, old.sender)
<1>0. IsPool(p)
  BY DEF PoolOK
<1>1. /\ IsPool(r)
      /\ r.by_hash = p.by_hash \ {old}
      /\ r.by_sender_nonce = Without(p.by_sender_nonce, {Key(old)})
      /\ r.order = p.order \ {Rank(old)}
      /\ r.by_sender_count = With(p.by_sender_count, old.sender, IF n = 0 THEN 0 ELSE n - 1)
  <2> DEFINE h == p.by_hash \ {old}
             m == Without(p.by_sender_nonce, {Key(old)})
             o == p.order \ {Rank(old)}
             c == With(p.by_sender_count, old.sender, IF n = 0 THEN 0 ELSE n - 1)
  <2>1. r = [p EXCEPT !.by_hash = h, !.by_sender_nonce = m, !.order = o, !.by_sender_count = c]
    BY <1>0 DEF Evicted, IsPool
  <2> HIDE DEF h, m, o, c, r
  <2>2. r = [by_hash |-> h, by_sender_nonce |-> m, order |-> o, by_sender_count |-> c,
             highest_nonce |-> p.highest_nonce]
    BY <1>0, <2>1 DEF IsPool
  <2>3. IsPool(r)
    BY <2>2 DEF IsPool
  <2> QED
    BY <2>2, <2>3 DEF h, m, o, c
<1> HIDE DEF r, n
<1>1a. /\ DOMAIN r.by_sender_nonce = DOMAIN p.by_sender_nonce \ {Key(old)}
       /\ \A x \in DOMAIN p.by_sender_nonce \ {Key(old)} :
             r.by_sender_nonce[x] = p.by_sender_nonce[x]
  <2> DEFINE m == p.by_sender_nonce
             k == {Key(old)}
             w == r.by_sender_nonce
  <2>1. w = Without(m, k)
    BY <1>1
  <2> HIDE DEF m, k, w
  <2>2. /\ DOMAIN w = DOMAIN m \ k
        /\ \A x \in DOMAIN m \ k : w[x] = m[x]
    BY <2>1, WithoutMap
  <2> QED
    BY <2>2 DEF m, k, w
<1>1b. DOMAIN r.by_sender_count = DOMAIN p.by_sender_count \cup {old.sender}
  <2> DEFINE c == p.by_sender_count
             s == old.sender
             v == IF n = 0 THEN 0 ELSE n - 1
  <2>1. r.by_sender_count = With(c, s, v)
    BY <1>1
  <2> HIDE DEF c, s, v
  <2>2. DOMAIN With(c, s, v) = DOMAIN c \cup {s}
    BY WithMap
  <2> QED
    BY <2>1, <2>2 DEF c, s, v
<1>2. p.by_hash \subseteq Txs /\ Indexed(p) /\ Counted(p) /\ Limited(p)
  BY DEF PoolOK
<1>3. r.by_hash \subseteq Txs
  BY <1>1, <1>2
<1>4. \A u \in r.by_hash : u \in p.by_hash /\ u # old /\ Key(u) # Key(old) /\ Rank(u) # Rank(old)
  BY <1>1, <1>2, RankInjective DEF Indexed
<1>5. Indexed(r)
  <2>1. r.order = {Rank(u) : u \in r.by_hash}
    BY <1>1, <1>2, <1>4 DEF Indexed
  <2>2. DOMAIN r.by_sender_nonce = {Key(u) : u \in r.by_hash}
    BY <1>1, <1>1a, <1>2, <1>4 DEF Indexed
  <2>3. ASSUME NEW u \in r.by_hash PROVE r.by_sender_nonce[Key(u)] = u
    <3>1. Key(u) \in DOMAIN p.by_sender_nonce \ {Key(old)} /\ p.by_sender_nonce[Key(u)] = u
      BY <1>2, <1>4 DEF Indexed
    <3> QED
      BY <1>1a, <3>1, Zenon
  <2> QED
    BY <2>1, <2>2, <2>3 DEF Indexed
<1>6. Cardinality(r.by_hash) = Cardinality(p.by_hash) - 1 /\ Cardinality(p.by_hash) \in Nat
  <2>1. IsFiniteSet(p.by_hash) /\ Cardinality(p.by_hash) \in Nat
    BY <1>2, SetsOfTxsFinite
  <2> QED
    BY <1>1, <2>1, FS_RemoveElement
<1>7. ASSUME NEW s \in Senders
      PROVE  /\ Cardinality(Of(r, s)) = Cardinality(Of(p, s)) - (IF s = old.sender THEN 1 ELSE 0)
             /\ Cardinality(Of(p, s)) \in Nat /\ Cardinality(Of(r, s)) \in Nat
  <2>1. IsFiniteSet(Of(p, s)) /\ Cardinality(Of(p, s)) \in Nat /\ Cardinality(Of(r, s)) \in Nat
    BY <1>2, <1>3, OfFinite
  <2>2. CASE s = old.sender
    <3>1. Of(r, s) = Of(p, s) \ {old} /\ old \in Of(p, s)
      BY <1>1, <2>2 DEF Of
    <3> QED
      BY <2>1, <2>2, <3>1, FS_RemoveElement
  <2>3. CASE s # old.sender
    <3>1. Of(r, s) = Of(p, s)
      BY <1>1, <2>3 DEF Of
    <3> QED
      BY <2>1, <2>3, <3>1
  <2> QED
    BY <2>1, <2>2, <2>3
<1>8. Counted(r)
  <2> SUFFICES ASSUME NEW s \in Senders
               PROVE  /\ Lookup(r.by_sender_count, s) = Cardinality(Of(r, s))
                      /\ Of(r, s) # {} => s \in DOMAIN r.by_sender_count
    BY DEF Counted
  <2>1. /\ Lookup(p.by_sender_count, s) = Cardinality(Of(p, s))
        /\ Of(p, s) # {} => s \in DOMAIN p.by_sender_count
    BY <1>2 DEF Counted
  <2>2. Lookup(r.by_sender_count, s) = IF s = old.sender THEN IF n = 0 THEN 0 ELSE n - 1
                                       ELSE Lookup(p.by_sender_count, s)
    BY <1>1, WithLookup
  <2>3. s = old.sender => n = Cardinality(Of(p, s))
    BY <2>1 DEF n
  <2>4. Lookup(r.by_sender_count, s) = Cardinality(Of(r, s))
    BY <1>7, <2>1, <2>2, <2>3
  <2>5. Of(r, s) \subseteq Of(p, s)
    BY <1>1 DEF Of
  <2> QED
    BY <1>1b, <2>1, <2>4, <2>5
<1>9. Limited(r)
  <2>1. MaxSize \in Nat /\ MaxPerSender \in Nat
    BY LimitsAssumption
  <2>2. Cardinality(r.by_hash) <= MaxSize
    BY <1>2, <1>6, <2>1 DEF Limited
  <2>3. ASSUME NEW s \in Senders PROVE Cardinality(Of(r, s)) <= MaxPerSender
    BY <1>2, <1>7, <2>1 DEF Limited
  <2> QED
    BY <2>2, <2>3 DEF Limited
<1>10. PoolOK(r)
  BY <1>1, <1>3, <1>5, <1>8, <1>9 DEF PoolOK
<1>11. \A s \in Senders : Cardinality(Of(r, s)) <= Cardinality(Of(p, s))
  BY <1>7
<1>12. DOMAIN r.by_sender_nonce \subseteq DOMAIN p.by_sender_nonce
  BY <1>1a
<1>13. r.by_hash = p.by_hash \ {old}
  BY <1>1
<1> QED
  BY <1>6, <1>10, <1>11, <1>12, <1>13 DEF r

\* Replacement: the new transaction takes the slot of the old one.
LEMMA ReplacementOK ==
    ASSUME NEW p, PoolOK(p), NEW t \in Txs, t \notin p.by_hash, NEW old \in p.by_hash,
           Key(old) = Key(t)
    PROVE  /\ PoolOK(Placed(Replaced(p, old), t, TRUE))
           /\ Placed(Replaced(p, old), t, TRUE).by_hash = (p.by_hash \ {old}) \cup {t}
<1> DEFINE q == Replaced(p, old)
           r == Placed(q, t, TRUE)
<1>0. IsPool(p)
  BY DEF PoolOK
<1>1. /\ q.by_hash = p.by_hash \ {old} /\ q.order = p.order \ {Rank(old)}
      /\ q.by_sender_nonce = p.by_sender_nonce /\ q.by_sender_count = p.by_sender_count
  BY <1>0 DEF Replaced, IsPool
<1> HIDE DEF q
<1>2. /\ IsPool(r)
      /\ r.by_hash = q.by_hash \cup {t}
      /\ r.by_sender_nonce = With(q.by_sender_nonce, Key(t), t)
      /\ r.order = q.order \cup {Rank(t)}
      /\ r.by_sender_count = q.by_sender_count
  BY DEF Placed, IsPool
<1> HIDE DEF r
<1>3. p.by_hash \subseteq Txs /\ Indexed(p) /\ Counted(p) /\ Limited(p)
  BY DEF PoolOK
<1>4. r.by_hash = (p.by_hash \ {old}) \cup {t} /\ r.by_hash \subseteq Txs
  BY <1>1, <1>2, <1>3
<1>5. \A u \in p.by_hash : u # old => Key(u) # Key(t) /\ Rank(u) # Rank(old)
  BY <1>3, RankInjective DEF Indexed
<1>6. Indexed(r)
  <2>1. r.order = {Rank(u) : u \in r.by_hash}
    BY <1>1, <1>2, <1>3, <1>4, <1>5 DEF Indexed
  <2> DEFINE m == p.by_sender_nonce
             w == r.by_sender_nonce
             k == Key(t)
  <2>2. w = With(m, k, t)
    BY <1>1, <1>2
  <2>3. /\ DOMAIN m = {Key(u) : u \in p.by_hash}
        /\ \A u \in p.by_hash : m[Key(u)] = u
    BY <1>3 DEF Indexed
  <2> HIDE DEF m, w, k
  <2>4. /\ DOMAIN w = DOMAIN m \cup {k} /\ w[k] = t
        /\ \A x \in DOMAIN m : x # k => w[x] = m[x]
    BY <2>2 DEF With
  <2>5. k = Key(t) /\ k = Key(old)
    BY DEF k
  <2>6. DOMAIN w = {Key(u) : u \in r.by_hash}
    BY <1>4, <2>3, <2>4, <2>5
  <2>7. ASSUME NEW u \in r.by_hash PROVE w[Key(u)] = u
    <3>1. CASE u = t
      BY <2>4, <2>5, <3>1
    <3>2. CASE u # t
      <4>1. u \in p.by_hash /\ Key(u) # k /\ Key(u) \in DOMAIN m /\ m[Key(u)] = u
        BY <1>4, <1>5, <2>3, <2>5, <3>2
      <4> QED
        BY <2>4, <4>1
    <3> QED
      BY <3>1, <3>2
  <2> QED
    BY <2>1, <2>6, <2>7 DEF Indexed, w
<1>7. t.sender = old.sender
  BY DEF Key
<1>8. Cardinality(r.by_hash) = Cardinality(p.by_hash)
  <2> DEFINE S == p.by_hash
             T == S \ {old}
  <2>1. IsFiniteSet(S) /\ Cardinality(S) \in Nat
    BY <1>3, SetsOfTxsFinite
  <2>2. IsFiniteSet(T) /\ Cardinality(T) = Cardinality(S) - 1
    BY <2>1, FS_RemoveElement
  <2>3. t \notin T
    OBVIOUS
  <2> HIDE DEF T, S
  <2>4. Cardinality(T \cup {t}) = Cardinality(T) + 1
    BY <2>2, <2>3, FS_AddElement
  <2> QED
    BY <1>4, <2>1, <2>2, <2>4 DEF T, S
<1>9. ASSUME NEW s \in Senders
      PROVE  Cardinality(Of(r, s)) = Cardinality(Of(p, s)) /\ (Of(r, s) # {} => Of(p, s) # {})
  <2>1. CASE s = t.sender
    <3> DEFINE S == Of(p, s)
               T == S \ {old}
    <3>1. Of(r, s) = T \cup {t} /\ old \in S /\ t \notin T
      BY <1>4, <1>7, <2>1 DEF Of
    <3>2. IsFiniteSet(S) /\ Cardinality(S) \in Nat
      BY <1>3, OfFinite
    <3> HIDE DEF S
    <3>3. IsFiniteSet(T) /\ Cardinality(T) = Cardinality(S) - 1
      BY <3>1, <3>2, FS_RemoveElement
    <3> HIDE DEF T
    <3>4. Cardinality(T \cup {t}) = Cardinality(T) + 1
      BY <3>1, <3>3, FS_AddElement
    <3> QED
      BY <3>1, <3>2, <3>3, <3>4 DEF S
  <2>2. CASE s # t.sender
    <3>1. Of(r, s) = Of(p, s)
      BY <1>4, <1>7, <2>2 DEF Of
    <3> QED
      BY <3>1
  <2> QED
    BY <2>1, <2>2
<1>10. Counted(r)
  BY <1>1, <1>2, <1>3, <1>9 DEF Counted
<1>11. Limited(r)
  BY <1>3, <1>8, <1>9 DEF Limited
<1>12. PoolOK(r)
  BY <1>2, <1>4, <1>6, <1>10, <1>11 DEF PoolOK
<1> QED
  BY <1>4, <1>12 DEF r, q

\* remove_committed and evict_expired.
LEMMA RemovedOK ==
    ASSUME NEW p, PoolOK(p), NEW T
    PROVE  PoolOK(Removed(p, T)) /\ Removed(p, T).by_hash = p.by_hash \ T
<1> DEFINE gone == p.by_hash \cap T
           of(s) == Cardinality({t \in gone : t.sender = s})
           counts == p.by_sender_count
           h == p.by_hash \ gone
           m == Without(p.by_sender_nonce, {Key(t) : t \in gone})
           o == p.order \ {Rank(t) : t \in gone}
           c == [s \in {s \in DOMAIN counts : of(s) = 0 \/ counts[s] > of(s)} |-> counts[s] - of(s)]
           r == Removed(p, T)
<1>0. IsPool(p) /\ p.by_hash \subseteq Txs /\ Indexed(p) /\ Counted(p) /\ Limited(p)
  BY DEF PoolOK
<1>1. r = [p EXCEPT !.by_hash = h, !.by_sender_nonce = m, !.order = o, !.by_sender_count = c]
  BY <1>0 DEF Removed, IsPool
<1> HIDE DEF h, m, o, c, r
<1>2. r = [by_hash |-> h, by_sender_nonce |-> m, order |-> o, by_sender_count |-> c,
           highest_nonce |-> p.highest_nonce]
  BY <1>0, <1>1 DEF IsPool
<1>3. /\ IsPool(r) /\ r.by_hash = h /\ r.by_sender_nonce = m /\ r.order = o
      /\ r.by_sender_count = c
  BY <1>2 DEF IsPool
<1>4. h \subseteq p.by_hash /\ h = p.by_hash \ T
  BY DEF h
<1>5. \A u \in h : \A v \in gone : Key(u) # Key(v) /\ Rank(u) # Rank(v)
  BY <1>0, RankInjective DEF Indexed, h
<1>6. Indexed(r)
  <2>1. p.order = {Rank(t) : t \in p.by_hash}
    BY <1>0 DEF Indexed
  <2>2. o = {Rank(t) : t \in h}
    BY <1>5, <2>1 DEF o, h
  <2> DEFINE b == p.by_sender_nonce
             K == {Key(t) : t \in gone}
  <2>3. DOMAIN b = {Key(t) : t \in p.by_hash} /\ \A t \in p.by_hash : b[Key(t)] = t
    BY <1>0 DEF Indexed
  <2>4. DOMAIN m = DOMAIN b \ K /\ \A x \in DOMAIN b \ K : m[x] = b[x]
    BY DEF m, Without
  <2>5. DOMAIN m = {Key(t) : t \in h}
    BY <1>5, <2>3, <2>4 DEF h
  <2>6. \A t \in h : Key(t) \in DOMAIN b \ K /\ b[Key(t)] = t
    BY <1>4, <1>5, <2>3
  <2> HIDE DEF b, K
  <2>7. \A t \in h : m[Key(t)] = t
    BY <2>4, <2>6
  <2> QED
    BY <1>3, <2>2, <2>5, <2>7 DEF Indexed
<1>7. ASSUME NEW s \in Senders
      PROVE  /\ Cardinality(Of(r, s)) = Cardinality(Of(p, s)) - of(s)
             /\ Cardinality(Of(p, s)) \in Nat /\ of(s) \in Nat /\ of(s) <= Cardinality(Of(p, s))
  <2> DEFINE S == Of(p, s)
             G == {t \in gone : t.sender = s}
  <2>1. IsFiniteSet(S) /\ Cardinality(S) \in Nat
    BY <1>0, OfFinite
  <2>2. G \subseteq S /\ Of(r, s) = S \ G /\ S \cap G = G
    BY <1>3 DEF Of, h
  <2> HIDE DEF S, G
  <2>3. IsFiniteSet(G) /\ Cardinality(G) <= Cardinality(S)
    BY <2>1, <2>2, FS_Subset
  <2>4. Cardinality(S \ G) = Cardinality(S) - Cardinality(S \cap G)
    BY <2>1, FS_Difference
  <2>5. Cardinality(G) \in Nat
    BY <2>3, FS_CardinalityType
  <2> QED
    BY <2>1, <2>2, <2>3, <2>4, <2>5 DEF S, G
<1>8. Counted(r)
  <2> SUFFICES ASSUME NEW s \in Senders
               PROVE  /\ Lookup(c, s) = Cardinality(Of(r, s))
                      /\ Of(r, s) # {} => s \in DOMAIN c
    BY <1>3 DEF Counted
  <2>1. /\ Lookup(counts, s) = Cardinality(Of(p, s))
        /\ Of(p, s) # {} => s \in DOMAIN counts
    BY <1>0 DEF Counted
  <2>2. IsFiniteSet(Of(r, s)) /\ Cardinality({}) = 0 /\ (Cardinality(Of(r, s)) = 0 => Of(r, s) = {})
    <3>1. r.by_hash \subseteq Txs
      BY <1>0, <1>3, <1>4
    <3>2. IsFiniteSet(Of(r, s))
      BY <3>1, OfFinite
    <3> QED
      BY <3>2, FS_EmptySet
  <2> DEFINE n == of(s)
             a == Cardinality(Of(p, s))
  <2>3. n \in Nat /\ a \in Nat /\ n <= a /\ Cardinality(Of(r, s)) = a - n
    BY <1>7
  <2>4. /\ s \in DOMAIN c <=> (s \in DOMAIN counts /\ (n = 0 \/ counts[s] > n))
        /\ s \in DOMAIN c => c[s] = counts[s] - n
    BY DEF c
  <2> HIDE DEF n, a
  <2>5. CASE s \in DOMAIN counts
    <3>1. counts[s] = a
      BY <2>1, <2>5 DEF Lookup, a
    <3>2. CASE s \in DOMAIN c
      BY <2>3, <2>4, <3>1, <3>2 DEF Lookup
    <3>3. CASE s \notin DOMAIN c
      <4>1. a = n
        BY <2>3, <2>4, <2>5, <3>1, <3>3
      <4> QED
        BY <2>2, <2>3, <3>3, <4>1 DEF Lookup
    <3> QED
      BY <3>2, <3>3
  <2>6. CASE s \notin DOMAIN counts
    <3>1. a = 0 /\ n = 0 /\ s \notin DOMAIN c
      BY <2>1, <2>3, <2>4, <2>6 DEF Lookup, a
    <3> QED
      BY <2>2, <2>3, <3>1 DEF Lookup
  <2> QED
    BY <2>5, <2>6
<1>9. Limited(r)
  <2>1. MaxSize \in Nat /\ MaxPerSender \in Nat
    BY LimitsAssumption
  <2>2. IsFiniteSet(p.by_hash) /\ Cardinality(p.by_hash) \in Nat
    BY <1>0, SetsOfTxsFinite
  <2>3. IsFiniteSet(h) /\ Cardinality(h) <= Cardinality(p.by_hash)
    BY <1>4, <2>2, FS_Subset
  <2>4. Cardinality(h) \in Nat
    BY <2>3, FS_CardinalityType
  <2>5. Cardinality(p.by_hash) <= MaxSize /\ \A s \in Senders : Cardinality(Of(p, s)) <= MaxPerSender
    BY <1>0 DEF Limited
  <2>6. Cardinality(r.by_hash) <= MaxSize
    BY <1>3, <2>1, <2>2, <2>3, <2>4, <2>5
  <2>7. ASSUME NEW s \in Senders PROVE Cardinality(Of(r, s)) <= MaxPerSender
    <3> DEFINE n == of(s)
               a == Cardinality(Of(p, s))
    <3>1. n \in Nat /\ a \in Nat /\ Cardinality(Of(r, s)) = a - n
      BY <1>7
    <3>2. a <= MaxPerSender
      BY <2>5
    <3> HIDE DEF n, a
    <3> QED
      BY <2>1, <3>1, <3>2
  <2> QED
    BY <2>6, <2>7 DEF Limited
<1>10. PoolOK(r)
  BY <1>0, <1>3, <1>4, <1>6, <1>8, <1>9 DEF PoolOK
<1> QED
  BY <1>3, <1>4, <1>10 DEF r

-----------------------------------------------------------------------------
(* insert, and what it costs the others.                                   *)

\* t \in q.by_hash has lost its place in r: to a better paying transaction
\* with its key, or, the pool being full, as the one that pays least.
Outbid(q, r, t) ==
    \E u \in r.by_hash \ q.by_hash :
        /\ u.fee > t.fee
        /\ \/ Key(u) = Key(t)
           \/ /\ Cardinality(q.by_hash) = MaxSize
              /\ \A w \in q.by_hash : w.fee >= t.fee

LEMMA InsertOK ==
    ASSUME NEW p, PoolOK(p), NEW t \in Txs
    PROVE  /\ PoolOK(Insert(p, t))
           /\ \A x \in p.by_hash \ Insert(p, t).by_hash : Outbid(p, Insert(p, t), x)
<1> DEFINE r == Insert(p, t)
<1>0. /\ p.by_hash \subseteq Txs /\ Indexed(p) /\ Counted(p) /\ Limited(p)
  BY DEF PoolOK
<1>1. \A x \in Txs : x.fee \in Nat
  BY TxFields
<1>2. CASE r = p
  BY <1>2
<1>3. CASE t \notin p.by_hash /\ Key(t) \in DOMAIN p.by_sender_nonce /\ r # p
  <2> DEFINE old == p.by_sender_nonce[Key(t)]
  <2>1. old \in p.by_hash /\ Key(old) = Key(t)
    BY <1>0, <1>3 DEF Indexed
  <2>2. ~(t.fee <= old.fee) /\ r = Placed(Replaced(p, old), t, TRUE)
    BY <1>3 DEF Insert
  <2> HIDE DEF old, r
  <2>3. PoolOK(r) /\ r.by_hash = (p.by_hash \ {old}) \cup {t}
    BY <1>3, <2>1, <2>2, ReplacementOK
  <2>4. t.fee > old.fee
    BY <1>0, <1>1, <2>1, <2>2
  <2>5. \A x \in p.by_hash \ r.by_hash : x = old
    BY <2>3
  <2>6. Outbid(p, r, old)
    BY <1>3, <2>1, <2>3, <2>4 DEF Outbid
  <2> QED
    BY <2>3, <2>5, <2>6 DEF r
<1>4. CASE t \notin p.by_hash /\ Key(t) \notin DOMAIN p.by_sender_nonce /\ r # p
  <2>1. ~SenderLimit(p, t) /\ ~NonceGap(p, t)
    BY <1>4 DEF Insert
  <2>2. Cardinality(Of(p, t.sender)) < MaxPerSender
    <3>1. t.sender \in Senders /\ Cardinality(Of(p, t.sender)) \in Nat /\ MaxPerSender \in Nat
      BY <1>0, TxFields, OfFinite, LimitsAssumption
    <3> QED
      BY <1>0, <2>1, <3>1 DEF SenderLimit, Counted
  <2>3. IsFiniteSet(p.by_hash) /\ Cardinality(p.by_hash) \in Nat /\ MaxSize \in Nat \ {0}
    BY <1>0, SetsOfTxsFinite, LimitsAssumption
  <2>4. CASE Cardinality(p.by_hash) >= MaxSize
    <3> DEFINE low == Lowest(p)
               e == Evicted(p, low)
    <3>1. ~(t.fee <= low.fee) /\ r = Placed(e, t, FALSE)
      BY <1>4, <2>1, <2>4 DEF Insert
    <3>2. p.by_hash # {}
      BY <2>3, <2>4, FS_EmptySet
    <3>3. low \in p.by_hash /\ \A x \in p.by_hash : low.fee <= x.fee
      BY <1>0, <3>2, LowestPays DEF Indexed
    <3> HIDE DEF low, r
    <3>4. /\ PoolOK(e) /\ e.by_hash = p.by_hash \ {low}
          /\ DOMAIN e.by_sender_nonce \subseteq DOMAIN p.by_sender_nonce
          /\ Cardinality(e.by_hash) = Cardinality(p.by_hash) - 1
          /\ \A s \in Senders : Cardinality(Of(e, s)) <= Cardinality(Of(p, s))
      BY <3>3, EvictedOK
    <3> HIDE DEF e
    <3>5. Cardinality(p.by_hash) = MaxSize
      BY <1>0, <2>3, <2>4 DEF Limited
    <3>6. Cardinality(e.by_hash) < MaxSize
      BY <2>3, <3>4, <3>5
    <3>7. Cardinality(Of(e, t.sender)) < MaxPerSender
      <4>1. e.by_hash \subseteq Txs
        BY <3>4 DEF PoolOK
      <4>2. t.sender \in Senders
        BY TxFields
      <4>3. Cardinality(Of(e, t.sender)) \in Nat /\ Cardinality(Of(p, t.sender)) \in Nat
        BY <1>0, <4>1, OfFinite
      <4> QED
        BY <2>2, <3>4, <4>2, <4>3, LimitsAssumption
    <3>8. t \notin e.by_hash /\ Key(t) \notin DOMAIN e.by_sender_nonce
      BY <1>4, <3>4
    <3>9. PoolOK(r)
      BY <3>1, <3>4, <3>6, <3>7, <3>8, PlacedOK
    <3>10. r.by_hash = (p.by_hash \ {low}) \cup {t}
      BY <3>1, <3>4 DEF Placed
    <3>11. \A x \in p.by_hash \ r.by_hash : x = low
      BY <3>10
    <3>12. t.fee > low.fee /\ \A x \in p.by_hash : x.fee >= low.fee
      BY <1>0, <1>1, <3>1, <3>3
    <3>13. Outbid(p, r, low)
      BY <1>4, <3>5, <3>10, <3>12 DEF Outbid
    <3> QED
      BY <3>9, <3>11, <3>13 DEF r
  <2>5. CASE ~(Cardinality(p.by_hash) >= MaxSize)
    <3>1. r = Placed(p, t, FALSE)
      BY <1>4, <2>1, <2>5 DEF Insert
    <3> HIDE DEF r
    <3>2. Cardinality(p.by_hash) < MaxSize
      BY <2>3, <2>5
    <3>3. PoolOK(r)
      BY <1>4, <2>2, <3>1, <3>2, PlacedOK
    <3>4. r.by_hash = p.by_hash \cup {t}
      BY <3>1 DEF Placed
    <3> QED
      BY <3>3, <3>4 DEF r
  <2> QED
    BY <2>4, <2>5
<1>5. t \in p.by_hash => r = p
  BY DEF Insert
<1> QED
  BY <1>2, <1>3, <1>4, <1>5

-----------------------------------------------------------------------------
(* The steps.                                                              *)

\* A block that carries t carries every nonce of its sender up to t's, so
\* that committing it uses t's nonce up.
LEMMA CommitUses ==
    ASSUME nonce \in [Senders -> Nat], NEW h, NEW B \in Committable(h), NEW t \in B
    PROVE  nonce[t.sender] + Cardinality({u \in B : u.sender = t.sender}) > t.nonce
<1> DEFINE M == {u \in B : u.sender = t.sender}
           a == nonce[t.sender]
           b == t.nonce
           f == [k \in a..b |-> CHOOSE u \in M : u.nonce = k]
<1>1. B \subseteq Txs
  BY DEF Committable
<1>2. a \in Nat /\ b \in Nat /\ b >= a
  BY <1>1, TxFields DEF Committable
<1>3. IsFiniteSet(M) /\ Cardinality(M) \in Nat
  BY <1>1, SetsOfTxsFinite
<1>4. ASSUME NEW k \in a..b PROVE \E u \in M : u.nonce = k
  <2> DEFINE U == {u \in B : u.sender = t.sender /\ u.nonce = k}
  <2>1. Cardinality(U) = 1
    BY DEF Committable
  <2> HIDE DEF U
  <2>2. U # {}
    BY <2>1, FS_EmptySet
  <2> QED
    BY <2>2 DEF U
<1> HIDE DEF M, a, b
<1>5. \A k \in a..b : f[k] \in M /\ f[k].nonce = k
  BY <1>4
<1>6. f \in [a..b -> M]
  BY <1>5
<1>7. f \in Injection(a..b, M)
  <2>1. \A j, k \in a..b : f[j] = f[k] => j = k
    BY <1>5
  <2> HIDE DEF f
  <2> QED
    BY <1>6, <2>1 DEF Injection, IsInjective
<1> HIDE DEF f
<1>8. Cardinality(a..b) <= Cardinality(M)
  BY <1>3, <1>7, FS_Injection
<1>9. Cardinality(a..b) = b - a + 1
  BY <1>2, FS_Interval
<1> QED
  BY <1>2, <1>3, <1>8, <1>9 DEF M, a, b

\* What a step may take out of the pool, as FairExit says it.
ExitsFairly ==
    \A t \in pool.by_hash \ pool'.by_hash :
        \/ nonce'[t.sender] > t.nonce
        \/ Expired(t, height)
        \/ Outbid(pool, pool', t)
        \/ restarts' > restarts

LEMMA MempoolInitially == Init => MempoolInv
BY EmptyPoolOK DEF Init, MempoolInv

LEMMA MempoolStep ==
    ASSUME MempoolInv, [Next]_vars
    PROVE  MempoolInv' /\ ExitsFairly
<1>0. PoolOK(pool) /\ nonce \in [Senders -> Nat] /\ restarts \in Nat
  BY DEF MempoolInv
<1>1. ASSUME NEW t \in Txs, pool' = Insert(pool, t), UNCHANGED <<nonce, restarts>>
      PROVE  MempoolInv' /\ ExitsFairly
  <2>1. /\ PoolOK(pool')
        /\ \A x \in pool.by_hash \ pool'.by_hash : Outbid(pool, pool', x)
    BY <1>0, <1>1, InsertOK
  <2> QED
    BY <1>0, <1>1, <2>1 DEF MempoolInv, ExitsFairly
<1>2. CASE \E t \in Txs : SubmitTx(t) \/ GossipTx(t)
  BY <1>1, <1>2 DEF SubmitTx, GossipTx
<1>3. CASE Propose
  <2> DEFINE T == {t \in pool.by_hash : Expired(t, height)}
  <2>1. pool' = Removed(pool, T) /\ UNCHANGED <<nonce, restarts>>
    BY <1>3 DEF Propose, EvictExpired
  <2> HIDE DEF T
  <2>2. PoolOK(pool') /\ pool'.by_hash = pool.by_hash \ T
    BY <1>0, <2>1, RemovedOK
  <2>3. \A t \in pool.by_hash \ pool'.by_hash : Expired(t, height)
    BY <2>2 DEF T
  <2> QED
    BY <1>0, <2>1, <2>2, <2>3 DEF MempoolInv, ExitsFairly
<1>4. CASE CommitBlock
  <2>1. PICK B \in Committable(height) :
          /\ pool' = Removed(pool, B)
          /\ nonce' = [s \in Senders |-> nonce[s] + Cardinality({t \in B : t.sender = s})]
    BY <1>4 DEF CommitBlock
  <2>2. B \subseteq Txs /\ restarts' = restarts
    BY <1>4 DEF Committable, CommitBlock
  <2>3. PoolOK(pool') /\ pool'.by_hash = pool.by_hash \ B
    BY <1>0, <2>1, RemovedOK
  <2>4. ASSUME NEW s \in Senders PROVE Cardinality({t \in B : t.sender = s}) \in Nat
    <3>1. {t \in B : t.sender = s} \subseteq Txs
      BY <2>2
    <3> QED
      BY <3>1, SetsOfTxsFinite
  <2>5. nonce' \in [Senders -> Nat]
    BY <1>0, <2>1, <2>4
  <2>6. ASSUME NEW t \in pool.by_hash \ pool'.by_hash PROVE nonce'[t.sender] > t.nonce
    <3>1. t \in B
      BY <2>3
    <3>2. nonce[t.sender] + Cardinality({u \in B : u.sender = t.sender}) > t.nonce
      BY <1>0, <3>1, CommitUses
    <3>3. t.sender \in Senders
      BY <2>2, <3>1, TxFields
    <3> QED
      BY <2>1, <3>2, <3>3
  <2> QED
    BY <1>0, <2>2, <2>3, <2>5, <2>6 DEF MempoolInv, ExitsFairly
<1>5. CASE Restart
  <2>1. PoolOK(pool') /\ nonce' = nonce /\ restarts' = restarts + 1
    BY <1>5, EmptyPoolOK DEF Restart
  <2>2. restarts' > restarts /\ restarts' \in Nat
    BY <1>0, <2>1
  <2> QED
    BY <1>0, <2>1, <2>2 DEF MempoolInv, ExitsFairly
<1>6. CASE UNCHANGED vars
  BY <1>6 DEF vars, MempoolInv, ExitsFairly
<1> QED
  BY <1>2, <1>3, <1>4, <1>5, <1>6 DEF Next

-----------------------------------------------------------------------------
(* Theorems.                                                               *)

(* Through every sequence of submissions, gossip, replacements, evictions, *)
(* expiries, commits and restarts the five indexes of Inner describe the   *)
(* same set of transactions, so that no expect() of insert fails and no    *)
(* sender's count drifts.                                                  *)
THEOREM IndexesAgreeTheorem == Spec => []IndexesAgree
<1>1. MempoolInv => IndexesAgree
  BY DEF MempoolInv, PoolOK, Indexed, Counted, IndexesAgree, Of, OfSender
<1> QED
  BY <1>1, MempoolInitially, MempoolStep, PTL DEF Spec

(* MAX_MEMPOOL_SIZE and MAX_PER_SENDER hold for all values of both, also   *)
(* right after a replacement, which checks neither, and after an eviction, *)
(* which makes room for another sender.                                    *)
THEOREM WithinLimitsTheorem == Spec => []WithinLimits
<1>1. MempoolInv => WithinLimits
  BY DEF MempoolInv, PoolOK, Limited, WithinLimits, Of, OfSender
<1> QED
  BY <1>1, MempoolInitially, MempoolStep, PTL DEF Spec

(* No transaction is dropped without cause: it leaves the pool when its    *)
(* nonce is used, when it has expired, when one that pays more takes its   *)
(* slot, when it pays least and a full pool admits one that pays more, or  *)
(* when the node restarts.                                                 *)
THEOREM FairExitTheorem == Spec => FairExit
<1>1. ASSUME MempoolInv, [Next]_vars
      PROVE  [\A t \in pool.by_hash \ pool'.by_hash :
                 \/ nonce'[t.sender] > t.nonce
                 \/ Expired(t, height)
                 \/ \E u \in pool'.by_hash \ pool.by_hash :
                       /\ u.fee > t.fee
                       /\ \/ Key(u) = Key(t)
                          \/ /\ Cardinality(pool.by_hash) = MaxSize
                             /\ \A w \in pool.by_hash : w.fee >= t.fee
                 \/ restarts' > restarts]_vars
  BY <1>1, MempoolStep DEF ExitsFairly, Outbid
<1> QED
  BY <1>1, MempoolInitially, MempoolStep, PTL DEF Spec, FairExit

=============================================================================
