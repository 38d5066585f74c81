----------------------------- MODULE SyncProofs -----------------------------
(***************************************************************************)
(* Block sync for any connections, scores, batch sizes and heights: what   *)
(* is awaited is on its way, blocks are asked for in the order of the      *)
(* chain, and the gossip task ends only for the causes the code has.       *)
(*                                                                         *)
(* The invariant relates SyncState to the messages on the wires.  Request  *)
(* ids are fresh, so a message with the id that is awaited is the request  *)
(* or its answer, and is on the wire of the active peer.  As long as no    *)
(* two imports overlap, the engine's height and the stored chain are in    *)
(* line.                                                                   *)
(***************************************************************************)
EXTENDS Sync, FiniteSetTheorems, SequenceTheorems, WellFoundedInduction, TLAPS

Message ==
    [type : {"Request"}, id : Nat, kind : {"Headers", "Block"}, start : Nat, limit : Nat]
    \cup [type : {"Headers"}, id : Nat, from : Nat, to : Int]
    \cup [type : {"Block"}, id : Nat, height : Nat]

Wires == [Conns -> SUBSET Message]

PeerEntry ==
    [score : Int, best_height : Nat, is_outbound : BOOLEAN, banned : BOOLEAN,
     node_id : {NodeOf[c] : c \in Conns}]

Imports ==
    [Importers -> [at : {"idle", "taken", "prepared", "stored"}, height : Nat,
                   from : Conns \cup {NoPeer}]]

NetOK ==
    /\ conn \in [Conns -> {"new", "checked", "open", "banned", "closed"}]
    /\ DOMAIN table \subseteq Conns
    /\ table \in [DOMAIN table -> PeerEntry]
    /\ wire \in Wires
    /\ sent \in [Conns -> Nat]
    /\ local \in Nat /\ tip \in Nat /\ engine \in Nat
    /\ importing \in Imports
    /\ trouble \in BOOLEAN /\ gossip \in BOOLEAN
    /\ raced \in BOOLEAN /\ missed \in BOOLEAN /\ refused \in BOOLEAN

\* Who is connected is in the table and, as long as nothing went wrong, can be
\* sent to.
Connected ==
    /\ \A c \in Conns : conn[c] \in {"open", "banned"} => c \in DOMAIN table
    /\ ~trouble => /\ DOMAIN table \subseteq sinks
                   /\ \A c \in Conns : conn[c] # "banned"

Awaited(s) == s.pending_headers \cup s.pending_block

\* SyncState: one request at a time, and no headers while blocks are queued.
SyncOK(s) ==
    /\ s = [active_peer |-> s.active_peer, target_height |-> s.target_height,
            pending_headers |-> s.pending_headers, pending_block |-> s.pending_block,
            queued_heights |-> s.queued_heights]
    /\ s.target_height \in Nat
    /\ s.queued_heights \in Seq(Nat)
    /\ s.pending_headers \in SUBSET [id : Nat, start : Nat, limit : Nat]
    /\ s.pending_block \in SUBSET [id : Nat, height : Nat]
    /\ s.pending_headers = {} \/ s.pending_block = {}
    /\ \A p, q \in s.pending_headers : p = q
    /\ \A p, q \in s.pending_block : p = q
    /\ s.pending_headers # {} => s.queued_heights = << >>
    /\ Awaited(s) # {} => s.active_peer \in Conns

IdsUnique(w) ==
    \A c, d \in Conns : \A m \in w[c], q \in w[d] : m.id = q.id => c = d /\ m = q

\* m is the request for p, or the answer to it.
ForHeaders(m, p) ==
    \/ m.type = "Request" /\ m.kind = "Headers" /\ m.start = p.start /\ m.limit = p.limit
    \/ m.type = "Headers" /\ m.from = p.start /\ m.to < p.start + p.limit

ForBlock(m, p) ==
    \/ m.type = "Request" /\ m.kind = "Block" /\ m.start = p.height
    \/ m.type = "Block" /\ m.height \in {0, p.height}

Matches(s, w) ==
    \A c \in Conns : \A m \in w[c] :
        /\ \A p \in s.pending_headers : p.id = m.id => c = s.active_peer /\ ForHeaders(m, p)
        /\ \A p \in s.pending_block : p.id = m.id => c = s.active_peer /\ ForBlock(m, p)

Comes(s, w) == \A p \in Awaited(s) : \E m \in w[s.active_peer] : m.id = p.id

\* The gossip task imports a block of a peer it can go on asking.
GossipImports ==
    ~Idle("gossip") =>
        /\ gossip /\ importing["gossip"].from \in Conns
        /\ ~trouble => importing["gossip"].from \in DOMAIN table

Stored == \E t \in Importers : importing[t].at = "stored"

\* One import at a time: the stored chain, the engine's height and the block
\* being imported are in line.
Lined ==
    /\ Idle("gossip") \/ Idle("consensus")
    /\ \A t \in Importers :
          /\ importing[t].at = "prepared" => importing[t].height = local + 1
          /\ importing[t].at = "stored" => importing[t].height = local
    /\ Stored => engine = local
    /\ ~Stored => engine = local + 1

\* BlocksFollow, for one state and one height.
Follows(s, h) ==
    /\ \A i \in 1..(Len(s.queued_heights) - 1) :
          s.queued_heights[i + 1] = s.queued_heights[i] + 1
    /\ \A p \in s.pending_block :
          /\ p.height <= h + 1
          /\ s.queued_heights # << >> => s.queued_heights[1] = p.height + 1
    /\ s.pending_block = {} /\ s.queued_heights # << >> => s.queued_heights[1] <= h + 1

\* The headers awaited follow the chain of height h.
Timely(s, h) == \A p \in s.pending_headers : p.start = h + 1

InOrder == gossip /\ ~missed /\ ~raced => Follows(sync, Reach) /\ Reach <= local + 1

IdsOK == IsFiniteSet(InUse) /\ InUse \subseteq Nat

SyncInv ==
    /\ NetOK /\ Connected /\ IdsOK /\ SyncOK(sync)
    /\ IdsUnique(wire) /\ Matches(sync, wire)
    /\ ~trouble /\ gossip => Comes(sync, wire)
    /\ GossipImports /\ InOrder
    /\ ~raced => Timely(sync, local) /\ Lined
    /\ EndsOnlyWithCause

-----------------------------------------------------------------------------
(* Request ids.                                                            *)

\* A set of numbers that is not empty has a least one.
LEMMA LeastNumber ==
    ASSUME NEW S, S \subseteq Nat, S # {}
    PROVE  \E n \in S : \A m \in S : n <= m
<1> DEFINE R == OpToRel(<, Nat)
<1>1. IsWellFoundedOn(R, Nat)
  BY NatLessThanWellFounded, Zenon
<1>2. \A m, n \in Nat : m < n => <<m, n>> \in R
  BY DEF OpToRel
<1> HIDE DEF R
<1>3. PICK n \in S : \A m \in S : ~(<<m, n>> \in R)
  BY <1>1, WFMin
<1>4. \A m \in S : ~(m < n)
  BY <1>2, <1>3
<1> QED
  BY <1>4

\* Among the first numbers, one more than there are ids in use, one is free.
LEMMA FreshId ==
    ASSUME IdsOK
    PROVE  NextRequestId \in Nat /\ NextRequestId \notin InUse
<1> DEFINE k == Cardinality(InUse)
           Free == {i \in 0..k : i \notin InUse}
<1>1. k \in Nat
  BY FS_CardinalityType DEF IdsOK
<1>2. Free # {}
  <2> SUFFICES ASSUME Free = {} PROVE FALSE
    OBVIOUS
  <2>1. 0..k \in SUBSET InUse
    OBVIOUS
  <2>2. Cardinality(0..k) <= k
    BY <2>1, FS_Subset DEF IdsOK
  <2>3. Cardinality(0..k) = k + 1
    BY <1>1, FS_Interval
  <2> QED
    BY <1>1, <2>2, <2>3
<1>a. Free \subseteq Nat
  BY <1>1
<1> HIDE DEF Free
<1>3. PICK i \in Free : \A j \in Free : i <= j
  BY <1>2, <1>a, LeastNumber
<1> USE DEF Free
<1>4. i \in 0..k /\ i \notin InUse /\ \A j \in 0..(i - 1) : j \in InUse
  BY <1>1, <1>3
<1> DEFINE P(j) == j \notin InUse /\ \A l \in 0..(j - 1) : l \in InUse
<1>5. NextRequestId = CHOOSE j \in 0..k : P(j)
  BY DEF NextRequestId
<1>6. \E j \in 0..k : P(j)
  BY <1>4
<1> HIDE DEF P
<1>7. NextRequestId \in 0..k /\ P(NextRequestId)
  BY <1>5, <1>6
<1> QED
  BY <1>1, <1>7 DEF P

LEMMA IdsInUse ==
    /\ \A c \in Conns : \A m \in wire[c] : m.id \in InUse
    /\ \A p \in Awaited(sync) : p.id \in InUse
BY DEF InUse, Awaited

-----------------------------------------------------------------------------
(* continue_sync.                                                          *)

Asked(s, i) ==
    [type |-> "Request", id |-> i, kind |-> "Block", start |-> Head(s.queued_heights), limit |-> 1]

AskedHeaders(s, i, h) ==
    [type |-> "Request", id |-> i, kind |-> "Headers", start |-> h + 1,
     limit |-> AtMost(s.target_height - h, BatchLimit)]

\* What continue_sync does: nothing, ask for the next block, or for headers.
LEMMA ContinueCases ==
    ASSUME NEW s, NEW c, NEW h, NEW w, SyncOK(s), ThenContinue(s, c, h, w)
    PROVE  \/ sync' = s /\ wire' = w
           \/ /\ s.active_peer = c /\ Awaited(s) = {} /\ s.queued_heights # << >>
              /\ sync' = [active_peer |-> c, target_height |-> s.target_height,
                          pending_headers |-> {},
                          pending_block |-> {[id |-> NextRequestId,
                                              height |-> Head(s.queued_heights)]},
                          queued_heights |-> Tail(s.queued_heights)]
              /\ wire' = SentTo(w, c, Asked(s, NextRequestId))
           \/ /\ s.active_peer = c /\ Awaited(s) = {} /\ s.queued_heights = << >>
              /\ s.target_height > h
              /\ sync' = [active_peer |-> c, target_height |-> s.target_height,
                          pending_headers |->
                             {[id |-> NextRequestId, start |-> h + 1,
                               limit |-> AtMost(s.target_height - h, BatchLimit)]},
                          pending_block |-> {}, queued_heights |-> << >>]
              /\ wire' = SentTo(w, c, AskedHeaders(s, NextRequestId, h))
<1> DEFINE i == NextRequestId
<1> HIDE DEF i
<1>1. CASE Waits(s, c)
  BY <1>1 DEF ThenContinue, ContinueSync
<1>2. CASE ~Waits(s, c) /\ s.queued_heights # << >>
  <2>1. s.active_peer = c /\ Awaited(s) = {} /\ s.pending_headers = {}
    BY <1>2 DEF Waits, Awaited
  <2>2. ContinueSync(s, c, h) =
            [sync |-> [s EXCEPT !.queued_heights = Tail(@),
                        !.pending_block = {[id |-> i, height |-> Head(s.queued_heights)]}],
             request |-> {Asked(s, i)}]
    BY <1>2 DEF ContinueSync, Asked, i
  <2>3. sync' = [s EXCEPT !.queued_heights = Tail(@),
                        !.pending_block = {[id |-> i, height |-> Head(s.queued_heights)]}]
    BY <2>2 DEF ThenContinue
  <2>4. wire' = SentTo(w, c, Asked(s, i))
    BY <2>2 DEF ThenContinue
  <2>5. sync' = [active_peer |-> c, target_height |-> s.target_height,
                 pending_headers |-> {},
                 pending_block |-> {[id |-> i, height |-> Head(s.queued_heights)]},
                 queued_heights |-> Tail(s.queued_heights)]
    BY <2>1, <2>3 DEF SyncOK
  <2> QED
    BY <1>2, <2>1, <2>4, <2>5 DEF i
<1>3. CASE ~Waits(s, c) /\ s.queued_heights = << >> /\ s.target_height > h
  <2> DEFINE l == AtMost(s.target_height - h, BatchLimit)
  <2> HIDE DEF l
  <2>1. s.active_peer = c /\ Awaited(s) = {} /\ s.pending_block = {}
    BY <1>3 DEF Waits, Awaited
  <2>2. ContinueSync(s, c, h) =
            [sync |-> [s EXCEPT !.pending_headers = {[id |-> i, start |-> h + 1, limit |-> l]}],
             request |-> {AskedHeaders(s, i, h)}]
    BY <1>3 DEF ContinueSync, AskedHeaders, i, l
  <2>3. sync' = [s EXCEPT !.pending_headers = {[id |-> i, start |-> h + 1, limit |-> l]}]
    BY <2>2 DEF ThenContinue
  <2>4. wire' = SentTo(w, c, AskedHeaders(s, i, h))
    BY <2>2 DEF ThenContinue
  <2>5. sync' = [active_peer |-> c, target_height |-> s.target_height,
                 pending_headers |-> {[id |-> i, start |-> h + 1, limit |-> l]},
                 pending_block |-> {}, queued_heights |-> << >>]
    BY <1>3, <2>1, <2>3 DEF SyncOK
  <2> QED
    BY <1>3, <2>1, <2>4, <2>5 DEF i, l
<1>4. CASE ~Waits(s, c) /\ s.queued_heights = << >> /\ ~(s.target_height > h)
  BY <1>4 DEF ThenContinue, ContinueSync
<1> QED
  BY <1>1, <1>2, <1>3, <1>4

\* Sending a message with a new id.
LEMMA SentWire ==
    ASSUME NEW w \in Wires, NEW c \in Conns, NEW m \in Message, IdsUnique(w),
           \A d \in Conns : \A q \in w[d] : q.id # m.id
    PROVE  /\ SentTo(w, c, m) \in Wires
           /\ \A d \in Conns : \A q \in SentTo(w, c, m)[d] : q \in w[d] \/ (d = c /\ q = m)
           /\ \A d \in Conns : w[d] \subseteq SentTo(w, c, m)[d]
           /\ c \in sinks => m \in SentTo(w, c, m)[c]
           /\ IdsUnique(SentTo(w, c, m))
<1> DEFINE v == SentTo(w, c, m)
<1>1. v \in Wires
  BY DEF SentTo, Wires
<1>2. \A d \in Conns : \A q \in v[d] : q \in w[d] \/ (d = c /\ q = m)
  BY DEF SentTo, Wires
<1>3. \A d \in Conns : w[d] \subseteq v[d]
  BY DEF SentTo, Wires
<1>4. c \in sinks => m \in v[c]
  BY DEF SentTo, Wires
<1> HIDE DEF v
<1>5. IdsUnique(v)
  BY <1>2 DEF IdsUnique
<1> QED
  BY <1>1, <1>2, <1>3, <1>4, <1>5 DEF v

\* The messages a node sends are messages.
LEMMA RequestsTyped ==
    ASSUME NEW s, SyncOK(s), NEW i \in Nat, NEW h \in Nat
    PROVE  /\ s.queued_heights # << >> => Asked(s, i) \in Message
           /\ s.target_height > h => /\ AskedHeaders(s, i, h) \in Message
                                     /\ AtMost(s.target_height - h, BatchLimit) \in Nat
<1>1. ASSUME s.queued_heights # << >> PROVE Asked(s, i) \in Message
  <2>1. Head(s.queued_heights) \in Nat
    BY <1>1 DEF SyncOK
  <2> QED
    BY <2>1 DEF Asked, Message
<1>2. ASSUME s.target_height > h
      PROVE  AskedHeaders(s, i, h) \in Message /\ AtMost(s.target_height - h, BatchLimit) \in Nat
  <2>1. AtMost(s.target_height - h, BatchLimit) \in Nat
    BY <1>2, SyncAssumption DEF SyncOK, AtMost
  <2> QED
    BY <2>1 DEF AskedHeaders, Message
<1> QED
  BY <1>1, <1>2

(* A good state stays one when continue_sync has done its part.  s and w   *)
(* are the state and the wires the handler has left to it.                 *)
LEMMA ContinueKeeps ==
    ASSUME NEW s, NEW c \in Conns, NEW h \in Nat, NEW w \in Wires,
           SyncOK(s), ThenContinue(s, c, h, w), IdsOK,
           \A d \in Conns : w[d] \subseteq wire[d],
           Awaited(s) \subseteq Awaited(sync),
           IdsUnique(w), Matches(s, w)
    PROVE  /\ wire' \in Wires /\ SyncOK(sync')
           /\ IdsUnique(wire') /\ Matches(sync', wire')
           /\ c \in sinks /\ Comes(s, w) => Comes(sync', wire')
           /\ \A r \in Nat : Follows(s, r) => Follows(sync', r)
           /\ Timely(s, h) => Timely(sync', h)
           /\ IdsOK'
<1> DEFINE i == NextRequestId
           q == s.queued_heights
           l == AtMost(s.target_height - h, BatchLimit)
<1> HIDE DEF i, l
<1>1. i \in Nat /\ i \notin InUse
  BY FreshId DEF i
<1>2. \A d \in Conns : \A m \in w[d] : m.id \in InUse /\ m.id # i
  BY <1>1, IdsInUse
<1>3. \A p \in Awaited(s) : p.id \in InUse
  BY IdsInUse
<1>4. ASSUME wire' \in Wires, SyncOK(sync'), IdsUnique(wire'),
             \A d \in Conns : \A m \in wire'[d] : m.id \in InUse \cup {i},
             \A p \in Awaited(sync') : p.id \in InUse \cup {i}
      PROVE  IdsOK'
  <2>1. InUse' \subseteq InUse \cup {i}
    BY <1>4 DEF InUse, Awaited
  <2>2. IsFiniteSet(InUse \cup {i})
    BY FS_AddElement DEF IdsOK
  <2>3. IsFiniteSet(InUse')
    BY <2>1, <2>2, FS_Subset
  <2> QED
    BY <1>1, <2>1, <2>3 DEF IdsOK
<1>5. CASE sync' = s /\ wire' = w
  <2>1. IdsOK'
    BY <1>2, <1>3, <1>4, <1>5
  <2> QED
    BY <1>5, <2>1
<1>6. CASE /\ s.active_peer = c /\ Awaited(s) = {} /\ q # << >>
           /\ sync' = [active_peer |-> c, target_height |-> s.target_height,
                       pending_headers |-> {}, pending_block |-> {[id |-> i, height |-> Head(q)]},
                       queued_heights |-> Tail(q)]
           /\ wire' = SentTo(w, c, Asked(s, i))
  <2> DEFINE p == [id |-> i, height |-> Head(q)]
             m == Asked(s, i)
  <2>1. q \in Seq(Nat) /\ Head(q) \in Nat /\ Tail(q) \in Seq(Nat)
    BY <1>6 DEF SyncOK
  <2>2. m \in Message /\ m.id = i /\ m.type = "Request" /\ m.kind = "Block" /\ m.start = Head(q)
    BY <1>1, <1>6, RequestsTyped DEF Asked
  <2>3. p \in [id : Nat, height : Nat] /\ p.id = i /\ p.height = Head(q)
    BY <1>1, <2>1
  <2> HIDE DEF p, m
  <2>4. /\ wire' \in Wires /\ IdsUnique(wire')
        /\ \A d \in Conns : \A n \in wire'[d] : n \in w[d] \/ (d = c /\ n = m)
        /\ c \in sinks => m \in wire'[c]
    BY <1>2, <1>6, <2>2, SentWire DEF m
  <2>5. /\ sync'.active_peer = c /\ sync'.target_height = s.target_height
        /\ sync'.pending_headers = {} /\ sync'.pending_block = {p}
        /\ sync'.queued_heights = Tail(q)
    BY <1>6 DEF p
  <2>6. sync' = [active_peer |-> sync'.active_peer, target_height |-> sync'.target_height,
            pending_headers |-> sync'.pending_headers, pending_block |-> sync'.pending_block,
            queued_heights |-> sync'.queued_heights]
    BY <1>6
  <2>7. SyncOK(sync')
    BY <2>1, <2>3, <2>5, <2>6 DEF SyncOK
  <2>8. Matches(sync', wire')
    BY <1>2, <2>2, <2>3, <2>4, <2>5 DEF Matches, ForBlock
  <2>9. c \in sinks => Comes(sync', wire')
    BY <2>2, <2>3, <2>4, <2>5 DEF Comes, Awaited
  <2>10. \A r \in Nat : Follows(s, r) => Follows(sync', r)
    <3> SUFFICES ASSUME NEW r \in Nat, Follows(s, r) PROVE Follows(sync', r)
      OBVIOUS
    <3>1. Len(Tail(q)) = Len(q) - 1 /\ \A j \in 1..Len(Tail(q)) : Tail(q)[j] = q[j + 1]
      BY <1>6, <2>1
    <3>2. s.pending_block = {} /\ q[1] <= r + 1 /\ Head(q) = q[1]
      BY <1>6, <2>1 DEF Follows, Awaited
    <3>3. \A j \in 1..(Len(q) - 1) : q[j + 1] = q[j] + 1
      BY DEF Follows
    <3>4. \A j \in 1..(Len(Tail(q)) - 1) : Tail(q)[j + 1] = Tail(q)[j] + 1
      BY <2>1, <3>1, <3>3
    <3>5. ASSUME Tail(q) # << >> PROVE Tail(q)[1] = Head(q) + 1
      <4>1. Len(Tail(q)) >= 1 /\ Len(q) \in Nat
        <5> DEFINE T == Tail(q)
        <5>a. Len(q) \in Nat
          BY <2>1
        <5>b. T \in Seq(Nat) /\ T # << >>
          BY <2>1, <3>5, Zenon
        <5>1. T \in Seq(Nat) /\ T # << >> /\ Len(q) \in Nat
          BY <5>a, <5>b, Zenon
        <5> HIDE DEF T
        <5>2. Len(T) >= 1
          BY <5>1
        <5> QED
          BY <5>1, <5>2 DEF T
      <4>2. 1 \in 1..Len(Tail(q)) /\ 1 \in 1..(Len(q) - 1)
        BY <3>1, <4>1
      <4>3. Tail(q)[1] = q[1 + 1] /\ q[1 + 1] = q[1] + 1
        BY <3>1, <3>3, <4>2
      <4> QED
        BY <3>2, <4>3
    <3> QED
      BY <2>3, <2>5, <3>2, <3>4, <3>5 DEF Follows
  <2>11. Timely(sync', h)
    BY <2>5 DEF Timely
  <2>12. IdsOK'
    BY <1>2, <1>4, <2>2, <2>3, <2>4, <2>5, <2>7 DEF Awaited
  <2> QED
    BY <2>4, <2>7, <2>8, <2>9, <2>10, <2>11, <2>12
<1>7. CASE /\ s.active_peer = c /\ Awaited(s) = {} /\ q = << >> /\ s.target_height > h
           /\ sync' = [active_peer |-> c, target_height |-> s.target_height,
                       pending_headers |-> {[id |-> i, start |-> h + 1, limit |-> l]},
                       pending_block |-> {}, queued_heights |-> << >>]
           /\ wire' = SentTo(w, c, AskedHeaders(s, i, h))
  <2> DEFINE p == [id |-> i, start |-> h + 1, limit |-> l]
             m == AskedHeaders(s, i, h)
  <2>1. l \in Nat
    BY <1>7, RequestsTyped, <1>1 DEF l
  <2>2. m \in Message /\ m.id = i /\ m.type = "Request" /\ m.kind = "Headers" /\ m.start = h + 1
        /\ m.limit = l
    BY <1>1, <1>7, RequestsTyped DEF AskedHeaders, l
  <2>3. p \in [id : Nat, start : Nat, limit : Nat] /\ p.id = i /\ p.start = h + 1 /\ p.limit = l
    BY <1>1, <2>1
  <2> HIDE DEF p, m
  <2>4. /\ wire' \in Wires /\ IdsUnique(wire')
        /\ \A d \in Conns : \A n \in wire'[d] : n \in w[d] \/ (d = c /\ n = m)
        /\ c \in sinks => m \in wire'[c]
    BY <1>2, <1>7, <2>2, SentWire DEF m
  <2>5. /\ sync'.active_peer = c /\ sync'.target_height = s.target_height
        /\ sync'.pending_headers = {p} /\ sync'.pending_block = {}
        /\ sync'.queued_heights = << >>
    BY <1>7 DEF p
  <2>6. sync' = [active_peer |-> sync'.active_peer, target_height |-> sync'.target_height,
            pending_headers |-> sync'.pending_headers, pending_block |-> sync'.pending_block,
            queued_heights |-> sync'.queued_heights]
    BY <1>7
  <2>7. SyncOK(sync')
    BY <2>3, <2>5, <2>6 DEF SyncOK
  <2>8. Matches(sync', wire')
    BY <1>2, <2>2, <2>3, <2>4, <2>5 DEF Matches, ForHeaders
  <2>9. c \in sinks => Comes(sync', wire')
    BY <2>2, <2>3, <2>4, <2>5 DEF Comes, Awaited
  <2>10. \A r \in Nat : Follows(sync', r)
    BY <2>5 DEF Follows
  <2>11. Timely(sync', h)
    BY <2>3, <2>5 DEF Timely
  <2>12. IdsOK'
    BY <1>2, <1>4, <2>2, <2>3, <2>4, <2>5, <2>7 DEF Awaited
  <2> QED
    BY <2>4, <2>7, <2>8, <2>9, <2>10, <2>11, <2>12
<1> QED
  BY <1>5, <1>6, <1>7, ContinueCases DEF i, l

-----------------------------------------------------------------------------
(* The best peer.                                                          *)

LEMMA BetterOrders ==
    ASSUME NetOK, NEW c \in DOMAIN table, NEW d \in DOMAIN table, NEW e \in DOMAIN table
    PROVE  /\ Better(c, c)
           /\ Better(c, d) \/ Better(d, c)
           /\ Better(c, d) /\ Better(d, e) => Better(c, e)
<1>1. \A x \in {c, d, e} : /\ table[x].best_height \in Int /\ table[x].score \in Int
                           /\ x \in Int
  BY ConnsAssumption DEF NetOK, PeerEntry
<1> QED
  BY <1>1 DEF Better

\* max_by_key finds one: by induction on the number of peers.
LEMMA BestExists ==
    ASSUME NetOK, NEW S, S \subseteq DOMAIN table, S # {}
    PROVE  \E c \in S : \A d \in S : Better(c, d)
<1> DEFINE HasBest(T) == \E c \in T : \A d \in T : Better(c, d)
           Bad == {k \in Nat : \E T \in SUBSET S : T # {} /\ Cardinality(T) = k /\ ~HasBest(T)}
<1>1. \A T \in SUBSET S : IsFiniteSet(T) /\ Cardinality(T) \in Nat
  BY FS_Subset, FS_CardinalityType, ConnsAssumption DEF NetOK
<1>2. SUFFICES ASSUME Bad # {} PROVE FALSE
  BY <1>1
<1>3. Bad \subseteq Nat
  OBVIOUS
<1> HIDE DEF Bad
<1>4. PICK k \in Bad : \A j \in Bad : k <= j
  BY <1>2, <1>3, LeastNumber
<1> USE DEF Bad
<1>5. PICK T \in SUBSET S : T # {} /\ Cardinality(T) = k /\ ~HasBest(T)
  BY <1>4
<1>6. PICK x : x \in T
  BY <1>5
<1> DEFINE U == T \ {x}
<1>7. U \in SUBSET S /\ Cardinality(U) = k - 1
  BY <1>1, <1>5, <1>6, FS_RemoveElement
<1>8. k - 1 \in Nat
  BY <1>1, <1>7
<1>9. HasBest(U) \/ U = {}
  <2>1. k - 1 \notin Bad
    BY <1>4, <1>8
  <2> QED
    BY <1>7, <1>8, <2>1
<1>10. HasBest(T)
  <2>1. CASE U = {}
    BY <1>5, <1>6, <2>1, BetterOrders
  <2>2. CASE HasBest(U)
    <3>1. PICK y \in U : \A d \in U : Better(y, d)
      BY <2>2
    <3>2. x \in DOMAIN table /\ y \in DOMAIN table /\ y \in T /\ T \subseteq DOMAIN table
      BY <1>6, <3>1
    <3>3. CASE Better(y, x)
      BY <3>1, <3>2, <3>3
    <3>4. CASE Better(x, y)
      <4>1. \A d \in T : Better(x, d)
        BY <3>1, <3>2, <3>4, BetterOrders
      <4> QED
        BY <1>6, <4>1
    <3> QED
      BY <3>2, <3>3, <3>4, BetterOrders
  <2> QED
    BY <1>9, <2>1, <2>2
<1> QED
  BY <1>5, <1>10

-----------------------------------------------------------------------------
(* Connections and messages.                                               *)

\* A step that leaves SyncState, the wires and the chain alone.
LEMMA QuietKeeps ==
    ASSUME SyncInv, UNCHANGED <<sync, wire, chainVars, gossip, raced, missed, refused>>,
           NetOK', Connected', trouble => trouble',
           trouble' \/ DOMAIN table \subseteq DOMAIN table'
    PROVE  SyncInv'
<1>1. UNCHANGED <<Reach, Stored, Idle("gossip"), Idle("consensus")>>
  BY DEF Reach, Stored, Idle, chainVars
<1>2. GossipImports'
  BY DEF SyncInv, GossipImports, Idle, chainVars
<1>3. InOrder' /\ EndsOnlyWithCause'
  BY <1>1 DEF SyncInv, InOrder, EndsOnlyWithCause, chainVars
<1>4. (~raced => Timely(sync, local) /\ Lined)'
  BY <1>1 DEF SyncInv, Lined, chainVars
<1>5. IdsOK'
  BY DEF SyncInv, IdsOK, InUse
<1> QED
  BY <1>2, <1>3, <1>4, <1>5 DEF SyncInv

Told(m) == m.type \in {"Headers", "Block"}
           \/ (m.type \in {"Status", "Commit"} /\ m.height \in Nat)

LEMMA ReceiveKeeps ==
    ASSUME NetOK, Connected, NEW c \in Conns, NEW m, Told(m), Receive(c, m)
    PROVE  /\ conn' \in [Conns -> {"new", "checked", "open", "banned", "closed"}]
           /\ DOMAIN table' = DOMAIN table
           /\ table' \in [DOMAIN table -> PeerEntry]
           /\ trouble' \in BOOLEAN /\ (trouble => trouble')
           /\ Connected'
           /\ c \in DOMAIN table /\ sinks' = sinks
<1> DEFINE seen == Observe(table[c], m)
           score == IF IsNew(c, m) THEN AtMost(seen.score + ScoreValid, ScoreMax)
                    ELSE seen.score + ScoreDuplicate
           entry == [seen EXCEPT !.score = score, !.banned = (score <= BanThreshold)]
<1>1. c \in DOMAIN table /\ table[c] \in PeerEntry
  BY DEF Connected, NetOK, Receive
<1>2. seen \in PeerEntry
  <2>1. CASE m.type = "Status"
    <3>1. seen = [table[c] EXCEPT !.best_height = IF m.height > @ THEN m.height ELSE @]
      BY <2>1 DEF Observe
    <3> QED
      BY <1>1, <2>1, <3>1 DEF Told, PeerEntry
  <2>2. CASE m.type = "Commit" /\ m.height > table[c].best_height
    <3>1. seen = [table[c] EXCEPT !.best_height = m.height,
                                  !.score = AtMost(@ + ScoreUseful, ScoreMax)]
      BY <2>2 DEF Observe
    <3>2. AtMost(table[c].score + ScoreUseful, ScoreMax) \in Int
      BY <1>1, ScoresAssumption DEF AtMost, PeerEntry
    <3> QED
      BY <1>1, <2>2, <3>1, <3>2 DEF Told, PeerEntry
  <2>3. CASE m.type # "Status" /\ ~(m.type = "Commit" /\ m.height > table[c].best_height)
    <3>1. seen = table[c]
      BY <2>3 DEF Observe
    <3> QED
      BY <1>1, <3>1
  <2> QED
    BY <2>1, <2>2, <2>3
<1> HIDE DEF seen
<1>3. score \in Int
  BY <1>2, ScoresAssumption DEF AtMost, PeerEntry
<1>4. (score <= BanThreshold) \in BOOLEAN
  BY <1>3, ScoresAssumption
<1> HIDE DEF score
<1>5. entry \in PeerEntry
  BY <1>2, <1>3, <1>4 DEF PeerEntry
<1> HIDE DEF entry
<1>6. /\ conn[c] = "open"
      /\ table' = [table EXCEPT ![c] = entry]
      /\ conn' = [conn EXCEPT ![c] = IF score <= BanThreshold THEN "banned" ELSE @]
      /\ trouble' = (trouble \/ score <= BanThreshold)
      /\ sinks' = sinks
  BY DEF Receive, seen, score, entry
<1>7. DOMAIN table' = DOMAIN table /\ table' \in [DOMAIN table -> PeerEntry]
  BY <1>1, <1>5, <1>6 DEF NetOK
<1>8. conn' \in [Conns -> {"new", "checked", "open", "banned", "closed"}]
  BY <1>6 DEF NetOK
<1>9. trouble' \in BOOLEAN /\ (trouble => trouble')
  BY <1>4, <1>6 DEF NetOK
<1>10. Connected'
  <2>1. \A d \in Conns : conn'[d] \in {"open", "banned"} => d \in DOMAIN table'
    BY <1>1, <1>6, <1>7 DEF NetOK, Connected
  <2>2. ~trouble' => DOMAIN table' \subseteq sinks'
    BY <1>6, <1>7, <1>9 DEF Connected
  <2>3. ~trouble' => \A d \in Conns : conn'[d] # "banned"
    BY <1>6, <1>9 DEF NetOK, Connected
  <2> QED
    BY <2>1, <2>2, <2>3 DEF Connected
<1> QED
  BY <1>1, <1>6, <1>7, <1>8, <1>9, <1>10

\* A message of the wire, for the lemmas that take it apart.
LEMMA MessageKinds ==
    ASSUME NEW m \in Message
    PROVE  /\ m.id \in Nat
           /\ m.type \in {"Request", "Headers", "Block"}
           /\ m.type = "Request" => /\ m.kind \in {"Headers", "Block"}
                                    /\ m.start \in Nat /\ m.limit \in Nat
           /\ m.type = "Headers" => m.from \in Nat /\ m.to \in Int
           /\ m.type = "Block" => m.height \in Nat
BY DEF Message

\* Messages are lost, or taken from the wires: what is left still matches.
LEMMA ShrinkKeeps ==
    ASSUME NEW w, NEW v, NEW s, \A d \in Conns : v[d] \subseteq w[d]
    PROVE  /\ IdsUnique(w) => IdsUnique(v)
           /\ Matches(s, w) => Matches(s, v)
<1>1. IdsUnique(w) => IdsUnique(v)
  BY DEF IdsUnique
<1>2. Matches(s, w) => Matches(s, v)
  BY DEF Matches
<1> QED
  BY <1>1, <1>2

\* The ids in use when messages were lost or answered and nothing was asked.
LEMMA IdsKept ==
    ASSUME IdsOK, \A c \in Conns : \A m \in wire'[c] : m.id \in InUse,
           \A p \in Awaited(sync') : p.id \in InUse
    PROVE  IdsOK'
<1>1. InUse' \subseteq InUse
  BY DEF InUse, Awaited
<1>2. IsFiniteSet(InUse')
  BY <1>1, FS_Subset DEF IdsOK
<1> QED
  BY <1>1, <1>2 DEF IdsOK

\* A step that loses messages, and says so.
LEMMA LossKeeps ==
    ASSUME SyncInv, UNCHANGED syncVars, trouble', NetOK', Connected',
           \A d \in Conns : wire'[d] \subseteq wire[d]
    PROVE  SyncInv'
<1>1. IdsUnique(wire') /\ Matches(sync', wire')
  BY ShrinkKeeps DEF SyncInv, syncVars
<1>2. IdsOK'
  BY IdsKept, IdsInUse DEF SyncInv, syncVars
<1>3. SyncOK(sync')
  BY DEF SyncInv, syncVars
<1>4. UNCHANGED <<Reach, Stored, Idle("gossip"), Idle("consensus")>>
  BY DEF Reach, Stored, Idle, syncVars, chainVars
<1>5. GossipImports'
  BY DEF SyncInv, GossipImports, Idle, syncVars, chainVars
<1>6. InOrder' /\ EndsOnlyWithCause'
  BY <1>4 DEF SyncInv, InOrder, EndsOnlyWithCause, syncVars, chainVars
<1>7. (~raced => Timely(sync, local) /\ Lined)'
  BY <1>4 DEF SyncInv, Lined, syncVars, chainVars
<1> QED
  BY <1>1, <1>2, <1>3, <1>5, <1>6, <1>7 DEF SyncInv

LEMMA StartFanoutKeeps ==
    ASSUME SyncInv, StartFanout, UNCHANGED syncVars
    PROVE  SyncInv'
<1>1. NetOK' /\ Connected'
  BY DEF SyncInv, NetOK, Connected, StartFanout, syncVars, chainVars
<1> QED
  BY <1>1, QuietKeeps DEF StartFanout, syncVars

LEMMA CheckLimitKeeps ==
    ASSUME SyncInv, NEW c \in Conns, CheckLimit(c), UNCHANGED syncVars
    PROVE  SyncInv'
<1>1. NetOK'
  BY DEF SyncInv, NetOK, CheckLimit, syncVars, chainVars
<1>2. Connected'
  BY DEF SyncInv, NetOK, Connected, CheckLimit
<1> QED
  BY <1>1, <1>2, QuietKeeps DEF CheckLimit, syncVars

LEMMA AdmitKeeps ==
    ASSUME SyncInv, NEW c \in Conns, Admit(c, StartHeight), UNCHANGED syncVars
    PROVE  SyncInv'
<1> DEFINE e == [score |-> ScoreInitial, best_height |-> StartHeight,
                 is_outbound |-> c \in Dialed, banned |-> FALSE, node_id |-> NodeOf[c]]
<1>1. e \in PeerEntry
  BY ScoresAssumption, SyncAssumption DEF PeerEntry
<1> HIDE DEF e
<1>2. CASE IsNodeBanned(NodeOf[c])
  <2>1. NetOK'
    BY <1>2 DEF SyncInv, NetOK, Admit, syncVars, chainVars
  <2>2. Connected'
    BY <1>2 DEF SyncInv, NetOK, Connected, Admit, syncVars
  <2> QED
    BY <1>2, <2>1, <2>2, QuietKeeps DEF Admit, syncVars
<1>3. CASE ~IsNodeBanned(NodeOf[c])
  <2>1. /\ conn' = [conn EXCEPT ![c] = "open"]
        /\ table' = With(table, c, e)
        /\ sinks' = IF registry THEN sinks \cup {c} ELSE sinks
        /\ trouble' = (trouble \/ ~registry)
        /\ wire' = wire
    BY <1>3 DEF Admit, e
  <2>2. DOMAIN table' = DOMAIN table \cup {c} /\ table' \in [DOMAIN table' -> PeerEntry]
    BY <1>1, <2>1 DEF With, SyncInv, NetOK
  <2>3. NetOK'
    BY <2>1, <2>2 DEF SyncInv, NetOK, syncVars, chainVars
  <2>4. Connected'
    BY <2>1, <2>2 DEF SyncInv, NetOK, Connected
  <2> QED
    BY <2>1, <2>2, <2>3, <2>4, QuietKeeps DEF syncVars
<1> QED
  BY <1>2, <1>3

LEMMA CloseBannedKeeps ==
    ASSUME SyncInv, NEW c \in Conns, CloseBanned(c), UNCHANGED syncVars
    PROVE  SyncInv'
<1>1. trouble /\ trouble'
  BY DEF SyncInv, Connected, NetOK, CloseBanned
<1>2. DOMAIN table' = DOMAIN table \ {c} /\ table' \in [DOMAIN table' -> PeerEntry]
  BY DEF CloseBanned, Drop, SyncInv, NetOK
<1>3. wire' \in Wires /\ \A d \in Conns : wire'[d] \subseteq wire[d]
  BY DEF CloseBanned, SyncInv, NetOK, Wires
<1>4. conn' \in [Conns -> {"new", "checked", "open", "banned", "closed"}]
      /\ \A d \in Conns : conn'[d] = IF d = c THEN "closed" ELSE conn[d]
  BY DEF CloseBanned, SyncInv, NetOK
<1>5. NetOK'
  BY <1>1, <1>2, <1>3, <1>4 DEF SyncInv, NetOK, syncVars, chainVars
<1>6. Connected'
  BY <1>1, <1>2, <1>4 DEF SyncInv, Connected
<1> QED
  BY <1>1, <1>3, <1>5, <1>6, LossKeeps

LEMMA CutKeeps ==
    ASSUME SyncInv, NEW c \in Conns, Cut(c), UNCHANGED syncVars
    PROVE  SyncInv'
<1>1. wire' \in Wires /\ \A d \in Conns : wire'[d] \subseteq wire[d]
  BY DEF Cut, SyncInv, NetOK, Wires
<1>2. conn' \in [Conns -> {"new", "checked", "open", "banned", "closed"}]
      /\ \A d \in Conns : conn'[d] = IF d = c THEN "closed" ELSE conn[d]
  BY DEF Cut, SyncInv, NetOK
<1>3. NetOK'
  BY <1>1, <1>2 DEF SyncInv, NetOK, syncVars, chainVars, Cut
<1>4. Connected'
  BY <1>2 DEF SyncInv, Connected, Cut
<1> QED
  BY <1>1, <1>3, <1>4, LossKeeps DEF Cut

LEMMA LaggedKeeps ==
    ASSUME SyncInv, NEW c \in Conns, NEW m \in wire[c], Lagged(c, m)
    PROVE  SyncInv'
<1>1. wire' \in Wires /\ \A d \in Conns : wire'[d] \subseteq wire[d]
  BY DEF Lagged, SyncInv, NetOK, Wires
<1>2. NetOK'
  BY <1>1 DEF SyncInv, NetOK, syncVars, chainVars, Lagged
<1>3. Connected'
  BY DEF SyncInv, Connected, Lagged
<1> QED
  BY <1>1, <1>2, <1>3, LossKeeps DEF Lagged

LEMMA OnStatusKeeps ==
    ASSUME SyncInv, NEW c \in Conns, OnStatus(c) \/ OnIdleStatus(c)
    PROVE  SyncInv'
<1> DEFINE m == [type |-> "Status", height |-> tip]
<1>1. Told(m)
  BY DEF Told, SyncInv, NetOK
<1>2. Receive(c, m) /\ UNCHANGED <<wire, syncVars>>
  BY DEF OnStatus, OnIdleStatus
<1> HIDE DEF m
<1>3. /\ conn' \in [Conns -> {"new", "checked", "open", "banned", "closed"}]
      /\ DOMAIN table' = DOMAIN table /\ table' \in [DOMAIN table -> PeerEntry]
      /\ trouble' \in BOOLEAN /\ (trouble => trouble') /\ Connected'
  BY <1>1, <1>2, ReceiveKeeps DEF SyncInv
<1>4. NetOK'
  BY <1>2, <1>3 DEF SyncInv, NetOK, syncVars, chainVars
<1> QED
  BY <1>2, <1>3, <1>4, QuietKeeps DEF syncVars

LEMMA GrowKeeps ==
    ASSUME SyncInv, Grow
    PROVE  SyncInv'
<1>1. NetOK' /\ Connected'
  BY DEF SyncInv, NetOK, Connected, Grow, netVars, chainVars
<1> QED
  BY <1>1, QuietKeeps DEF Grow, netVars

\* A longer chain.
LEMMA FollowsGrows ==
    ASSUME NEW s, SyncOK(s), NEW h \in Nat, NEW k \in Nat, h <= k, Follows(s, h)
    PROVE  Follows(s, k)
<1> DEFINE q == s.queued_heights
<1>1. \A i \in 1..(Len(q) - 1) : q[i + 1] = q[i] + 1
  BY DEF Follows
<1>2. \A p \in s.pending_block : p.height <= k + 1 /\ (q # << >> => q[1] = p.height + 1)
  <2> SUFFICES ASSUME NEW p \in s.pending_block
               PROVE  p.height <= k + 1 /\ (q # << >> => q[1] = p.height + 1)
    OBVIOUS
  <2>1. p.height \in Nat
    BY DEF SyncOK
  <2>2. p.height <= h + 1 /\ (q # << >> => q[1] = p.height + 1)
    BY DEF Follows
  <2> QED
    BY <2>1, <2>2
<1>3. s.pending_block = {} /\ q # << >> => q[1] <= k + 1
  <2> SUFFICES ASSUME s.pending_block = {}, q # << >> PROVE q[1] <= k + 1
    OBVIOUS
  <2>1. q \in Seq(Nat)
    BY DEF SyncOK
  <2>2. q[1] \in Nat /\ q[1] <= h + 1
    BY <2>1 DEF Follows
  <2> QED
    BY <2>2
<1> QED
  BY <1>1, <1>2, <1>3 DEF Follows

-----------------------------------------------------------------------------
(* Imports.                                                                *)

\* What a step of an import does to the chain and to the histories.
ChainStep ==
    /\ local' \in Nat /\ engine' \in Nat /\ importing' \in Imports /\ gossip' \in BOOLEAN
    /\ raced' \in BOOLEAN /\ missed' \in BOOLEAN /\ refused' \in BOOLEAN
    /\ GossipImports' /\ InOrder' /\ EndsOnlyWithCause'
    /\ ~raced' => Timely(sync', local') /\ Lined'

\* ... and to SyncState and the wires.
SyncStep ==
    /\ wire' \in Wires /\ SyncOK(sync') /\ IdsUnique(wire') /\ Matches(sync', wire') /\ IdsOK'
    /\ ~trouble /\ gossip' => Comes(sync', wire')

LEMMA StepKeeps ==
    ASSUME SyncInv, ChainStep, SyncStep,
           UNCHANGED <<conn, table, recent, registry, sinks, trouble, tip, sent>>
    PROVE  SyncInv'
<1>1. NetOK'
  BY DEF SyncInv, NetOK, ChainStep, SyncStep
<1>2. Connected'
  BY DEF SyncInv, Connected
<1> QED
  BY <1>1, <1>2 DEF SyncInv, ChainStep, SyncStep

\* A step that leaves SyncState and the wires alone.
LEMMA SameSync ==
    ASSUME SyncInv, UNCHANGED <<sync, wire>>, gossip' => gossip
    PROVE  SyncStep
BY DEF SyncInv, NetOK, SyncStep, IdsOK, InUse

\* The gossip task goes on after an import: whatever follows the chain still does.
LEMMA ContinuedSync ==
    ASSUME SyncInv, ~Idle("gossip"),
           ThenContinue(sync, importing["gossip"].from, local, wire)
    PROVE  /\ SyncStep
           /\ \A r \in Nat : Follows(sync, r) => Follows(sync', r)
           /\ Timely(sync, local) => Timely(sync', local)
<1> DEFINE c == importing["gossip"].from
<1>1. gossip /\ c \in Conns /\ (~trouble => c \in sinks)
  BY DEF SyncInv, GossipImports, Connected
<1>2. /\ local \in Nat /\ wire \in Wires /\ SyncOK(sync) /\ IdsOK
      /\ IdsUnique(wire) /\ Matches(sync, wire)
      /\ ~trouble => Comes(sync, wire)
  BY <1>1 DEF SyncInv, NetOK
<1> HIDE DEF c
<1>3. ThenContinue(sync, c, local, wire)
  BY DEF c
<1>4. /\ wire' \in Wires /\ SyncOK(sync') /\ IdsUnique(wire') /\ Matches(sync', wire') /\ IdsOK'
      /\ c \in sinks /\ Comes(sync, wire) => Comes(sync', wire')
      /\ \A r \in Nat : Follows(sync, r) => Follows(sync', r)
      /\ Timely(sync, local) => Timely(sync', local)
  BY <1>1, <1>2, <1>3, ContinueKeeps
<1> QED
  BY <1>1, <1>2, <1>4 DEF SyncStep

\* The block task t has in hand, and the ones the tasks have.
LEMMA ImportTypes ==
    ASSUME SyncInv
    PROVE  /\ \A t \in Importers : /\ importing[t].height \in Nat
                                   /\ importing[t].at \in {"idle", "taken", "prepared", "stored"}
           /\ "gossip" \in Importers /\ "consensus" \in Importers
           /\ local \in Nat /\ engine \in Nat /\ Reach \in Nat
BY DEF SyncInv, NetOK, Imports, Importers, Reach

\* The place of task t changes and nothing else of the imports.
LEMMA PlaceTyped ==
    ASSUME importing \in Imports, NEW t \in Importers, NEW a \in {"taken", "prepared", "stored"},
           importing' = [importing EXCEPT ![t].at = a]
    PROVE  /\ importing' \in Imports
           /\ importing'[t].at = a /\ importing'[t].height = importing[t].height
           /\ importing'[t].from = importing[t].from
           /\ \A u \in Importers \ {t} : importing'[u] = importing[u]
BY DEF Imports

LEMMA ReturnTyped ==
    ASSUME importing \in Imports, NEW t \in Importers,
           importing' = [importing EXCEPT ![t] = NotImporting]
    PROVE  /\ importing' \in Imports /\ importing'[t].at = "idle"
           /\ \A u \in Importers \ {t} : importing'[u] = importing[u]
BY DEF Imports, NotImporting, NoPeer

\* A task returns without having stored its block.
LEMMA ReturnLined ==
    ASSUME SyncInv, NEW t \in Importers, importing[t].at \in {"taken", "prepared"},
           importing' = [importing EXCEPT ![t] = NotImporting],
           UNCHANGED <<local, engine>>, Lined
    PROVE  Lined'
<1>1. /\ importing'[t].at = "idle"
      /\ \A u \in Importers \ {t} : importing'[u] = importing[u]
  BY ReturnTyped DEF SyncInv, NetOK
<1>2. Stored' <=> Stored
  BY <1>1 DEF Stored
<1>3. Idle("gossip") => Idle("gossip")'
  BY <1>1 DEF Idle, Importers
<1>4. Idle("consensus") => Idle("consensus")'
  BY <1>1 DEF Idle, Importers
<1>5. \A u \in Importers : /\ importing'[u].at = "prepared" => importing'[u].height = local + 1
                           /\ importing'[u].at = "stored" => importing'[u].height = local
  BY <1>1 DEF Lined
<1> QED
  BY <1>2, <1>3, <1>4, <1>5 DEF Lined

\* A task takes a block up.
LEMMA BeginTyped ==
    ASSUME SyncInv, NEW t \in Importers, NEW h \in Nat, NEW c \in Conns \cup {NoPeer},
           Idle(t), Begin(t, h, c)
    PROVE  /\ importing' \in Imports /\ raced' \in BOOLEAN /\ (raced => raced')
           /\ importing'[t] = [at |-> "taken", height |-> h, from |-> c]
           /\ \A u \in Importers \ {t} : importing'[u] = importing[u]
           /\ ~raced' => \A u \in Importers \ {t} : Idle(u)
           /\ ~raced' /\ UNCHANGED <<local, engine>> => Lined'
<1>1. importing \in Imports /\ raced \in BOOLEAN
  BY DEF SyncInv, NetOK
<1>2. /\ importing' = [importing EXCEPT ![t] = [at |-> "taken", height |-> h, from |-> c]]
      /\ raced' = (raced \/ \E u \in Importers \ {t} : ~Idle(u))
  BY DEF Begin
<1>3. /\ importing' \in Imports
      /\ importing'[t] = [at |-> "taken", height |-> h, from |-> c]
      /\ \A u \in Importers \ {t} : importing'[u] = importing[u]
  BY <1>1, <1>2 DEF Imports
<1>4. raced' \in BOOLEAN /\ (raced => raced') /\ (~raced' => \A u \in Importers \ {t} : Idle(u))
  BY <1>1, <1>2
<1>5. ASSUME ~raced', UNCHANGED <<local, engine>> PROVE Lined'
  <2>1. Lined /\ \A u \in Importers \ {t} : importing'[u].at = "idle"
    BY <1>3, <1>4, <1>5 DEF SyncInv, Idle
  <2>2. importing'[t].at = "taken"
    BY <1>3
  <2>3. ~Stored
    BY <1>4, <1>5 DEF Stored, Idle
  <2>4. ~Stored'
    BY <2>1, <2>2 DEF Stored
  <2>5. Idle("gossip")' \/ Idle("consensus")'
    BY <2>1 DEF Idle, Importers
  <2>6. \A u \in Importers : importing'[u].at # "prepared" /\ importing'[u].at # "stored"
    BY <2>1, <2>2
  <2> QED
    BY <1>5, <2>1, <2>3, <2>4, <2>5, <2>6 DEF Lined
<1> QED
  BY <1>3, <1>4, <1>5

LEMMA OnCommitKeeps ==
    ASSUME SyncInv, NEW c \in Conns, OnCommit(c)
    PROVE  SyncInv'
<1> DEFINE h == sent[c] + 1
           m == [type |-> "Commit", height |-> h]
<1>1. h \in Nat /\ Told(m)
  BY DEF Told, SyncInv, NetOK
<1>2. /\ Receive(c, m) /\ sent' = [sent EXCEPT ![c] = h] /\ Idle("consensus")
      /\ Begin("consensus", h, NoPeer) \/ UNCHANGED <<importing, raced>>
      /\ UNCHANGED <<wire, faults, sync, gossip, local, engine, tip, missed, refused>>
  BY DEF OnCommit
<1> HIDE DEF m, h
<1>3. /\ conn' \in [Conns -> {"new", "checked", "open", "banned", "closed"}]
      /\ DOMAIN table' = DOMAIN table /\ table' \in [DOMAIN table -> PeerEntry]
      /\ trouble' \in BOOLEAN /\ (trouble => trouble') /\ Connected'
  BY <1>1, <1>2, ReceiveKeeps DEF SyncInv
<1>4. sent' \in [Conns -> Nat]
  BY <1>1, <1>2 DEF SyncInv, NetOK
<1>5. /\ importing' \in Imports /\ raced' \in BOOLEAN /\ (raced => raced')
      /\ importing'["gossip"] = importing["gossip"]
      /\ ~raced' => Lined'
  <2>1. CASE Begin("consensus", h, NoPeer)
    <3>1. "consensus" \in Importers /\ "gossip" \in Importers \ {"consensus"}
      BY DEF Importers
    <3> QED
      BY <1>1, <1>2, <2>1, <3>1, BeginTyped
  <2>2. CASE UNCHANGED <<importing, raced>>
    <3>1. UNCHANGED <<Stored, Idle("gossip"), Idle("consensus")>>
      BY <2>2 DEF Stored, Idle
    <3> QED
      BY <1>2, <2>2, <3>1 DEF SyncInv, NetOK, Lined
  <2> QED
    BY <1>2, <2>1, <2>2
<1>6. NetOK'
  BY <1>2, <1>3, <1>4, <1>5 DEF SyncInv, NetOK
<1>7. IdsOK' /\ SyncOK(sync') /\ IdsUnique(wire') /\ Matches(sync', wire')
  BY <1>2 DEF SyncInv, IdsOK, InUse
<1>8. ~trouble' /\ gossip' => Comes(sync', wire')
  BY <1>2, <1>3 DEF SyncInv
<1>9. GossipImports'
  BY <1>2, <1>3, <1>5 DEF SyncInv, GossipImports, Idle
<1>10. InOrder'
  <2>1. Reach' = Reach
    BY <1>2, <1>5 DEF Reach, Idle
  <2> QED
    BY <1>2, <1>5, <2>1 DEF SyncInv, InOrder
<1>11. (~raced' => Timely(sync', local')) /\ EndsOnlyWithCause'
  BY <1>2, <1>5 DEF SyncInv, EndsOnlyWithCause
<1> QED
  BY <1>3, <1>5, <1>6, <1>7, <1>8, <1>9, <1>10, <1>11 DEF SyncInv

\* The consensus task is done with a block it has not stored.
LEMMA ConsensusReturns ==
    ASSUME SyncInv, importing["consensus"].at \in {"taken", "prepared"},
           importing' = [importing EXCEPT !["consensus"] = NotImporting],
           UNCHANGED <<conn, table, recent, registry, sinks, trouble, tip, sent,
                       sync, wire, gossip, local, engine, raced, missed>>,
           refused' \in BOOLEAN, refused => refused'
    PROVE  SyncInv'
<1>0. "consensus" \in Importers /\ "gossip" \in Importers \ {"consensus"}
  BY DEF Importers
<1>1. importing' \in Imports /\ importing'["gossip"] = importing["gossip"]
  BY <1>0, ReturnTyped DEF SyncInv, NetOK
<1>2. ~raced' => Timely(sync', local') /\ Lined'
  BY <1>0, ReturnLined DEF SyncInv
<1>3. GossipImports'
  BY <1>1 DEF SyncInv, GossipImports, Idle
<1>4. Reach' = Reach
  BY <1>1 DEF Reach, Idle
<1>5. InOrder' /\ EndsOnlyWithCause'
  BY <1>4 DEF SyncInv, InOrder, EndsOnlyWithCause
<1>6. ChainStep
  BY <1>1, <1>2, <1>3, <1>5 DEF SyncInv, NetOK, ChainStep
<1> QED
  BY <1>6, SameSync, StepKeeps

\* The gossip task ends, with a cause.
LEMMA GossipEnds ==
    ASSUME SyncInv, importing["gossip"].at \in {"taken", "prepared"},
           importing' = [importing EXCEPT !["gossip"] = NotImporting],
           UNCHANGED <<conn, table, recent, registry, sinks, trouble, tip, sent,
                       sync, wire, local, engine, raced, missed>>,
           gossip' = FALSE, refused' \in BOOLEAN, raced \/ missed \/ refused'
    PROVE  SyncInv'
<1>0. "gossip" \in Importers
  BY DEF Importers
<1>1. importing' \in Imports /\ importing'["gossip"].at = "idle"
  BY <1>0, ReturnTyped DEF SyncInv, NetOK
<1>2. ~raced' => Timely(sync', local') /\ Lined'
  BY <1>0, ReturnLined DEF SyncInv
<1>3. GossipImports'
  BY <1>1 DEF GossipImports, Idle
<1>4. InOrder' /\ EndsOnlyWithCause'
  BY DEF InOrder, EndsOnlyWithCause
<1>5. ChainStep
  BY <1>1, <1>2, <1>3, <1>4 DEF SyncInv, NetOK, ChainStep
<1> QED
  BY <1>5, SameSync, StepKeeps

\* A block that is already in the chain is ignored.
LEMMA IgnoredKeeps ==
    ASSUME SyncInv, importing["gossip"].at = "taken", importing["gossip"].height < engine,
           importing' = [importing EXCEPT !["gossip"] = NotImporting],
           ThenContinue(sync, importing["gossip"].from, local, wire),
           UNCHANGED <<conn, table, recent, registry, sinks, trouble, tip, sent,
                       gossip, local, engine, raced, missed, refused>>
    PROVE  SyncInv'
<1> DEFINE h == importing["gossip"].height
<1>0. "gossip" \in Importers /\ local \in Nat /\ engine \in Nat /\ h \in Nat /\ ~Idle("gossip")
  BY ImportTypes DEF Idle
<1>1. importing' \in Imports /\ importing'["gossip"].at = "idle"
  BY <1>0, ReturnTyped DEF SyncInv, NetOK
<1>2. /\ SyncStep
      /\ \A r \in Nat : Follows(sync, r) => Follows(sync', r)
      /\ Timely(sync, local) => Timely(sync', local)
  BY <1>0, ContinuedSync
<1>3. ~raced' => Timely(sync', local') /\ Lined'
  BY <1>0, <1>2, ReturnLined DEF SyncInv
<1>4. GossipImports'
  BY <1>1 DEF GossipImports, Idle
<1>5. InOrder'
  <2> SUFFICES ASSUME gossip, ~missed, ~raced PROVE Follows(sync', local) /\ local <= local + 1
    BY <1>1 DEF InOrder, Reach, Idle
  <2>1. Lined /\ Follows(sync, h)
    BY <1>0 DEF SyncInv, InOrder, Reach
  <2>2. ~Stored
    <3>1. Idle("consensus")
      BY <1>0, <2>1 DEF Lined
    <3> QED
      BY <3>1 DEF Stored, Idle, Importers
  <2>3. h <= local
    BY <1>0, <2>1, <2>2 DEF Lined
  <2>4. Follows(sync, local)
    BY <1>0, <2>1, <2>3, FollowsGrows DEF SyncInv
  <2> QED
    BY <1>0, <1>2, <2>4
<1>6. ChainStep
  BY <1>1, <1>3, <1>4, <1>5 DEF SyncInv, NetOK, ChainStep, EndsOnlyWithCause
<1> QED
  BY <1>2, <1>6, StepKeeps

\* The block follows the latest one.
LEMMA PreparedKeeps ==
    ASSUME SyncInv, NEW t \in Importers, importing[t].at = "taken",
           importing[t].height = local + 1,
           importing' = [importing EXCEPT ![t].at = "prepared"],
           UNCHANGED <<conn, table, recent, registry, sinks, trouble, tip, sent,
                       sync, wire, gossip, local, engine, raced, missed, refused>>
    PROVE  SyncInv'
<1>1. /\ importing' \in Imports
      /\ importing'[t].at = "prepared" /\ importing'[t].height = importing[t].height
      /\ importing'[t].from = importing[t].from
      /\ \A u \in Importers \ {t} : importing'[u] = importing[u]
  BY PlaceTyped DEF SyncInv, NetOK
<1>2. \A u \in Importers : /\ importing'[u].height = importing[u].height
                           /\ importing'[u].from = importing[u].from
                           /\ (importing'[u].at = "idle" <=> importing[u].at = "idle")
                           /\ (importing'[u].at = "stored" <=> importing[u].at = "stored")
  BY <1>1
<1>3. "gossip" \in Importers /\ "consensus" \in Importers
  BY DEF Importers
<1>4. Stored' <=> Stored
  BY <1>2 DEF Stored
<1>5. (Idle("gossip")' <=> Idle("gossip")) /\ (Idle("consensus")' <=> Idle("consensus"))
  BY <1>2, <1>3 DEF Idle
<1>6. Lined => Lined'
  <2> SUFFICES ASSUME Lined PROVE Lined'
    OBVIOUS
  <2>1. \A u \in Importers : /\ importing'[u].at = "prepared" => importing'[u].height = local + 1
                             /\ importing'[u].at = "stored" => importing'[u].height = local
    BY <1>1, <1>2 DEF Lined
  <2> QED
    BY <1>4, <1>5, <2>1 DEF Lined
<1>7. GossipImports'
  BY <1>2, <1>3, <1>5 DEF SyncInv, GossipImports
<1>8. Reach' = Reach
  BY <1>2, <1>3, <1>5 DEF Reach
<1>9. InOrder' /\ EndsOnlyWithCause'
  BY <1>8 DEF SyncInv, InOrder, EndsOnlyWithCause
<1>10. ChainStep
  BY <1>1, <1>6, <1>7, <1>9 DEF SyncInv, NetOK, ChainStep
<1> QED
  BY <1>10, SameSync, StepKeeps

LEMMA ValidateKeeps ==
    ASSUME SyncInv, NEW t \in Importers, Validate(t)
    PROVE  SyncInv'
<1> DEFINE h == importing[t].height
<1>1. /\ importing[t].at = "taken"
      /\ UNCHANGED <<conn, table, recent, registry, sinks, faults, trouble,
                     local, engine, tip, sent, raced, missed, refused>>
  BY DEF Validate
<1>2. h \in Nat /\ local \in Nat /\ engine \in Nat /\ gossip \in BOOLEAN /\ refused \in BOOLEAN
  BY ImportTypes DEF SyncInv, NetOK
<1>3. CASE h < engine
  <2>a. ~(h >= engine)
    BY <1>2, <1>3
  <2>1. Return(t, FALSE)
    BY <2>a, Zenon DEF Validate
  <2>2. CASE t = "gossip"
    BY <1>1, <1>2, <1>3, <2>1, <2>2, IgnoredKeeps DEF Return
  <2>3. CASE t = "consensus"
    <3>1. importing' = [importing EXCEPT !["consensus"] = NotImporting]
          /\ UNCHANGED <<sync, wire, gossip>>
      BY <1>2, <2>1, <2>3 DEF Return
    <3> QED
      BY <1>1, <1>2, <2>3, <3>1, ConsensusReturns
  <2> QED
    BY <2>2, <2>3 DEF Importers
<1>4. CASE h >= engine /\ h # local + 1
  <2>a. ~(h < engine)
    BY <1>2, <1>4
  <2>1. Return(t, TRUE)
    BY <1>4, <2>a, Zenon DEF Validate
  <2>2. CASE t = "gossip"
    <3>1. /\ importing' = [importing EXCEPT !["gossip"] = NotImporting]
          /\ UNCHANGED <<sync, wire>> /\ gossip' = FALSE
      BY <2>1, <2>2 DEF Return
    <3>2. raced \/ missed \/ refused
      <4> SUFFICES ASSUME ~raced, ~missed PROVE refused
        OBVIOUS
      <4>1. gossip /\ Lined /\ ~Idle("gossip")
        BY <1>1, <2>2 DEF SyncInv, GossipImports, Idle
      <4>2. h <= local + 1
        BY <2>2, <4>1 DEF SyncInv, InOrder, Reach
      <4>3. ~Stored
        <5>1. Idle("consensus")
          BY <4>1 DEF Lined
        <5> QED
          BY <1>1, <2>2, <5>1 DEF Stored, Idle, Importers
      <4> QED
        BY <1>2, <1>4, <4>1, <4>2, <4>3 DEF Lined
    <3> QED
      BY <1>1, <1>2, <2>2, <3>1, <3>2, GossipEnds
  <2>3. CASE t = "consensus"
    <3>1. importing' = [importing EXCEPT !["consensus"] = NotImporting]
          /\ UNCHANGED <<sync, wire, gossip>>
      BY <1>2, <2>1, <2>3 DEF Return
    <3> QED
      BY <1>1, <1>2, <2>3, <3>1, ConsensusReturns
  <2> QED
    BY <2>2, <2>3 DEF Importers
<1>5. CASE h >= engine /\ h = local + 1
  <2>a. ~(h < engine)
    BY <1>2, <1>5
  <2>1. importing' = [importing EXCEPT ![t].at = "prepared"] /\ UNCHANGED <<sync, wire, gossip>>
    BY <1>5, <2>a, Zenon DEF Validate
  <2> QED
    BY <1>1, <1>5, <2>1, PreparedKeeps
<1> QED
  BY <1>2, <1>3, <1>4, <1>5

LEMMA RefuseKeeps ==
    ASSUME SyncInv, NEW t \in Importers, Refuse(t)
    PROVE  SyncInv'
<1>1. /\ importing[t].at = "prepared" /\ refused' = TRUE /\ Return(t, TRUE)
      /\ UNCHANGED <<conn, table, recent, registry, sinks, trouble,
                     local, engine, tip, sent, raced, missed>>
  BY DEF Refuse
<1>2. gossip \in BOOLEAN
  BY DEF SyncInv, NetOK
<1>3. CASE t = "gossip"
  <2>1. /\ importing' = [importing EXCEPT !["gossip"] = NotImporting]
        /\ UNCHANGED <<sync, wire>> /\ gossip' = FALSE
    BY <1>1, <1>3 DEF Return
  <2> QED
    BY <1>1, <1>3, <2>1, GossipEnds
<1>4. CASE t = "consensus"
  <2>1. importing' = [importing EXCEPT !["consensus"] = NotImporting]
        /\ UNCHANGED <<sync, wire, gossip>>
    BY <1>1, <1>2, <1>4 DEF Return
  <2> QED
    BY <1>1, <1>4, <2>1, ConsensusReturns
<1> QED
  BY <1>3, <1>4 DEF Importers

LEMMA StoreKeeps ==
    ASSUME SyncInv, NEW t \in Importers, Store(t)
    PROVE  SyncInv'
<1> DEFINE h == importing[t].height
<1>1. /\ importing[t].at = "prepared" /\ local' = h
      /\ importing' = [importing EXCEPT ![t].at = "stored"]
      /\ raced' = (raced \/ sync.pending_headers # {})
      /\ UNCHANGED <<conn, table, recent, registry, sinks, trouble, tip, sent,
                     engine, sync, wire, gossip, missed, refused>>
  BY DEF Store, netVars
<1>2. h \in Nat /\ local \in Nat /\ raced \in BOOLEAN /\ raced' \in BOOLEAN
  BY <1>1, ImportTypes DEF SyncInv, NetOK
<1>3. /\ importing' \in Imports
      /\ importing'[t].at = "stored" /\ importing'[t].height = importing[t].height
      /\ importing'[t].from = importing[t].from
      /\ \A u \in Importers \ {t} : importing'[u] = importing[u]
  BY <1>1, PlaceTyped DEF SyncInv, NetOK
<1>4. "gossip" \in Importers /\ "consensus" \in Importers
  BY DEF Importers
<1>5. \A u \in Importers : /\ importing'[u].height = importing[u].height
                           /\ importing'[u].from = importing[u].from
                           /\ (importing'[u].at = "idle" <=> importing[u].at = "idle")
  BY <1>1, <1>3
<1>6. (Idle("gossip")' <=> Idle("gossip")) /\ (Idle("consensus")' <=> Idle("consensus"))
  BY <1>4, <1>5 DEF Idle
<1> HIDE DEF h
<1>7. ASSUME ~raced'
      PROVE  /\ ~raced /\ Lined /\ h = local + 1 /\ Timely(sync', local')
             /\ \A u \in Importers \ {t} : Idle(u)
  <2>1. ~raced /\ sync.pending_headers = {}
    BY <1>1, <1>7
  <2>2. Lined
    BY <2>1 DEF SyncInv
  <2>3. h = local + 1
    BY <1>1, <2>2 DEF Lined, h
  <2>4. \A u \in Importers \ {t} : Idle(u)
    BY <1>1, <2>2 DEF Lined, Idle, Importers
  <2> QED
    BY <1>1, <2>1, <2>2, <2>3, <2>4 DEF Timely
<1>8. ASSUME ~raced' PROVE Lined'
  <2>1. ~Stored
    BY <1>1, <1>7, <1>8 DEF Stored, Idle
  <2>2. Stored'
    BY <1>3 DEF Stored
  <2>3. engine' = local'
    BY <1>1, <1>7, <1>8, <2>1 DEF Lined
  <2>4. \A u \in Importers : /\ importing'[u].at = "prepared" => importing'[u].height = local' + 1
                             /\ importing'[u].at = "stored" => importing'[u].height = local'
    BY <1>1, <1>3, <1>7, <1>8 DEF Idle, h
  <2> QED
    BY <1>6, <1>7, <1>8, <2>2, <2>3, <2>4 DEF Lined
<1>9. GossipImports'
  BY <1>1, <1>4, <1>5, <1>6 DEF SyncInv, GossipImports
<1>10. InOrder'
  <2> SUFFICES ASSUME gossip, ~missed, ~raced' PROVE Follows(sync, Reach') /\ Reach' <= local' + 1
    BY <1>1 DEF InOrder
  <2>1. Follows(sync, Reach) /\ Reach <= local + 1 /\ SyncOK(sync)
    BY <1>7 DEF SyncInv, InOrder
  <2>2. CASE t = "gossip"
    <3>1. Reach' = h /\ Reach = h
      BY <1>1, <1>3, <2>2 DEF Reach, Idle, h
    <3> QED
      BY <1>1, <1>2, <2>1, <3>1
  <2>3. CASE t = "consensus"
    <3>1. Idle("gossip") /\ Idle("gossip")'
      BY <1>4, <1>6, <1>7, <2>3
    <3>2. Reach' = h /\ Reach = local
      BY <1>1, <3>1 DEF Reach
    <3>3. local <= h /\ h <= h + 1
      BY <1>2, <1>7
    <3> QED
      BY <1>1, <1>2, <2>1, <3>2, <3>3, FollowsGrows
  <2> QED
    BY <2>2, <2>3 DEF Importers
<1>11. EndsOnlyWithCause'
  BY <1>1 DEF SyncInv, EndsOnlyWithCause
<1>12. ChainStep
  BY <1>1, <1>2, <1>3, <1>7, <1>8, <1>9, <1>10, <1>11 DEF SyncInv, NetOK, ChainStep
<1> QED
  BY <1>1, <1>12, SameSync, StepKeeps

LEMMA AdvanceKeeps ==
    ASSUME SyncInv, NEW t \in Importers, Advance(t)
    PROVE  SyncInv'
<1> DEFINE h == importing[t].height
<1>1. /\ importing[t].at = "stored" /\ engine' = h + 1 /\ Return(t, FALSE)
      /\ UNCHANGED <<conn, table, recent, registry, sinks, trouble,
                     local, tip, sent, raced, missed, refused>>
  BY DEF Advance
<1>2. h \in Nat /\ local \in Nat /\ gossip \in BOOLEAN /\ Reach \in Nat
  BY ImportTypes DEF SyncInv, NetOK
<1>3. importing' = [importing EXCEPT ![t] = NotImporting] /\ gossip' = gossip
  BY <1>1, <1>2 DEF Return
<1>4. /\ importing' \in Imports /\ importing'[t].at = "idle"
      /\ \A u \in Importers \ {t} : importing'[u] = importing[u]
  BY <1>3, ReturnTyped DEF SyncInv, NetOK
<1>5. "gossip" \in Importers /\ "consensus" \in Importers /\ ~Idle(t)
  BY <1>1 DEF Importers, Idle
<1>6. ASSUME ~raced
      PROVE  /\ Lined /\ Lined' /\ h = local
             /\ \A u \in Importers \ {t} : Idle(u)
  <2>1. Lined
    BY <1>6 DEF SyncInv
  <2>2. h = local
    BY <1>1, <2>1 DEF Lined
  <2>3. \A u \in Importers \ {t} : Idle(u)
    BY <1>1, <2>1 DEF Lined, Idle, Importers
  <2>4. \A u \in Importers : importing'[u].at = "idle"
    BY <1>4, <2>3 DEF Idle
  <2>5. ~Stored' /\ Idle("gossip")'
    BY <1>5, <2>4 DEF Stored, Idle
  <2>6. engine' = local' + 1
    BY <1>1, <2>2
  <2>7. Lined'
    BY <2>4, <2>5, <2>6 DEF Lined
  <2> QED
    BY <2>1, <2>2, <2>3, <2>7
<1>7. /\ SyncStep
      /\ \A r \in Nat : Follows(sync, r) => Follows(sync', r)
      /\ Timely(sync, local) => Timely(sync', local)
  <2>1. CASE t = "gossip"
    <3>1. ThenContinue(sync, importing["gossip"].from, local, wire)
      BY <1>1, <2>1 DEF Return
    <3> QED
      BY <1>5, <2>1, <3>1, ContinuedSync
  <2>2. CASE t = "consensus"
    <3>1. UNCHANGED <<sync, wire>>
      BY <1>1, <2>2 DEF Return
    <3> QED
      BY <1>3, <3>1, SameSync
  <2> QED
    BY <2>1, <2>2 DEF Importers
<1>8. GossipImports'
  BY <1>1, <1>3, <1>4, <1>5 DEF SyncInv, GossipImports, Idle
<1>9. InOrder'
  <2> SUFFICES ASSUME gossip, ~missed, ~raced PROVE Follows(sync', Reach') /\ Reach' <= local + 1
    BY <1>1, <1>3 DEF InOrder
  <2>1. Follows(sync, Reach)
    BY DEF SyncInv, InOrder
  <2>2. Reach = local
    BY <1>5, <1>6 DEF Reach, Importers
  <2>3. Reach' = local
    BY <1>1, <1>4, <1>5, <1>6 DEF Reach, Idle
  <2> QED
    BY <1>2, <1>7, <2>1, <2>2, <2>3
<1>10. ChainStep
  BY <1>1, <1>2, <1>3, <1>4, <1>6, <1>7, <1>8, <1>9 DEF SyncInv, NetOK, ChainStep, EndsOnlyWithCause
<1> QED
  BY <1>1, <1>7, <1>10, StepKeeps

-----------------------------------------------------------------------------
(* The peers and the ticker.                                               *)

\* The answer to a request bears its id, and answers what was asked.
LEMMA AnswerFits ==
    ASSUME NetOK, NEW q \in Message, ~IsAnswer(q)
    PROVE  /\ Answer(q) \in Message /\ Answer(q).id = q.id
           /\ \A p \in [id : Nat, start : Nat, limit : Nat] :
                 ForHeaders(q, p) => ForHeaders(Answer(q), p)
           /\ \A p \in [id : Nat, height : Nat] : ForBlock(q, p) => ForBlock(Answer(q), p)
<1>1. /\ q.type = "Request" /\ q.id \in Nat /\ q.kind \in {"Headers", "Block"}
      /\ q.start \in Nat /\ q.limit \in Nat
  BY MessageKinds DEF IsAnswer
<1>2. CASE q.kind = "Headers"
  <2> DEFINE to == IF Keeps(q.start) THEN AtMost(q.start + q.limit - 1, tip) ELSE q.start - 1
  <2>1. to \in Int /\ to < q.start + q.limit
    BY <1>1 DEF AtMost, NetOK
  <2> HIDE DEF to
  <2>2. Answer(q) = [type |-> "Headers", id |-> q.id, from |-> q.start, to |-> to]
    BY <1>2 DEF Answer, to
  <2> QED
    BY <1>1, <1>2, <2>1, <2>2 DEF Message, ForHeaders, ForBlock
<1>3. CASE q.kind = "Block"
  <2> DEFINE height == IF Keeps(q.start) THEN q.start ELSE 0
  <2>1. height \in Nat /\ height \in {0, q.start}
    BY <1>1
  <2> HIDE DEF height
  <2>2. Answer(q) = [type |-> "Block", id |-> q.id, height |-> height]
    BY <1>3 DEF Answer, height
  <2> QED
    BY <1>1, <1>3, <2>1, <2>2 DEF Message, ForHeaders, ForBlock
<1> QED
  BY <1>1, <1>2, <1>3

LEMMA ServeKeeps ==
    ASSUME SyncInv, NEW c \in Conns, NEW q \in wire[c], Serve(c, q)
    PROVE  SyncInv'
<1> DEFINE a == Answer(q)
<1>1. /\ wire' = [wire EXCEPT ![c] = (@ \ {q}) \cup {a}]
      /\ UNCHANGED <<conn, table, recent, registry, sinks, faults, trouble, syncVars>>
  BY DEF Serve
<1>2. wire \in Wires /\ q \in Message /\ NetOK
  BY DEF SyncInv, NetOK, Wires
<1>3. /\ a \in Message /\ a.id = q.id
      /\ \A p \in [id : Nat, start : Nat, limit : Nat] : ForHeaders(q, p) => ForHeaders(a, p)
      /\ \A p \in [id : Nat, height : Nat] : ForBlock(q, p) => ForBlock(a, p)
  BY <1>2, AnswerFits DEF Serve
<1> HIDE DEF a
<1>4. /\ wire' \in Wires
      /\ \A d \in Conns : \A m \in wire'[d] : (m \in wire[d] /\ ~(d = c /\ m = q)) \/ (d = c /\ m = a)
      /\ \A d \in Conns : \A m \in wire[d] : m \in wire'[d] \/ (d = c /\ m = q)
      /\ a \in wire'[c]
  BY <1>1, <1>2, <1>3 DEF Wires
<1>5. NetOK'
  BY <1>1, <1>4 DEF SyncInv, NetOK, syncVars, chainVars
<1>6. Connected'
  BY <1>1 DEF SyncInv, Connected
<1>7. IdsOK'
  BY <1>1, <1>3, <1>4, IdsInUse, IdsKept DEF SyncInv, syncVars
<1>a. UNCHANGED <<Reach, Stored, Idle("gossip"), Idle("consensus")>>
  BY <1>1 DEF Reach, Stored, Idle, syncVars, chainVars
<1>8. IdsUnique(wire')
  BY <1>3, <1>4 DEF SyncInv, IdsUnique
<1>9. Matches(sync', wire')
  <2> SUFFICES ASSUME NEW d \in Conns, NEW m \in wire'[d]
               PROVE  /\ \A p \in sync.pending_headers :
                            p.id = m.id => d = sync.active_peer /\ ForHeaders(m, p)
                      /\ \A p \in sync.pending_block :
                            p.id = m.id => d = sync.active_peer /\ ForBlock(m, p)
    BY <1>1 DEF Matches, syncVars
  <2>1. CASE m \in wire[d]
    BY <2>1 DEF SyncInv, Matches
  <2>2. CASE d = c /\ m = a
    <3>1. /\ sync.pending_headers \subseteq [id : Nat, start : Nat, limit : Nat]
          /\ sync.pending_block \subseteq [id : Nat, height : Nat]
      BY DEF SyncInv, SyncOK
    <3> QED
      BY <1>3, <2>2, <3>1 DEF SyncInv, Matches
  <2> QED
    BY <1>4, <2>1, <2>2
<1>10. ~trouble' /\ gossip' => Comes(sync', wire')
  <2> SUFFICES ASSUME ~trouble, gossip, NEW p \in Awaited(sync)
               PROVE  \E m \in wire'[sync.active_peer] : m.id = p.id
    BY <1>1 DEF Comes, syncVars
  <2>1. sync.active_peer \in Conns
    BY DEF SyncInv, SyncOK
  <2>2. PICK m \in wire[sync.active_peer] : m.id = p.id
    BY DEF SyncInv, Comes
  <2> QED
    BY <1>3, <1>4, <2>1, <2>2
<1>11. SyncOK(sync') /\ InOrder' /\ EndsOnlyWithCause'
  BY <1>1, <1>a DEF SyncInv, InOrder, EndsOnlyWithCause, syncVars, chainVars
<1>12. (~raced => Timely(sync, local) /\ Lined)'
  BY <1>1, <1>a DEF SyncInv, Lined, syncVars, chainVars
<1>13. GossipImports'
  BY <1>1 DEF SyncInv, GossipImports, Idle, syncVars, chainVars
<1> QED
  BY <1>5, <1>6, <1>7, <1>8, <1>9, <1>10, <1>11, <1>12, <1>13 DEF SyncInv

LEMMA SyncWithBestPeerKeeps ==
    ASSUME SyncInv, SyncWithBestPeer
    PROVE  SyncInv'
<1> DEFINE ahead == {c \in DOMAIN table : table[c].best_height > local}
           P(c) == \A d \in ahead : Better(c, d)
           best == CHOOSE c \in ahead : P(c)
           top == table[best].best_height
           s == IF sync.active_peer # best THEN SwitchTo(sync, best, top)
                ELSE [sync EXCEPT !.target_height = IF top > @ THEN top ELSE @]
<1>1. /\ ahead # {} /\ ThenContinue(s, best, local, wire)
      /\ UNCHANGED <<conn, table, recent, registry, sinks, faults, trouble,
                     chainVars, gossip, tip, sent, raced, missed, refused>>
  BY DEF SyncWithBestPeer
<1>a. UNCHANGED <<local, engine, importing, Reach, Stored, Idle("gossip"), Idle("consensus")>>
  BY <1>1 DEF Reach, Stored, Idle, chainVars
<1>b. (Lined => Lined') /\ GossipImports' /\ Reach \in Nat
  BY <1>1, <1>a, ImportTypes DEF SyncInv, Lined, GossipImports
<1>2. best \in DOMAIN table /\ best \in Conns /\ top \in Nat
  <2>1. ahead \subseteq DOMAIN table
    OBVIOUS
  <2> HIDE DEF ahead
  <2>2. \E c \in ahead : P(c)
    BY <1>1, <2>1, BestExists DEF SyncInv
  <2> HIDE DEF P
  <2>3. best \in ahead
    BY <2>2
  <2> QED
    BY <2>1, <2>3 DEF SyncInv, NetOK, PeerEntry
<1> HIDE DEF best, top
<1>3. CASE sync.active_peer # best
  <2>1. s = [active_peer |-> best, target_height |-> top, pending_headers |-> {},
             pending_block |-> {}, queued_heights |-> << >>]
    BY <1>3 DEF SwitchTo, SyncInv, SyncOK
  <2> HIDE DEF s
  <2>2. /\ s.active_peer = best /\ s.target_height = top /\ s.pending_headers = {}
        /\ s.pending_block = {} /\ s.queued_heights = << >>
    BY <2>1
  <2>3. SyncOK(s) /\ Awaited(s) = {}
    BY <1>2, <2>1, <2>2 DEF SyncOK, Awaited
  <2>4. Matches(s, wire) /\ Comes(s, wire) /\ (\A r \in Nat : Follows(s, r)) /\ Timely(s, local)
    BY <2>2, <2>3 DEF Matches, Comes, Follows, Timely
  <2>5. /\ wire' \in Wires /\ SyncOK(sync') /\ IdsUnique(wire') /\ Matches(sync', wire') /\ IdsOK'
        /\ best \in sinks => Comes(sync', wire')
        /\ (\A r \in Nat : Follows(sync', r)) /\ Timely(sync', local)
    BY <1>1, <1>2, <2>3, <2>4, ContinueKeeps DEF SyncInv, NetOK
  <2>6. NetOK' /\ Connected'
    BY <1>1, <1>a, <2>5 DEF SyncInv, NetOK, Connected
  <2>a. InOrder'
    BY <1>1, <1>a, <1>b, <2>5 DEF SyncInv, InOrder
  <2>7. ~trouble => best \in sinks
    BY <1>2 DEF SyncInv, Connected
  <2> QED
    BY <1>1, <1>a, <1>b, <2>5, <2>6, <2>7, <2>a DEF SyncInv, EndsOnlyWithCause
<1>4. CASE sync.active_peer = best
  <2> DEFINE t == IF top > sync.target_height THEN top ELSE sync.target_height
  <2>1. s = [sync EXCEPT !.target_height = t]
    BY <1>4
  <2>a. t \in Nat /\ SyncOK(sync)
    BY <1>2 DEF SyncInv, SyncOK
  <2> HIDE DEF s, t
  <2>2. s = [active_peer |-> sync.active_peer, target_height |-> t,
             pending_headers |-> sync.pending_headers, pending_block |-> sync.pending_block,
             queued_heights |-> sync.queued_heights]
    BY <2>1, <2>a DEF SyncOK
  <2>3. /\ s.active_peer = sync.active_peer /\ s.target_height = t
        /\ s.pending_headers = sync.pending_headers
        /\ s.pending_block = sync.pending_block /\ s.queued_heights = sync.queued_heights
    BY <2>2
  <2>4. SyncOK(s) /\ Awaited(s) = Awaited(sync)
    BY <2>a, <2>2, <2>3 DEF SyncOK, Awaited
  <2>5. Matches(s, wire) /\ (Comes(sync, wire) => Comes(s, wire))
        /\ (\A r \in Nat : Follows(sync, r) => Follows(s, r)) /\ (Timely(sync, local) => Timely(s, local))
    BY <2>3, <2>4 DEF SyncInv, Matches, Comes, Follows, Timely
  <2>6. /\ wire' \in Wires /\ SyncOK(sync') /\ IdsUnique(wire') /\ Matches(sync', wire') /\ IdsOK'
        /\ best \in sinks /\ Comes(s, wire) => Comes(sync', wire')
        /\ \A r \in Nat : Follows(s, r) => Follows(sync', r)
        /\ Timely(s, local) => Timely(sync', local)
    BY <1>1, <1>2, <2>4, <2>5, ContinueKeeps DEF SyncInv, NetOK
  <2>7. NetOK' /\ Connected'
    BY <1>1, <1>a, <2>6 DEF SyncInv, NetOK, Connected
  <2>b. InOrder'
    BY <1>1, <1>a, <1>b, <2>5, <2>6 DEF SyncInv, InOrder
  <2>8. ~trouble => best \in sinks
    BY <1>2 DEF SyncInv, Connected
  <2> QED
    BY <1>1, <1>a, <1>b, <2>5, <2>6, <2>7, <2>8, <2>b DEF SyncInv, EndsOnlyWithCause
<1> QED
  BY <1>3, <1>4

-----------------------------------------------------------------------------
(* Answers.                                                                *)

Without(c, m) == [wire EXCEPT ![c] = @ \ {m}]

\* The wires without m: what matches still does, and what is awaited still
\* comes unless m was it.
LEMMA TakenWire ==
    ASSUME SyncInv, NEW c \in Conns, NEW m \in wire[c], IsAnswer(m)
    PROVE  /\ Without(c, m) \in Wires /\ \A d \in Conns : Without(c, m)[d] \subseteq wire[d]
           /\ IdsUnique(Without(c, m)) /\ Matches(sync, Without(c, m))
           /\ \/ sync.active_peer # c
              \/ /\ m.type = "Headers" /\ {p \in sync.pending_headers : p.id = m.id} = {}
              \/ /\ m.type = "Block" /\ {p \in sync.pending_block : p.id = m.id} = {}
              => (Comes(sync, wire) => Comes(sync, Without(c, m)))
<1> DEFINE w == Without(c, m)
<1>1. w \in Wires /\ \A d \in Conns : w[d] \subseteq wire[d]
  BY DEF SyncInv, NetOK, Wires, Without
<1>2. IdsUnique(w) /\ Matches(sync, w)
  BY <1>1, ShrinkKeeps DEF SyncInv
<1>3. \A d \in Conns : \A n \in wire[d] : n \in w[d] \/ (d = c /\ n = m)
  BY DEF SyncInv, NetOK, Wires, Without
<1> HIDE DEF w
<1>4. ASSUME \/ sync.active_peer # c
             \/ /\ m.type = "Headers" /\ {p \in sync.pending_headers : p.id = m.id} = {}
             \/ /\ m.type = "Block" /\ {p \in sync.pending_block : p.id = m.id} = {},
             Comes(sync, wire), NEW p \in Awaited(sync)
      PROVE  \E n \in w[sync.active_peer] : n.id = p.id
  <2>1. sync.active_peer \in Conns
    BY DEF SyncInv, SyncOK
  <2>2. PICK n \in wire[sync.active_peer] : n.id = p.id
    BY <1>4 DEF Comes
  <2>3. CASE n \in w[sync.active_peer]
    BY <2>2, <2>3
  <2>4. CASE sync.active_peer = c /\ n = m
    <3>1. p \in sync.pending_headers => ForHeaders(m, p)
      BY <2>2, <2>4 DEF SyncInv, Matches
    <3>2. p \in sync.pending_block => ForBlock(m, p)
      BY <2>2, <2>4 DEF SyncInv, Matches
    <3> QED
      BY <1>4, <2>2, <2>4, <3>1, <3>2 DEF Awaited, ForHeaders, ForBlock, IsAnswer
  <2> QED
    BY <1>3, <2>1, <2>2, <2>3, <2>4
<1> QED
  BY <1>1, <1>2, <1>4 DEF Comes, w

\* What handling an answer of c leaves behind.
Handled(c) ==
    /\ SyncStep
    /\ importing' \in Imports /\ gossip' \in BOOLEAN
    /\ missed' \in BOOLEAN /\ raced' \in BOOLEAN
    /\ ~Idle("gossip")' => gossip' /\ importing'["gossip"].from = c
    /\ InOrder' /\ EndsOnlyWithCause'
    /\ ~raced' => Timely(sync', local') /\ Lined'

\* Without a new import.
LEMMA HandledAtOnce ==
    ASSUME SyncInv, NEW c, Idle("gossip"), UNCHANGED <<importing, raced, local, engine, refused>>,
           SyncStep, gossip' \in BOOLEAN, missed' \in BOOLEAN,
           gossip' /\ ~missed' /\ ~raced => Follows(sync', local),
           ~raced => Timely(sync', local),
           gossip' \/ raced \/ missed' \/ refused
    PROVE  Handled(c)
<1>1. UNCHANGED <<Stored, Idle("gossip"), Idle("consensus")>>
  BY DEF Stored, Idle
<1>2. Reach' = local /\ local \in Nat
  BY <1>1 DEF Reach, SyncInv, NetOK
<1>3. InOrder'
  BY <1>2 DEF InOrder
<1>4. ~raced' => Timely(sync', local') /\ Lined'
  BY <1>1 DEF SyncInv, Lined
<1> QED
  BY <1>1, <1>3, <1>4 DEF Handled, SyncInv, NetOK, EndsOnlyWithCause

\* An answer nobody waits for.
LEMMA StrayKeeps ==
    ASSUME SyncInv, NEW c \in Conns, NEW m \in wire[c], IsAnswer(m), Idle("gossip"),
           wire' = Without(c, m),
           UNCHANGED <<sync, gossip, local, engine, importing, raced, missed, refused>>,
           \/ ~gossip
           \/ sync.active_peer # c
           \/ /\ m.type = "Headers" /\ {p \in sync.pending_headers : p.id = m.id} = {}
           \/ /\ m.type = "Block" /\ {p \in sync.pending_block : p.id = m.id} = {}
    PROVE  Handled(c)
<1> DEFINE w == Without(c, m)
<1>1. /\ w \in Wires /\ \A d \in Conns : w[d] \subseteq wire[d]
      /\ IdsUnique(w) /\ Matches(sync, w)
      /\ gossip => (Comes(sync, wire) => Comes(sync, w))
  BY TakenWire
<1> HIDE DEF w
<1>2. IdsOK'
  BY <1>1, IdsInUse, IdsKept DEF SyncInv, w
<1>3. SyncOK(sync') /\ IdsUnique(wire') /\ Matches(sync', wire') /\ wire' \in Wires
  BY <1>1 DEF SyncInv, w
<1>4. ~trouble /\ gossip' => Comes(sync', wire')
  BY <1>1 DEF SyncInv, w
<1>5. SyncStep
  BY <1>2, <1>3, <1>4 DEF SyncStep
<1>6. /\ gossip' \in BOOLEAN /\ missed' \in BOOLEAN
      /\ gossip' /\ ~missed' /\ ~raced => Follows(sync', local)
      /\ ~raced => Timely(sync', local)
      /\ gossip' \/ raced \/ missed' \/ refused
  BY DEF SyncInv, NetOK, EndsOnlyWithCause, InOrder, Reach
<1> QED
  BY <1>5, <1>6, HandledAtOnce

\* The state once the headers awaited have come, with the blocks to ask for.
LEMMA HeadersTaken ==
    ASSUME SyncOK(sync), NEW queue \in Seq(Nat), NEW s,
           s = [sync EXCEPT !.pending_headers = {}, !.queued_heights = queue],
           sync.pending_headers # {}
    PROVE  /\ SyncOK(s) /\ Awaited(s) = {} /\ s.queued_heights = queue
           /\ s.pending_block = {} /\ s.pending_headers = {}
<1>1. s = [active_peer |-> sync.active_peer, target_height |-> sync.target_height,
           pending_headers |-> {}, pending_block |-> sync.pending_block,
           queued_heights |-> queue]
  BY DEF SyncOK
<1>2. /\ s.active_peer = sync.active_peer /\ s.target_height = sync.target_height
      /\ s.pending_headers = {} /\ s.pending_block = {} /\ s.queued_heights = queue
  BY <1>1 DEF SyncOK
<1>3. SyncOK(s)
  BY <1>1, <1>2 DEF SyncOK, Awaited
<1> QED
  BY <1>2, <1>3 DEF Awaited

LEMMA BlockTaken ==
    ASSUME SyncOK(sync), NEW s, s = [sync EXCEPT !.pending_block = {}],
           sync.pending_block # {}
    PROVE  /\ SyncOK(s) /\ Awaited(s) = {} /\ s.queued_heights = sync.queued_heights
           /\ s.pending_block = {} /\ s.pending_headers = {}
<1>1. s = [active_peer |-> sync.active_peer, target_height |-> sync.target_height,
           pending_headers |-> sync.pending_headers, pending_block |-> {},
           queued_heights |-> sync.queued_heights]
  BY DEF SyncOK
<1>2. /\ s.active_peer = sync.active_peer /\ s.target_height = sync.target_height
      /\ s.pending_headers = {} /\ s.pending_block = {}
      /\ s.queued_heights = sync.queued_heights
  BY <1>1 DEF SyncOK
<1>3. SyncOK(s)
  BY <1>1, <1>2 DEF SyncOK, Awaited
<1> QED
  BY <1>2, <1>3 DEF Awaited

LEMMA OnHeadersKeeps ==
    ASSUME SyncInv, NEW c \in Conns, NEW m \in wire[c], m.type = "Headers", gossip,
           OnHeaders(c, m, Without(c, m)), Idle("gossip"),
           UNCHANGED <<local, engine, refused>>, ~trouble => c \in sinks
    PROVE  Handled(c)
<1> DEFINE w == Without(c, m)
           asked == {p \in sync.pending_headers : p.id = m.id}
           pending == CHOOSE p \in sync.pending_headers : TRUE
           heights == [i \in 1..(m.to - m.from + 1) |-> m.from + i - 1]
<1>1. IsAnswer(m) /\ SyncOK(sync) /\ local \in Nat /\ m \in Message
  BY DEF IsAnswer, SyncInv, NetOK, Wires
<1>2. /\ w \in Wires /\ \A d \in Conns : w[d] \subseteq wire[d]
      /\ IdsUnique(w) /\ Matches(sync, w)
  BY <1>1, TakenWire
<1>3. UNCHANGED <<importing, raced, missed>> /\ missed \in BOOLEAN
  BY DEF OnHeaders, SyncInv, NetOK
<1>4. CASE sync.active_peer # c \/ asked = {}
  <2>1. wire' = w /\ UNCHANGED <<sync, gossip>>
    BY <1>4 DEF OnHeaders
  <2> QED
    BY <1>1, <1>3, <1>4, <2>1, StrayKeeps
<1>5. CASE sync.active_peer = c /\ asked # {}
  <2>1. PICK p \in sync.pending_headers : p.id = m.id
    BY <1>5
  <2>2. pending = p /\ sync.pending_headers # {} /\ sync.queued_heights = << >>
    BY <1>1, <2>1 DEF SyncOK
  <2>3. p.start \in Nat /\ p.limit \in Nat /\ m.from \in Nat /\ m.to \in Int
    BY <1>1, <2>1, MessageKinds DEF SyncOK
  <2>4. m.from = p.start /\ m.to < p.start + p.limit
    BY <2>1 DEF SyncInv, Matches, ForHeaders
  <2> HIDE DEF pending
  <2>5. CASE ValidateHeaderBatch(m, p)
    <3> DEFINE s == [sync EXCEPT !.pending_headers = {}, !.queued_heights = sync.queued_heights \o heights]
    <3> DEFINE n == IF m.to >= m.from THEN m.to - m.from + 1 ELSE 0
    <3>a. n \in Nat /\ 1..(m.to - m.from + 1) = 1..n
      BY <2>3
    <3>b. heights = [i \in 1..n |-> m.from + i - 1]
      BY <3>a
    <3>c. \A i \in 1..n : m.from + i - 1 \in Nat
      BY <2>3, <3>a
    <3>1. heights \in Seq(Nat) /\ Len(heights) = n /\ sync.queued_heights \o heights = heights
      <4> HIDE DEF n, heights
      <4>1. heights \in Seq(Nat) /\ Len(heights) = n
        BY <3>a, <3>b, <3>c
      <4> QED
        BY <2>2, <4>1
    <3>2. m.to >= m.from => m.from = local + 1
      BY <2>5 DEF ValidateHeaderBatch
    <3>3. /\ heights # << >> => heights[1] = local + 1
          /\ \A i \in 1..(Len(heights) - 1) : heights[i + 1] = heights[i] + 1
      <4>1. \A i \in 1..n : heights[i] = m.from + i - 1
        BY <3>b
      <4>2. heights # << >> => n >= 1
        <5> HIDE DEF heights
        <5> QED
          BY <3>a, <3>1
      <4> HIDE DEF heights
      <4>3. heights # << >> => heights[1] = local + 1
        BY <1>1, <2>3, <3>a, <3>2, <4>1, <4>2
      <4>4. \A i \in 1..(n - 1) : heights[i + 1] = heights[i] + 1
        <5> HIDE DEF n
        <5>1. SUFFICES ASSUME NEW i \in 1..(n - 1) PROVE heights[i + 1] = heights[i] + 1
          OBVIOUS
        <5>2. i \in 1..n /\ i + 1 \in 1..n /\ i \in Int
          BY <3>a
        <5>3. heights[i] = m.from + i - 1 /\ heights[i + 1] = m.from + (i + 1) - 1
          BY <4>1, <5>2
        <5> QED
          BY <2>3, <5>2, <5>3
      <4> QED
        BY <3>1, <4>3, <4>4
    <3>4. ThenContinue(s, c, local, w) /\ gossip' = gossip
      BY <1>5, <2>2, <2>5 DEF OnHeaders, pending
    <3> HIDE DEF s, heights
    <3>5. /\ SyncOK(s) /\ Awaited(s) = {} /\ s.queued_heights = heights
          /\ s.pending_block = {} /\ s.pending_headers = {}
      BY <1>1, <2>2, <3>1, HeadersTaken DEF s
    <3>6. Matches(s, w) /\ Comes(s, w) /\ Timely(s, local)
      BY <3>5 DEF Matches, Comes, Timely
    <3>7. Follows(s, local)
      BY <1>1, <3>3, <3>5 DEF Follows
    <3>8. /\ wire' \in Wires /\ SyncOK(sync') /\ IdsUnique(wire') /\ Matches(sync', wire') /\ IdsOK'
          /\ c \in sinks => Comes(sync', wire')
          /\ Follows(sync', local) /\ Timely(sync', local)
      BY <1>1, <1>2, <3>4, <3>5, <3>6, <3>7, ContinueKeeps DEF SyncInv
    <3>9. SyncStep
      BY <3>8 DEF SyncStep
    <3> QED
      BY <1>3, <3>4, <3>8, <3>9, HandledAtOnce
  <2>6. CASE ~ValidateHeaderBatch(m, p)
    <3>1. sync' = [sync EXCEPT !.pending_headers = {}] /\ gossip' = FALSE /\ wire' = w
      BY <1>5, <2>2, <2>6 DEF OnHeaders, pending
    <3> DEFINE s == [sync EXCEPT !.pending_headers = {}, !.queued_heights = << >>]
    <3>2. sync' = s
      BY <1>1, <2>2, <3>1 DEF SyncOK
    <3> HIDE DEF s
    <3>3. /\ SyncOK(sync') /\ Awaited(sync') = {} /\ sync'.queued_heights = << >>
          /\ sync'.pending_block = {} /\ sync'.pending_headers = {}
      <4>1. << >> \in Seq(Nat)
        OBVIOUS
      <4> QED
        BY <1>1, <2>2, <3>2, <4>1, HeadersTaken DEF s
    <3>4. raced
      BY <1>1, <2>1, <2>3, <2>4, <2>6 DEF ValidateHeaderBatch, SyncInv, Timely
    <3>5. Matches(sync', wire') /\ Follows(sync', local) /\ IdsUnique(wire') /\ wire' \in Wires
      BY <1>2, <3>1, <3>3 DEF Matches, Follows
    <3>6. IdsOK'
      BY <1>2, <3>1, <3>3, IdsInUse, IdsKept DEF SyncInv
    <3>7. SyncStep /\ Timely(sync', local)
      BY <3>1, <3>3, <3>5, <3>6 DEF SyncStep, Timely
    <3> QED
      BY <1>3, <3>1, <3>4, <3>5, <3>7, HandledAtOnce
  <2> QED
    BY <2>5, <2>6
<1> QED
  BY <1>4, <1>5

LEMMA OnBlockKeeps ==
    ASSUME SyncInv, NEW c \in Conns, NEW m \in wire[c], m.type = "Block", gossip,
           OnBlock(c, m, Without(c, m)), Idle("gossip"),
           UNCHANGED <<local, engine, refused, gossip>>, ~trouble => c \in sinks
    PROVE  Handled(c)
<1> DEFINE w == Without(c, m)
           asked == {p \in sync.pending_block : p.id = m.id}
           s == [sync EXCEPT !.pending_block = {}]
<1>1. IsAnswer(m) /\ SyncOK(sync) /\ local \in Nat /\ m \in Message /\ missed \in BOOLEAN
  BY DEF IsAnswer, SyncInv, NetOK, Wires
<1>2. /\ w \in Wires /\ \A d \in Conns : w[d] \subseteq wire[d]
      /\ IdsUnique(w) /\ Matches(sync, w)
  BY <1>1, TakenWire
<1>3. CASE sync.active_peer # c \/ asked = {}
  <2>1. wire' = w /\ UNCHANGED <<sync, importing, raced, missed>>
    BY <1>3 DEF OnBlock
  <2> QED
    BY <1>1, <1>3, <2>1, StrayKeeps
<1>4. CASE sync.active_peer = c /\ asked # {}
  <2>1. PICK p \in sync.pending_block : p.id = m.id
    BY <1>4
  <2>2. p.height \in Nat /\ m.height \in Nat /\ sync.pending_block = {p} /\ asked = {p}
    BY <1>1, <2>1, MessageKinds DEF SyncOK
  <2>3. m.height \in {0, p.height}
    BY <2>1 DEF SyncInv, Matches, ForBlock
  <2> DEFINE q == sync.queued_heights
  <2>4. ~missed /\ ~raced => /\ \A i \in 1..(Len(q) - 1) : q[i + 1] = q[i] + 1
                             /\ p.height <= local + 1 /\ (q # << >> => q[1] = p.height + 1)
    BY <2>1 DEF SyncInv, InOrder, Reach, Follows
  <2> HIDE DEF s
  <2>5. /\ SyncOK(s) /\ Awaited(s) = {} /\ s.queued_heights = q
        /\ s.pending_block = {} /\ s.pending_headers = {}
    BY <1>1, <2>2, BlockTaken DEF s
  <2>6. Matches(s, w) /\ Comes(s, w) /\ \A h \in Nat : Timely(s, h)
    BY <2>5 DEF Matches, Comes, Timely
  <2>7. CASE m.height = 0
    <3>1. /\ ThenContinue(s, c, local, w) /\ UNCHANGED <<importing, raced>>
          /\ missed' = (missed \/ p.height > local)
      BY <1>4, <2>2, <2>7 DEF OnBlock, s
    <3>2. missed' \in BOOLEAN
      BY <1>1, <2>2, <3>1
    <3>3. ~missed' /\ ~raced => Follows(s, local)
      <4> SUFFICES ASSUME ~missed', ~raced PROVE Follows(s, local)
        OBVIOUS
      <4>1. ~missed /\ p.height <= local
        <5>1. ~missed /\ ~(p.height > local)
          BY <3>1, Zenon
        <5> QED
          BY <1>1, <2>2, <5>1
      <4>2. q # << >> => q[1] <= local + 1
        BY <1>1, <2>2, <2>4, <4>1
      <4> QED
        BY <2>4, <2>5, <4>1, <4>2 DEF Follows
    <3>4. /\ wire' \in Wires /\ SyncOK(sync') /\ IdsUnique(wire') /\ Matches(sync', wire') /\ IdsOK'
          /\ c \in sinks => Comes(sync', wire')
          /\ Follows(s, local) => Follows(sync', local)
          /\ Timely(sync', local)
      BY <1>1, <1>2, <2>5, <2>6, <3>1, ContinueKeeps DEF SyncInv
    <3>5. SyncStep
      BY <3>4 DEF SyncStep
    <3> QED
      BY <3>1, <3>2, <3>3, <3>4, <3>5, HandledAtOnce
  <2>8. CASE m.height # 0
    <3>1. sync' = s /\ wire' = w /\ Begin("gossip", m.height, c) /\ missed' = missed
      BY <1>4, <2>2, <2>8 DEF OnBlock, s
    <3>2. m.height = p.height
      BY <2>3, <2>8
    <3>3. /\ importing' \in Imports /\ raced' \in BOOLEAN /\ (raced => raced')
          /\ importing'["gossip"] = [at |-> "taken", height |-> m.height, from |-> c]
          /\ ~raced' => Lined'
      <4>1. "gossip" \in Importers
        BY DEF Importers
      <4> QED
        BY <2>2, <3>1, <4>1, BeginTyped
    <3>4. ~Idle("gossip")' /\ importing'["gossip"].from = c /\ Reach' = p.height
      BY <3>2, <3>3 DEF Idle, Reach
    <3>5. InOrder'
      <4> SUFFICES ASSUME ~missed, ~raced PROVE Follows(s, p.height) /\ p.height <= local + 1
        BY <3>1, <3>3, <3>4 DEF InOrder
      <4>1. q # << >> => q[1] <= p.height + 1
        BY <2>2, <2>4
      <4> QED
        BY <2>4, <2>5, <4>1 DEF Follows
    <3>6. IdsOK'
      BY <1>2, <2>5, <3>1, IdsInUse, IdsKept DEF SyncInv
    <3>7. SyncStep
      BY <1>2, <2>5, <2>6, <3>1, <3>6 DEF SyncStep
    <3>8. ~raced' => Timely(sync', local') /\ Lined'
      BY <1>1, <2>6, <3>1, <3>3
    <3> QED
      BY <1>1, <3>1, <3>3, <3>4, <3>5, <3>7, <3>8 DEF Handled, EndsOnlyWithCause
  <2> QED
    BY <2>7, <2>8
<1> QED
  BY <1>3, <1>4

LEMMA OnAnswerKeeps ==
    ASSUME SyncInv, NEW c \in Conns, NEW m \in wire[c], OnAnswer(c, m)
    PROVE  SyncInv'
<1>1. /\ IsAnswer(m) /\ Idle("gossip") /\ Receive(c, m)
      /\ UNCHANGED <<faults, local, engine, tip, sent, refused>>
      /\ IF ~gossip THEN wire' = Without(c, m) /\ UNCHANGED <<sync, gossip, importing, raced, missed>>
         ELSE IF m.type = "Headers" THEN OnHeaders(c, m, Without(c, m))
         ELSE OnBlock(c, m, Without(c, m)) /\ UNCHANGED gossip
  BY DEF OnAnswer, Without
<1>2. Told(m)
  BY <1>1 DEF Told, IsAnswer
<1>3. /\ conn' \in [Conns -> {"new", "checked", "open", "banned", "closed"}]
      /\ DOMAIN table' = DOMAIN table /\ table' \in [DOMAIN table -> PeerEntry]
      /\ trouble' \in BOOLEAN /\ (trouble => trouble') /\ Connected'
      /\ c \in DOMAIN table
  BY <1>1, <1>2, ReceiveKeeps DEF SyncInv
<1>4. ~trouble => c \in sinks
  BY <1>3 DEF SyncInv, Connected
<1>5. Handled(c)
  <2>1. CASE ~gossip
    BY <1>1, <2>1, StrayKeeps
  <2>2. CASE gossip /\ m.type = "Headers"
    BY <1>1, <1>4, <2>2, OnHeadersKeeps
  <2>3. CASE gossip /\ m.type # "Headers"
    BY <1>1, <1>4, <2>3, OnBlockKeeps DEF IsAnswer
  <2> QED
    BY <2>1, <2>2, <2>3
<1>6. NetOK'
  BY <1>1, <1>3, <1>5 DEF SyncInv, NetOK, Handled, SyncStep
<1>7. GossipImports'
  BY <1>3, <1>5 DEF Handled, GossipImports
<1> QED
  BY <1>1, <1>3, <1>5, <1>6, <1>7 DEF SyncInv, Handled, SyncStep

-----------------------------------------------------------------------------
(* Theorems.                                                               *)

LEMMA InitSync == Init => SyncInv
<1> SUFFICES ASSUME Init PROVE SyncInv
  OBVIOUS
<1>1. NetOK
  <2>1. table = << >> /\ DOMAIN table = {}
    BY DEF Init, NetInit
  <2>2. table \in [DOMAIN table -> PeerEntry]
    BY <2>1
  <2> QED
    BY <2>1, <2>2, SyncAssumption DEF Init, NetInit, NetOK, Wires, Imports, NotImporting, NoPeer
<1>2. Connected
  BY DEF Init, NetInit, Connected
<1>3. /\ sync.active_peer = NoPeer /\ sync.target_height = 0 /\ sync.pending_headers = {}
      /\ sync.pending_block = {} /\ sync.queued_heights = << >>
  BY DEF Init, NoSync
<1>4. SyncOK(sync)
  BY <1>3 DEF Init, NoSync, SyncOK, Awaited
<1>5. \A c \in Conns : wire[c] = {}
  BY DEF Init, NetInit
<1>6. IdsUnique(wire) /\ Matches(sync, wire) /\ Comes(sync, wire)
  BY <1>3, <1>5 DEF IdsUnique, Matches, Comes, Awaited
<1>7. (\A r \in Nat : Follows(sync, r)) /\ Timely(sync, local) /\ EndsOnlyWithCause
  BY <1>3 DEF Init, Follows, Timely, EndsOnlyWithCause
<1>a. /\ importing \in Imports /\ \A t \in Importers : importing[t].at = "idle"
      /\ local = 0 /\ engine = 1
  BY DEF Init, NotImporting, NoPeer, Imports
<1>b. GossipImports /\ InOrder /\ Lined
  BY <1>7, <1>a DEF GossipImports, InOrder, Lined, Stored, Idle, Reach, Importers
<1>8. IdsOK
  <2>1. InUse = {}
    BY <1>3, <1>5 DEF InUse
  <2> QED
    BY <2>1, FS_EmptySet DEF IdsOK
<1> QED
  BY <1>1, <1>2, <1>4, <1>6, <1>7, <1>8, <1>b DEF SyncInv

LEMMA NextSync == SyncInv /\ [Next]_vars => SyncInv'
<1> SUFFICES ASSUME SyncInv, [Next]_vars PROVE SyncInv'
  OBVIOUS
<1>1. CASE StartFanout /\ UNCHANGED syncVars
  BY <1>1, StartFanoutKeeps
<1>2. CASE SyncWithBestPeer
  BY <1>2, SyncWithBestPeerKeeps
<1>3. ASSUME NEW c \in Conns, CheckLimit(c) /\ UNCHANGED syncVars PROVE SyncInv'
  BY <1>3, CheckLimitKeeps
<1>4. ASSUME NEW c \in Conns, Admit(c, StartHeight) /\ UNCHANGED syncVars PROVE SyncInv'
  BY <1>4, AdmitKeeps
<1>5. ASSUME NEW c \in Conns, CloseBanned(c) /\ UNCHANGED syncVars PROVE SyncInv'
  BY <1>5, CloseBannedKeeps
<1>6. ASSUME NEW c \in Conns, OnStatus(c) \/ OnIdleStatus(c) PROVE SyncInv'
  BY <1>6, OnStatusKeeps
<1>7. ASSUME NEW c \in Conns, OnCommit(c) PROVE SyncInv'
  BY <1>7, OnCommitKeeps
<1>8. ASSUME NEW c \in Conns, NEW m \in wire[c], Serve(c, m) PROVE SyncInv'
  BY <1>8, ServeKeeps
<1>9. ASSUME NEW c \in Conns, NEW m \in wire[c], OnAnswer(c, m) PROVE SyncInv'
  BY <1>9, OnAnswerKeeps
<1>10. CASE Grow
  BY <1>10, GrowKeeps
<1>11. ASSUME NEW c \in Conns, Cut(c) /\ UNCHANGED syncVars PROVE SyncInv'
  BY <1>11, CutKeeps
<1>12. ASSUME NEW c \in Conns, NEW m \in wire[c], Lagged(c, m) PROVE SyncInv'
  BY <1>12, LaggedKeeps
<1>a. ASSUME NEW t \in Importers, Validate(t) \/ Store(t) \/ Advance(t) PROVE SyncInv'
  BY <1>a, ValidateKeeps, StoreKeeps, AdvanceKeeps
<1>b. ASSUME NEW t \in Importers, Refuse(t) PROVE SyncInv'
  BY <1>b, RefuseKeeps
<1>13. CASE UNCHANGED vars
  <2>1. NetOK' /\ Connected'
        /\ UNCHANGED <<sync, wire, chainVars, gossip, raced, missed, refused, trouble, table>>
    BY <1>13 DEF SyncInv, NetOK, Connected, vars, netVars, syncVars, chainVars
  <2> QED
    BY <2>1, QuietKeeps
<1> QED
  BY <1>1, <1>2, <1>3, <1>4, <1>5, <1>6, <1>7, <1>8, <1>9, <1>10, <1>11, <1>12, <1>13, <1>a, <1>b
  DEF Next, TaskStep

\* SyncState fits the messages on the wires, in every state of every instance.
THEOREM SyncInvariant == Spec => []SyncInv
BY InitSync, NextSync, PTL DEF Spec

\* The blocks a node imports, awaits and has queued follow each other and its
\* own chain, whatever the batches, scores, switches between peers and ticks in
\* the middle of an import, until a peer has pruned one of them or an import or
\* headers under way crossed with another block being stored.
THEOREM BlocksFollowTheorem == Spec => []BlocksFollow
<1>1. SyncInv => BlocksFollow
  BY DEF SyncInv, InOrder, Follows, BlocksFollow
<1> QED
  BY <1>1, SyncInvariant, PTL

\* handle_sync_response fails, and ends the gossip task, for no other reason
\* than a block stored while headers or another import were under way, a block
\* pruned under the sync, or one that follows the chain and fails validation.
THEOREM EndsOnlyWithCauseTheorem == Spec => []EndsOnlyWithCause
<1>1. SyncInv => EndsOnlyWithCause
  BY DEF SyncInv
<1> QED
  BY <1>1, SyncInvariant, PTL

\* One request at a time, and as long as nothing was lost exactly one message
\* on the wire of the active peer bears the id that is awaited.
THEOREM AwaitedIsOnItsWayTheorem == Spec => []AwaitedIsOnItsWay
<1> DEFINE awaited == sync.pending_headers \cup sync.pending_block
           coming == {m \in wire[sync.active_peer] : \E p \in awaited : p.id = m.id}
<1>1. ASSUME SyncInv PROVE AwaitedIsOnItsWay
  <2>1. awaited = {} \/ \E p : awaited = {p}
    <3>1. \A p, q \in awaited : p = q
      BY <1>1 DEF SyncInv, SyncOK
    <3>2. CASE awaited # {}
      <4>1. PICK p : p \in awaited
        BY <3>2
      <4>2. awaited = {p}
        BY <3>1, <4>1
      <4> QED
        BY <4>2
    <3> QED
      BY <3>2
  <2>2. Cardinality(awaited) <= 1
    <3> HIDE DEF awaited
    <3>1. CASE awaited = {}
      BY <3>1, FS_EmptySet
    <3>2. CASE \E p : awaited = {p}
      <4>1. PICK p : awaited = {p}
        BY <3>2
      <4>2. Cardinality(awaited) = 1
        BY <4>1, FS_Singleton
      <4> QED
        BY <4>2
    <3> QED
      BY <2>1, <3>1, <3>2
  <2>3. ASSUME ~trouble, gossip, awaited # {} PROVE Cardinality(coming) = 1
    <3>1. PICK p : awaited = {p}
      BY <2>1, <2>3
    <3>2. sync.active_peer \in Conns
      BY <1>1, <2>3 DEF SyncInv, SyncOK, Awaited
    <3>3. PICK m \in wire[sync.active_peer] : m.id = p.id
      BY <1>1, <2>3, <3>1 DEF SyncInv, Comes, Awaited
    <3>4. \A n \in wire[sync.active_peer] : n.id = m.id => n = m
      BY <1>1, <3>2, <3>3 DEF SyncInv, IdsUnique
    <3>5. coming = {m}
      BY <3>1, <3>3, <3>4
    <3> QED
      BY <3>5, FS_Singleton
  <2> QED
    BY <2>2, <2>3 DEF AwaitedIsOnItsWay
<1> QED
  BY <1>1, SyncInvariant, PTL
=============================================================================
