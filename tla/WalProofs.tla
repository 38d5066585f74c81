----------------------------- MODULE WalProofs -----------------------------
(***************************************************************************)
(* The WAL of a node whose only writer is the consensus task: what has     *)
(* been acknowledged survives crashes and compactions, and the log is in   *)
(* the order of the appends.  With a second writer neither holds: two      *)
(* calls may read the same index.                                          *)
(*                                                                         *)
(* Compaction deletes the key that equals an entry's place in the list, so *)
(* the argument needs the order of the keys: the place of an entry is at   *)
(* most its index (PositionAtMost), and what lies behind an entry that was *)
(* not ahead of the engine is of its height or later (WalOrdered), because *)
(* nothing is appended for a height the engine has left.  An entry of the  *)
(* engine's height is therefore never deleted in the place of an older one *)
(* behind it; one that was ahead can be.                                   *)
(***************************************************************************)
EXTENDS WalStore, FiniteSetTheorems, TLAPS

Entry == [id : Nat, height : Nat, commit : BOOLEAN, ahead : BOOLEAN]

Call == [at : {"idle", "read", "put", "bump", "commit"},
         for : {"note", "finalize", "import", "advance"}, index : Nat, entry : Entry]

\* The call of the consensus task.
Own == call["consensus"]

WalTypeOK ==
    /\ DOMAIN keys \subseteq Nat
    /\ \A i \in DOMAIN keys : keys[i] \in Entry
    /\ next \in Nat
    /\ call \in [Writers -> Call]
    /\ height \in Nat
    /\ acked \subseteq Entry
    /\ appends \in Nat
    /\ crashes \in Nat

\* No key lies beyond the next index; one at the next index is of a call
\* that has not returned.
NextFree ==
    /\ \A i \in DOMAIN keys : i <= next
    /\ next \in DOMAIN keys => keys[next] \notin acked

\* Later keys hold later entries, and behind an entry that was not ahead of
\* the engine there is none of a lower height.
WalOrdered ==
    \A i, j \in DOMAIN keys :
        i < j => /\ keys[i].id < keys[j].id
                 /\ ~keys[i].ahead => keys[i].height <= keys[j].height

\* No entry is newer than the appends, and none that was not ahead of the
\* engine is ahead of it now.
NotAhead ==
    /\ \A i \in DOMAIN keys : /\ keys[i].id < appends
                              /\ ~keys[i].ahead => keys[i].height <= height
    /\ \A e \in acked : e.id < appends

\* A call under way holds the newest entry, of a height the engine has not
\* left, and the next index once it has read it.
OwnCall ==
    /\ Own.at # "idle" =>
          /\ Own.entry.height >= height
          /\ ~Own.entry.ahead => Own.entry.height <= height
    /\ Own.at \in {"put", "bump"} => Own.index = next
    /\ Own.at \in {"read", "put", "bump"} =>
          /\ Own.entry.id < appends
          /\ \A e \in acked : e.id < Own.entry.id
          /\ \A i \in DOMAIN keys :
                IF Own.at = "bump" /\ i = next THEN keys[i] = Own.entry
                ELSE keys[i].id < Own.entry.id
    /\ Own.at = "bump" => next \in DOMAIN keys

WalInv ==
    /\ WalTypeOK /\ NextFree /\ WalOrdered /\ NotAhead /\ OwnCall
    /\ AckedDurable

-----------------------------------------------------------------------------
(* Facts about the operators.                                              *)

\* An entry's place in the list is at most its index: below index i there
\* are at most the i keys 0..(i - 1).
LEMMA PositionAtMost ==
    ASSUME NEW map, NEW i \in Nat, DOMAIN map \subseteq Nat
    PROVE  Position(map, i) \in Nat /\ Position(map, i) <= i
<1> DEFINE Below == {j \in DOMAIN map : j < i}
<1>1. IsFiniteSet(0..(i - 1)) /\ Cardinality(0..(i - 1)) = i
  BY FS_Interval
<1>2. Below \in SUBSET (0..(i - 1))
  OBVIOUS
<1> HIDE DEF Below
<1>3. IsFiniteSet(Below) /\ Cardinality(Below) <= Cardinality(0..(i - 1))
  BY <1>1, <1>2, FS_Subset
<1>4. Cardinality(Below) \in Nat
  BY <1>3, FS_CardinalityType
<1> QED
  BY <1>1, <1>3, <1>4 DEF Position, Below

\* Compaction keeps the entries it keeps under their keys.
LEMMA CompactKeeps ==
    ASSUME NEW map, NEW below
    PROVE  /\ DOMAIN Compact(map, below) \subseteq DOMAIN map
           /\ \A i \in DOMAIN Compact(map, below) : Compact(map, below)[i] = map[i]
BY DEF Compact

\* compact_consensus_wal never deletes an entry of a height that it was told
\* to keep, although it deletes the wrong keys, if none of a lower height
\* lies behind it.
LEMMA CompactSpares ==
    ASSUME NEW map, NEW below \in Int, NEW i \in DOMAIN map,
           DOMAIN map \subseteq Nat,
           \A j \in DOMAIN map : map[j] \in Entry,
           \A j \in DOMAIN map : i < j => map[i].height <= map[j].height,
           map[i].height >= below
    PROVE  i \in DOMAIN Compact(map, below) /\ Compact(map, below)[i] = map[i]
<1> DEFINE Old == {j \in DOMAIN map : map[j].height < below}
           removed == {Position(map, j) : j \in Old}
<1>1. i \notin removed
  <2> SUFFICES ASSUME NEW j \in Old, i = Position(map, j)
               PROVE  FALSE
    OBVIOUS
  <2>1. j \in Nat /\ i \in Nat /\ i <= j
    BY PositionAtMost
  <2>2. map[i].height \in Nat /\ map[j].height \in Nat /\ map[j].height < below
    BY DEF Entry
  <2>3. i # j
    BY <2>2
  <2>4. map[i].height <= map[j].height
    BY <2>1, <2>3
  <2> QED
    BY <2>2, <2>4
<1>2. Compact(map, below) = [k \in DOMAIN map \ removed |-> map[k]]
  BY DEF Compact
<1> QED
  BY <1>1, <1>2

-----------------------------------------------------------------------------
(* The invariant.                                                          *)

LEMMA WalInitially == Init => WalInv
<1> SUFFICES ASSUME Init PROVE WalInv
  OBVIOUS
<1>1. DOMAIN keys = {}
  BY DEF Init
<1>2. NotAppending \in Call
  BY DEF NotAppending, NoEntry, Call, Entry
<1>3. call \in [Writers -> Call] /\ Own = NotAppending
  BY <1>2, WritersAssumption DEF Init, Own
<1>4. Own.at = "idle"
  BY <1>3 DEF NotAppending
<1> QED
  BY <1>1, <1>3, <1>4 DEF Init, WalInv, WalTypeOK, NextFree, WalOrdered, NotAhead, OwnCall,
     AckedDurable

\* append_wal with an entry of height h leaves the invariant, when the engine
\* works on height' and h is not below it.
LEMMA AppendKeeps ==
    ASSUME NEW for \in {"note", "finalize", "import", "advance"},
           NEW h \in Nat, NEW at \in Nat, h >= at,
           WalTypeOK, NextFree, WalOrdered, NotAhead,
           Append("consensus", for, h, at),
           DOMAIN keys' \subseteq DOMAIN keys,
           \A i \in DOMAIN keys' : keys'[i] = keys[i],
           height' = at, at >= height,
           UNCHANGED <<next, acked, crashes>>
    PROVE  (WalTypeOK /\ NextFree /\ WalOrdered /\ NotAhead /\ OwnCall)'
<1> DEFINE e == [id |-> appends, height |-> h, commit |-> for \in {"finalize", "import"},
                 ahead |-> h > at]
           c == [at |-> "read", for |-> for, index |-> 0, entry |-> e]
<1>1. call' = [call EXCEPT !["consensus"] = c] /\ appends' = appends + 1
  BY DEF Append
<1>2. e \in Entry
  BY DEF WalTypeOK, Entry
<1>3. e.id = appends /\ e.height = h /\ e.ahead = (h > at)
  BY Zenon
<1> HIDE DEF e
<1>4. c \in Call
  BY <1>2 DEF Call
<1>5. c.at = "read" /\ c.entry = e
  OBVIOUS
<1> HIDE DEF c
<1>6. call' \in [Writers -> Call] /\ Own' = c
  BY <1>1, <1>4, WritersAssumption DEF WalTypeOK, Own
<1>7. WalTypeOK'
  BY <1>1, <1>6 DEF WalTypeOK
<1>8. NextFree' /\ WalOrdered'
  BY DEF NextFree, WalOrdered
<1>9. NotAhead'
  BY <1>1 DEF WalTypeOK, NotAhead, Entry
<1>10. ~e.ahead => h <= at
  <2>1. ~(h > at) => h <= at
    OBVIOUS
  <2> QED
    BY <1>3, <2>1, Zenon
<1>11. OwnCall'
  BY <1>1, <1>3, <1>5, <1>6, <1>10 DEF WalTypeOK, NotAhead, OwnCall, Entry
<1> QED
  BY <1>7, <1>8, <1>9, <1>11

LEMMA StartKeeps ==
    ASSUME WalInv,
           \/ Note \/ StartFinalize
           \/ \E h \in 1..MaxHeight : StartImport("consensus", h)
    PROVE  WalInv'
<1>1. height \in Nat
  BY DEF WalInv, WalTypeOK
<1>2. PICK for \in {"note", "finalize", "import", "advance"}, h \in Nat :
         h >= height /\ Append("consensus", for, h, height)
  <2>1. CASE Note
    BY <1>1, <2>1 DEF Note
  <2>2. CASE StartFinalize
    BY <1>1, <2>2 DEF StartFinalize
  <2>3. CASE \E h \in 1..MaxHeight : StartImport("consensus", h)
    <3>1. PICK h \in 1..MaxHeight : StartImport("consensus", h)
      BY <2>3
    <3>2. h \in Nat /\ h >= height /\ Append("consensus", "import", h, height)
      BY <3>1, WalBoundsAssumption DEF StartImport
    <3> QED
      BY <3>2
  <2> QED
    BY <2>1, <2>2, <2>3
<1>3. UNCHANGED <<keys, next, height, acked, crashes>>
  BY DEF Note, StartFinalize, StartImport
<1>4. (WalTypeOK /\ NextFree /\ WalOrdered /\ NotAhead /\ OwnCall)'
  <2>1. /\ DOMAIN keys' \subseteq DOMAIN keys
        /\ \A i \in DOMAIN keys' : keys'[i] = keys[i]
        /\ height' = height /\ height >= height
        /\ UNCHANGED <<next, acked, crashes>>
    BY <1>1, <1>3
  <2> QED
    BY <1>1, <1>2, <2>1, AppendKeeps DEF WalInv
<1>5. AckedDurable'
  BY <1>3 DEF WalInv, AckedDurable
<1> QED
  BY <1>4, <1>5 DEF WalInv

LEMMA ReadIndexKeeps ==
    ASSUME WalInv, ReadIndex("consensus")
    PROVE  WalInv'
<1>1. Own.at = "read" /\ UNCHANGED <<keys, next, height, acked, appends, crashes>>
  BY DEF ReadIndex, Own
<1>2. Own \in Call /\ next \in Nat
  BY WritersAssumption DEF WalInv, WalTypeOK, Own
<1> DEFINE c == [Own EXCEPT !.at = "put", !.index = next]
<1>3. c \in Call /\ c.at = "put" /\ c.index = next /\ c.entry = Own.entry
  BY <1>2 DEF Call
<1>4. call' = [call EXCEPT !["consensus"] = c]
  BY DEF ReadIndex, Own
<1> HIDE DEF c
<1>5. call' \in [Writers -> Call] /\ Own' = c
  BY <1>3, <1>4, WritersAssumption DEF WalInv, WalTypeOK, Own
<1>6. WalTypeOK'
  BY <1>1, <1>5 DEF WalInv, WalTypeOK
<1>7. NextFree' /\ WalOrdered' /\ NotAhead' /\ AckedDurable'
  BY <1>1 DEF WalInv, NextFree, WalOrdered, NotAhead, AckedDurable
<1>8. OwnCall'
  BY <1>1, <1>3, <1>5 DEF WalInv, OwnCall
<1> QED
  BY <1>6, <1>7, <1>8 DEF WalInv

LEMMA PutEntryKeeps ==
    ASSUME WalInv, PutEntry("consensus")
    PROVE  WalInv'
<1>1. Own.at = "put" /\ UNCHANGED <<next, height, acked, appends, crashes>>
  BY DEF PutEntry, Own
<1>2. /\ Own.index = next /\ Own.entry.id < appends
      /\ Own.entry.height >= height
      /\ ~Own.entry.ahead => Own.entry.height <= height
  BY <1>1 DEF WalInv, OwnCall
<1>3. Own \in Call /\ Own.entry \in Entry
  BY WritersAssumption DEF WalInv, WalTypeOK, Own, Call
<1>4. /\ DOMAIN keys' = DOMAIN keys \cup {next}
      /\ keys'[next] = Own.entry
      /\ \A i \in DOMAIN keys : i # next => keys'[i] = keys[i]
  BY <1>2 DEF PutEntry, Own
<1>5. call' = [call EXCEPT !["consensus"] = [Own EXCEPT !.at = "bump"]]
  BY DEF PutEntry, Own
<1>6. [Own EXCEPT !.at = "bump"] \in Call
  BY <1>3 DEF Call
<1>7. call' \in [Writers -> Call] /\ Own' = [Own EXCEPT !.at = "bump"]
  BY <1>5, <1>6, WritersAssumption DEF WalInv, WalTypeOK, Own
<1>8. Own'.at = "bump" /\ Own'.index = next /\ Own'.entry = Own.entry
  BY <1>2, <1>3, <1>7 DEF Call
<1>9. \A i \in DOMAIN keys : keys[i].id < Own.entry.id
  BY <1>1 DEF WalInv, OwnCall
<1>10. \A x \in acked : x.id < Own.entry.id
  BY <1>1 DEF WalInv, OwnCall
<1>11. WalTypeOK'
  BY <1>1, <1>3, <1>4, <1>7 DEF WalInv, WalTypeOK
<1>12. NextFree'
  BY <1>1, <1>3, <1>4, <1>10 DEF WalInv, WalTypeOK, NextFree, Entry
<1>13. WalOrdered'
  BY <1>1, <1>2, <1>3, <1>4, <1>9 DEF WalInv, WalTypeOK, NextFree, WalOrdered, NotAhead, Entry
<1>14. NotAhead'
  BY <1>1, <1>2, <1>3, <1>4 DEF WalInv, WalTypeOK, NotAhead, Entry
<1>15. OwnCall'
  BY <1>1, <1>2, <1>4, <1>8, <1>9, <1>10 DEF OwnCall
<1>16. AckedDurable'
  BY <1>1, <1>4 DEF WalInv, NextFree, AckedDurable
<1> QED
  BY <1>11, <1>12, <1>13, <1>14, <1>15, <1>16 DEF WalInv

LEMMA PutIndexKeeps ==
    ASSUME WalInv, PutIndex("consensus")
    PROVE  WalInv'
<1>1. Own.at = "bump" /\ UNCHANGED <<keys, height, appends, crashes>>
  BY DEF PutIndex, Own
<1>2. /\ Own.index = next /\ Own.entry.id < appends
      /\ next \in DOMAIN keys /\ keys[next] = Own.entry
  BY <1>1 DEF WalInv, OwnCall
<1>3. next' = next + 1 /\ acked' = acked \cup {Own.entry}
  BY <1>2 DEF PutIndex, Own
<1>4. PICK a \in {"commit", "idle"} : call' = [call EXCEPT !["consensus"].at = a]
  BY DEF PutIndex
<1>5. Own \in Call
  BY WritersAssumption DEF WalInv, WalTypeOK, Own
<1> DEFINE c == [Own EXCEPT !.at = a]
<1>6. c \in Call /\ c.at = a /\ c.entry = Own.entry
  BY <1>5 DEF Call
<1>7. call' = [call EXCEPT !["consensus"] = c]
  BY <1>4 DEF Own
<1> HIDE DEF c
<1>8. call' \in [Writers -> Call] /\ Own' = c
  BY <1>6, <1>7, WritersAssumption DEF WalInv, WalTypeOK, Own
<1>9. WalTypeOK'
  BY <1>1, <1>2, <1>3, <1>8 DEF WalInv, WalTypeOK
<1>10. NextFree'
  BY <1>1, <1>3 DEF WalInv, WalTypeOK, NextFree
<1>11. WalOrdered' /\ NotAhead'
  BY <1>1, <1>2, <1>3 DEF WalInv, WalOrdered, NotAhead
<1>12. OwnCall'
  BY <1>1, <1>4, <1>6, <1>8 DEF WalInv, OwnCall
<1>13. AckedDurable'
  BY <1>1, <1>2, <1>3 DEF WalInv, AckedDurable
<1> QED
  BY <1>9, <1>10, <1>11, <1>12, <1>13 DEF WalInv

LEMMA RejectKeeps ==
    ASSUME WalInv, Reject("consensus")
    PROVE  WalInv'
<1>1. UNCHANGED <<keys, next, height, acked, appends, crashes>>
  BY DEF Reject
<1>2. Own \in Call
  BY WritersAssumption DEF WalInv, WalTypeOK, Own
<1> DEFINE c == [Own EXCEPT !.at = "idle"]
<1>3. c \in Call /\ c.at = "idle"
  BY <1>2 DEF Call
<1>4. call' = [call EXCEPT !["consensus"] = c]
  BY DEF Reject, Own
<1> HIDE DEF c
<1>5. call' \in [Writers -> Call] /\ Own' = c
  BY <1>3, <1>4, WritersAssumption DEF WalInv, WalTypeOK, Own
<1>6. WalTypeOK'
  BY <1>1, <1>5 DEF WalInv, WalTypeOK
<1> QED
  BY <1>1, <1>3, <1>5, <1>6 DEF WalInv, NextFree, WalOrdered, NotAhead, OwnCall, AckedDurable

\* Either way to end a CommitFinalized: the engine goes to the height after
\* it, and what compaction may remove is below that height by more than Lag.
LEMMA FinalizeHeightKeeps ==
    ASSUME WalInv, FinalizeHeight \/ Import("consensus")
    PROVE  WalInv'
<1> DEFINE h == Own.entry.height
<1>1. Own \in Call /\ Lag \in Nat /\ height \in Nat
  BY WritersAssumption, WalBoundsAssumption DEF WalInv, WalTypeOK, Own
<1>2. h \in Nat
  BY <1>1 DEF Call, Entry
<1>3. Own.at = "commit"
  BY DEF FinalizeHeight, Import, Own
<1>4. h >= height
  BY <1>3 DEF WalInv, OwnCall
<1>5. /\ height' = h + 1 /\ Append("consensus", "advance", h + 1, h + 1)
      /\ UNCHANGED <<next, acked, crashes>>
  BY DEF FinalizeHeight, Import, AdvanceHeight, Own
<1>6. keys' = keys \/ keys' = Compact(keys, h - Lag)
  BY DEF FinalizeHeight, Import, Own
<1> HIDE DEF h
<1>7. /\ DOMAIN keys' \subseteq DOMAIN keys
      /\ \A i \in DOMAIN keys' : keys'[i] = keys[i]
  BY <1>6, CompactKeeps
<1>8. h + 1 \in Nat /\ h + 1 >= h + 1 /\ h + 1 >= height
  BY <1>1, <1>2, <1>4
<1>9. (WalTypeOK /\ NextFree /\ WalOrdered /\ NotAhead /\ OwnCall)'
  BY <1>5, <1>7, <1>8, AppendKeeps DEF WalInv
<1>10. AckedDurable'
  <2> SUFFICES ASSUME NEW e \in acked, ~e.ahead, e.height >= h - Lag
               PROVE  \E i \in DOMAIN keys' : keys'[i] = e
    BY <1>1, <1>2, <1>5 DEF AckedDurable
  <2>1. e.height \in Nat
    BY DEF WalInv, WalTypeOK, Entry
  <2>2. PICK i \in DOMAIN keys : keys[i] = e
    BY <1>1, <1>2, <1>4, <2>1 DEF WalInv, AckedDurable
  <2>3. CASE keys' = Compact(keys, h - Lag)
    <3>1. h - Lag \in Int
      BY <1>1, <1>2
    <3>2. \A j \in DOMAIN keys : i < j => keys[i].height <= keys[j].height
      BY <2>2 DEF WalInv, WalOrdered
    <3>3. DOMAIN keys \subseteq Nat /\ \A j \in DOMAIN keys : keys[j] \in Entry
      BY DEF WalInv, WalTypeOK
    <3>4. i \in DOMAIN keys' /\ keys'[i] = keys[i]
      BY <2>2, <2>3, <3>1, <3>2, <3>3, CompactSpares
    <3> QED
      BY <2>2, <3>4
  <2>4. CASE keys' = keys
    BY <2>2, <2>4
  <2> QED
    BY <1>6, <2>3, <2>4
<1> QED
  BY <1>9, <1>10 DEF WalInv

LEMMA WalCrashKeeps ==
    ASSUME WalInv, Crash
    PROVE  WalInv'
<1>1. UNCHANGED <<keys, next, acked, appends>> /\ crashes' = crashes + 1
  BY DEF Crash
<1>2. NotAppending \in Call
  BY DEF NotAppending, NoEntry, Call, Entry
<1>3. call' \in [Writers -> Call] /\ Own' = NotAppending
  BY <1>2, WritersAssumption DEF Crash, Own
<1>4. Own'.at = "idle"
  BY <1>3 DEF NotAppending
<1>5. height' \in Nat /\ height' >= height
  BY DEF Crash, WalInv, WalTypeOK, Entry
<1>6. WalTypeOK'
  BY <1>1, <1>3, <1>5 DEF WalInv, WalTypeOK
<1>7. NextFree' /\ WalOrdered' /\ OwnCall'
  BY <1>1, <1>4 DEF WalInv, NextFree, WalOrdered, OwnCall
<1>8. NotAhead'
  BY <1>1, <1>5 DEF WalInv, WalTypeOK, NotAhead, Entry
<1>9. AckedDurable'
  BY <1>1, <1>5, WalBoundsAssumption DEF WalInv, WalTypeOK, AckedDurable, Entry
<1> QED
  BY <1>6, <1>7, <1>8, <1>9 DEF WalInv

LEMMA WalStep ==
    ASSUME Writers = {"consensus"}, WalInv, [Next]_vars
    PROVE  WalInv'
<1>1. CASE \E w \in Writers : ReadIndex(w) \/ PutEntry(w) \/ PutIndex(w) \/ Import(w) \/ Reject(w)
  BY <1>1, ReadIndexKeeps, PutEntryKeeps, PutIndexKeeps, FinalizeHeightKeeps, RejectKeeps
<1>2. CASE FinalizeHeight
  BY <1>2, FinalizeHeightKeeps
<1>3. CASE Note \/ StartFinalize \/ \E w \in Writers : \E h \in 1..MaxHeight : StartImport(w, h)
  BY <1>3, StartKeeps
<1>4. CASE Crash
  BY <1>4, WalCrashKeeps
<1>5. CASE UNCHANGED vars
  BY <1>5 DEF vars, WalInv, WalTypeOK, NextFree, WalOrdered, NotAhead, OwnCall, Own, AckedDurable
<1> QED
  BY <1>1, <1>2, <1>3, <1>4, <1>5 DEF Next

-----------------------------------------------------------------------------
(* Theorems.                                                               *)

(* With the consensus task as the only writer, an entry of the engine's    *)
(* height whose append_consensus_wal has returned can be loaded until its  *)
(* height is compacted, for every Lag and through any number of crashes:   *)
(* neither the keys that compaction deletes by mistake, nor entries of     *)
(* blocks far ahead between the others, nor an index that a crash left     *)
(* behind costs an acknowledged entry.                                     *)
THEOREM AckedDurableTheorem ==
    ASSUME Writers = {"consensus"}
    PROVE  Spec => []AckedDurable
<1>1. WalInv => AckedDurable
  BY DEF WalInv
<1> QED
  BY <1>1, WalInitially, WalStep, PTL DEF Spec

(* With the consensus task as the only writer, the list of load_consensus_ *)
(* wal is in the order of the appends, and the key that the next append    *)
(* writes holds nothing that was acknowledged.                             *)
THEOREM ReplayOrderTheorem ==
    ASSUME Writers = {"consensus"}
    PROVE  Spec => []ReplayOrder
<1>1. WalInv => ReplayOrder
  BY DEF WalInv, WalTypeOK, NextFree, WalOrdered, ReplayOrder
<1> QED
  BY <1>1, WalInitially, WalStep, PTL DEF Spec

=============================================================================
