------------------------------ MODULE WalStore ------------------------------
(***************************************************************************)
(* The consensus WAL as RocksStore keeps it: one key per entry, an index   *)
(* of the next key, and compaction at the end of finalize.                 *)
(* append_consensus_wal is three store calls; the consensus task and the   *)
(* task that imports synced blocks both call it, and the process may die   *)
(* between any two of them.  An import appends CommitFinalized with the    *)
(* height of the certificate before it is known whether the block extends  *)
(* the chain: such an entry may be far ahead of the engine.  Of an entry   *)
(* only that and its height matter here; a number tells entries apart.     *)
(***************************************************************************)
EXTENDS Integers, FiniteSets

CONSTANTS
    Writers,        \* the tasks that append; "consensus" also compacts
    Lag,            \* finalized heights whose entries are kept: 10 in finalize
    MaxAppends,     \* bound on the number of appends
    MaxHeight,      \* bound on the engine's height
    MaxCrashes      \* bound on the number of crashes

ASSUME WritersAssumption == "consensus" \in Writers

ASSUME WalBoundsAssumption ==
    {Lag, MaxAppends, MaxHeight, MaxCrashes} \subseteq Nat

VARIABLES
    keys,       \* index -> entry
    next,       \* meta:consensus-wal-next
    call,       \* call[w]: what task w appends, for what, and how far it is
    height,     \* the height the engine works on
    acked,      \* entries whose append has returned
    appends,
    crashes

vars == <<keys, next, call, height, acked, appends, crashes>>

\* Whether an entry is CommitFinalized, and (known to nobody in the code)
\* whether its height was ahead of the engine's when it was appended.
NoEntry == [id |-> 0, height |-> 0, commit |-> FALSE, ahead |-> FALSE]

NotAppending == [at |-> "idle", for |-> "note", index |-> 0, entry |-> NoEntry]

\* Keys are read back into a BTreeMap: the place of index i in the list.
Position(map, i) == Cardinality({j \in DOMAIN map : j < i})

\* Mutant: the entries of the height itself go too.
Compact_AtHeight(map, below) ==
    LET removed == {Position(map, i) : i \in {j \in DOMAIN map : map[j].height <= below}}
    IN  [i \in DOMAIN map \ removed |-> map[i]]

\* compact_consensus_wal: the key deleted is the entry's place in the list.
Compact(map, below) ==
    LET removed == {Position(map, i) : i \in {j \in DOMAIN map : map[j].height < below}}
    IN  [i \in DOMAIN map \ removed |-> map[i]]

-----------------------------------------------------------------------------
Init ==
    /\ keys = << >>
    /\ next = 0
    /\ call = [w \in Writers |-> NotAppending]
    /\ height = 1
    /\ acked = {}
    /\ appends = 0
    /\ crashes = 0

\* append_wal: an entry of height h, on behalf of `for', by an engine that
\* works on height at.
Append(w, for, h, at) ==
    /\ call' = [call EXCEPT ![w] =
                   [at |-> "read", for |-> for, index |-> 0,
                    entry |-> [id |-> appends, height |-> h,
                               commit |-> for \in {"finalize", "import"},
                               ahead |-> h > at]]]
    /\ appends' = appends + 1

\* The entries of proposals, votes, locks, evidence and rounds are all of the
\* engine's height: messages of another height are dropped before.
Note ==
    /\ call["consensus"].at = "idle"
    /\ appends < MaxAppends
    /\ Append("consensus", "note", height, height)
    /\ UNCHANGED <<keys, next, height, acked, crashes>>

\* finalize up to CommitFinalized, with the block of the engine's height.
StartFinalize ==
    /\ call["consensus"].at = "idle"
    /\ height <= MaxHeight
    /\ appends < MaxAppends
    /\ Append("consensus", "finalize", height, height)
    /\ UNCHANGED <<keys, next, height, acked, crashes>>

\* import_external_finalized_block up to CommitFinalized, with a certificate
\* of the engine's height h or of any later one.
StartImport(w, h) ==
    /\ call[w].at = "idle"
    /\ h >= height
    /\ appends < MaxAppends
    /\ Append(w, "import", h, height)
    /\ UNCHANGED <<keys, next, height, acked, crashes>>

\* append_consensus_wal, first call: read the next index.
ReadIndex(w) ==
    /\ call[w].at = "read"
    /\ call' = [call EXCEPT ![w].at = "put", ![w].index = next]
    /\ UNCHANGED <<keys, next, height, acked, appends, crashes>>

\* Second call: write the entry under it.
PutEntry(w) ==
    /\ call[w].at = "put"
    /\ keys' = [i \in DOMAIN keys \cup {call[w].index} |->
                   IF i = call[w].index THEN call[w].entry ELSE keys[i]]
    /\ call' = [call EXCEPT ![w].at = "bump"]
    /\ UNCHANGED <<next, height, acked, appends, crashes>>

\* Mutant: the index is stored as it was read.
PutIndex_Same(w) ==
    /\ call[w].at = "bump"
    /\ next' = call[w].index
    /\ acked' = acked \cup {call[w].entry}
    /\ call' = [call EXCEPT ![w].at = IF call[w].entry.commit THEN "commit" ELSE "idle"]
    /\ UNCHANGED <<keys, height, appends, crashes>>

\* Third call: store the next index, and return; after CommitFinalized the
\* block itself is next.
PutIndex(w) ==
    /\ call[w].at = "bump"
    /\ next' = call[w].index + 1
    /\ acked' = acked \cup {call[w].entry}
    /\ call' = [call EXCEPT ![w].at = IF call[w].entry.commit THEN "commit" ELSE "idle"]
    /\ UNCHANGED <<keys, height, appends, crashes>>

\* advance_height to h: the state, its snapshot, and HeightAdvanced.
AdvanceHeight(w, h) ==
    /\ height' = h
    /\ Append(w, "advance", h, h)

\* The rest of finalize: store the block, compact below its height - Lag,
\* and go to the next height.
FinalizeHeight ==
    /\ call["consensus"].at = "commit" /\ call["consensus"].for = "finalize"
    /\ LET h == call["consensus"].entry.height
       IN  /\ keys' = IF h > Lag THEN Compact(keys, h - Lag) ELSE keys
           /\ AdvanceHeight("consensus", h + 1)
    /\ UNCHANGED <<next, acked, crashes>>

\* The rest of an import: nothing is compacted.  Whether the block extends the
\* latest one is left open: it is executed here or rejected below.
Import(w) ==
    /\ call[w].at = "commit" /\ call[w].for = "import"
    /\ AdvanceHeight(w, call[w].entry.height + 1)
    /\ UNCHANGED <<keys, next, acked, crashes>>

\* "parent hash mismatch": an error, and the entry stays.
Reject(w) ==
    /\ call[w].at = "commit" /\ call[w].for = "import"
    /\ call' = [call EXCEPT ![w].at = "idle"]
    /\ UNCHANGED <<keys, next, height, acked, appends, crashes>>

\* The process dies and starts again on the same store; recover_snapshot goes
\* beyond every CommitFinalized it loads, executed or not.
Crash ==
    /\ crashes < MaxCrashes
    /\ call' = [w \in Writers |-> NotAppending]
    /\ LET heights == {height} \cup {keys[i].height + 1 : i \in {j \in DOMAIN keys : keys[j].commit}}
       IN  height' \in heights /\ \A h \in heights : h <= height'
    /\ crashes' = crashes + 1
    /\ UNCHANGED <<keys, next, acked, appends>>

Next ==
    \/ Note \/ StartFinalize \/ FinalizeHeight
    \/ \E w \in Writers :
          \/ \E h \in 1..MaxHeight : StartImport(w, h)
          \/ ReadIndex(w) \/ PutEntry(w) \/ PutIndex(w)
          \/ Import(w) \/ Reject(w)
    \/ Crash

Spec == Init /\ [][Next]_vars

-----------------------------------------------------------------------------
(* Properties.                                                             *)

(* "Appends a consensus WAL entry" (zeno-storage lib.rs 80): an entry      *)
(* whose append has returned, unless it is of a block ahead of the engine, *)
(* can be loaded until its height is compacted, whatever entries of later  *)
(* heights lie between the others, and however often the engine crashed    *)
(* and compacted.  (One that is ahead can be deleted while it is live.)    *)
AckedDurable ==
    \A e \in acked :
        ~e.ahead /\ e.height >= height - 1 - Lag => \E i \in DOMAIN keys : keys[i] = e

(* The log can be replayed in the order it was written: indexes never run  *)
(* against the order of the appends, and the next one is free.             *)
ReplayOrder ==
    /\ \A i, j \in DOMAIN keys : i < j => keys[i].id < keys[j].id
    /\ \A i \in DOMAIN keys : i >= next => keys[i] \notin acked

=============================================================================
