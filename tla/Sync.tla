-------------------------------- MODULE Sync --------------------------------
(***************************************************************************)
(* How a node catches up with its peers: the services of                   *)
(* crates/zeno-node/src/runtime.rs (status, sync and gossip tasks) over    *)
(* Network, beside the consensus task, which imports the blocks of Commit  *)
(* messages.  The node is seen from inside; its peers are correct, run the *)
(* same code and move together, but what they tell of it arrives           *)
(* connection by connection.                                               *)
(*                                                                         *)
(* All peers are on one chain, so a block is its height, a header batch a  *)
(* range of heights, and parent hashes match exactly where heights follow  *)
(* each other.  The consensus task and the gossip task both import blocks, *)
(* side by side and beside the sync ticker: an import is a step for each   *)
(* point at which the code reads or writes what the others see.  Request   *)
(* ids count up in the code; here the least one that is nowhere in use     *)
(* stands for the next.                                                    *)
(***************************************************************************)
EXTENDS Network

CONSTANTS
    StartHeight,    \* the height of the peers when they started
    MaxHeight,      \* bound on the height of the chain
    BatchLimit,     \* 32, the most headers asked for at once
    MaxOnWire,      \* the ticker asks while fewer messages are on their way
    Retained        \* blocks kept by prune_blocks_below

ASSUME SyncAssumption ==
    /\ StartHeight \in Nat /\ MaxHeight \in Nat /\ BatchLimit \in Nat \ {0}
    /\ Retained \in Nat \ {0} /\ MaxOnWire \in Nat

VARIABLES
    local,      \* latest_height: the height of the stored latest block
    engine,     \* the height the consensus engine works on
    importing,  \* importing[t]: where task t is in import_external_finalized_block
    sync,       \* SyncState
    gossip,     \* the gossip task runs
    tip,        \* the height of the peers' chain
    sent,       \* sent[c]: the height of the last Commit that arrived over c
    raced,      \* history: two imports overlapped, or headers were awaited
                \* while a block was stored
    missed,     \* history: a block in the queue was pruned before it was asked for
    refused     \* history: a block that follows the chain failed validation

chainVars == <<local, engine, importing>>

syncVars == <<chainVars, sync, gossip, tip, sent, raced, missed, refused>>

vars == <<netVars, syncVars>>

NoPeer == 0

Importers == {"gossip", "consensus"}

NotImporting == [at |-> "idle", height |-> 0, from |-> NoPeer]

Idle(t) == importing[t].at = "idle"

NoSync ==
    [active_peer |-> NoPeer, target_height |-> 0,
     pending_headers |-> {}, pending_block |-> {}, queued_heights |-> << >>]

Init ==
    /\ NetInit
    /\ local = 0
    /\ engine = 1
    /\ importing = [t \in Importers |-> NotImporting]
    /\ sync = NoSync
    /\ gossip = TRUE
    /\ tip = StartHeight
    /\ sent = [c \in Conns |-> StartHeight]
    /\ raced = FALSE
    /\ missed = FALSE
    /\ refused = FALSE

-----------------------------------------------------------------------------
(* SyncState.                                                              *)

InUse ==
    {m.id : m \in UNION {wire[c] : c \in Conns}}
    \cup {p.id : p \in sync.pending_headers \cup sync.pending_block}

NextRequestId ==
    CHOOSE i \in 0..Cardinality(InUse) : i \notin InUse /\ \A j \in 0..(i - 1) : j \in InUse

\* Mutant: the block on its way is not waited for.
Waits_HeadersOnly(s, c) == s.active_peer # c \/ s.pending_headers # {}

Waits(s, c) == s.active_peer # c \/ s.pending_headers # {} \/ s.pending_block # {}

\* continue_sync: the state after it and the request it sends to peer c.  One
\* request at a time: the queued blocks first, then more headers.
ContinueSync(s, c, height) ==
    IF Waits(s, c)
    THEN [sync |-> s, request |-> {}]
    ELSE IF s.queued_heights # << >>
    THEN [sync |-> [s EXCEPT !.queued_heights = Tail(@),
                    !.pending_block = {[id |-> NextRequestId, height |-> Head(s.queued_heights)]}],
          request |-> {[type |-> "Request", id |-> NextRequestId, kind |-> "Block",
                        start |-> Head(s.queued_heights), limit |-> 1]}]
    ELSE IF s.target_height > height
    THEN LET limit == AtMost(s.target_height - height, BatchLimit)
         IN  [sync |-> [s EXCEPT !.pending_headers =
                            {[id |-> NextRequestId, start |-> height + 1, limit |-> limit]}],
              request |-> {[type |-> "Request", id |-> NextRequestId, kind |-> "Headers",
                            start |-> height + 1, limit |-> limit]}]
    ELSE [sync |-> s, request |-> {}]

\* Continues with state s, as the last thing a handler does; w are the wires.
ThenContinue(s, c, height, w) ==
    LET next == ContinueSync(s, c, height)
    IN  /\ sync' = next.sync
        /\ wire' = IF next.request = {} THEN w
                   ELSE SentTo(w, c, CHOOSE m \in next.request : TRUE)

-----------------------------------------------------------------------------
(* The tasks of the node.                                                  *)

\* Of several best peers max_by_key takes the last.
Better(c, d) ==
    LET a == table[c]
        b == table[d]
    IN  \/ a.best_height > b.best_height
        \/ a.best_height = b.best_height /\ a.score > b.score
        \/ a.best_height = b.best_height /\ a.score = b.score /\ c >= d

OnWire == Cardinality(UNION {wire[c] : c \in Conns})

\* Mutants: the queue, or the request on its way, survives the change of peer.
SwitchTo_KeepsQueue(s, c, height) ==
    [s EXCEPT !.active_peer = c, !.target_height = height,
              !.pending_headers = {}, !.pending_block = {}]

SwitchTo_KeepsPending(s, c, height) ==
    [s EXCEPT !.active_peer = c, !.target_height = height, !.queued_heights = << >>]

SwitchTo(s, c, height) ==
    [s EXCEPT !.active_peer = c, !.target_height = height,
              !.pending_headers = {}, !.pending_block = {}, !.queued_heights = << >>]

\* Mutant: the target of the peer that is already active is not raised.
SyncWithBestPeer_KeepsTarget ==
    LET ahead == {c \in DOMAIN table : table[c].best_height > local}
        best == CHOOSE c \in ahead : \A d \in ahead : Better(c, d)
    IN  /\ ahead # {} /\ OnWire < MaxOnWire
        /\ ThenContinue(IF sync.active_peer # best THEN SwitchTo(sync, best, table[best].best_height)
                        ELSE sync, best, local, wire)
        /\ UNCHANGED <<conn, table, recent, registry, sinks, faults, trouble,
                       chainVars, gossip, tip, sent, raced, missed, refused>>

\* The sync task: sync_with_best_peer, at any moment of an import too.  It
\* reads the height just before it takes the lock: a block stored in between
\* leaves it as when it had ticked before the block was stored.
SyncWithBestPeer ==
    LET ahead == {c \in DOMAIN table : table[c].best_height > local}
        best == CHOOSE c \in ahead : \A d \in ahead : Better(c, d)
    IN  /\ ahead # {} /\ OnWire < MaxOnWire
        /\ ThenContinue(IF sync.active_peer # best THEN SwitchTo(sync, best, table[best].best_height)
                        ELSE [sync EXCEPT !.target_height =
                                 IF table[best].best_height > @ THEN table[best].best_height ELSE @],
                        best, local, wire)
        /\ UNCHANGED <<conn, table, recent, registry, sinks, faults, trouble,
                       chainVars, gossip, tip, sent, raced, missed, refused>>

\* validate_header_batch: no headers, or the ones that follow the chain.
ValidateHeaderBatch(m, pending) ==
    m.to >= m.from =>
        /\ m.to - m.from + 1 <= pending.limit
        /\ m.from = IF pending.start > local + 1 THEN pending.start ELSE local + 1
        /\ m.from = local + 1

\* handle_sync_response to headers, taken from the wires w.  An error ends the
\* gossip task.
OnHeaders(c, m, w) ==
    LET pending == CHOOSE p \in sync.pending_headers : TRUE
        taken == [sync EXCEPT !.pending_headers = {}]
        heights == [i \in 1..(m.to - m.from + 1) |-> m.from + i - 1]
    IN  /\ IF sync.active_peer # c \/ {p \in sync.pending_headers : p.id = m.id} = {}
           THEN wire' = w /\ UNCHANGED <<sync, gossip>>
           ELSE IF ValidateHeaderBatch(m, pending)
           THEN /\ ThenContinue([taken EXCEPT !.queued_heights = @ \o heights], c, local, w)
                /\ UNCHANGED gossip
           ELSE sync' = taken /\ gossip' = FALSE /\ wire' = w
        /\ UNCHANGED <<importing, raced, missed>>

\* Task t has a finalized block in hand, from peer c.
Begin(t, h, c) ==
    /\ importing' = [importing EXCEPT ![t] = [at |-> "taken", height |-> h, from |-> c]]
    /\ raced' = (raced \/ \E u \in Importers \ {t} : ~Idle(u))

\* handle_sync_response to a block, up to the import.  A peer that no longer
\* has the block answers without one (height 0), and the next one in the queue
\* is asked for.
OnBlock(c, m, w) ==
    LET asked == {p \in sync.pending_block : p.id = m.id}
        taken == [sync EXCEPT !.pending_block = {}]
    IN  IF sync.active_peer # c \/ asked = {}
        THEN wire' = w /\ UNCHANGED <<sync, importing, raced, missed>>
        ELSE IF m.height = 0
        THEN /\ ThenContinue(taken, c, local, w)
             /\ missed' = (missed \/ \E p \in asked : p.height > local)
             /\ UNCHANGED <<importing, raced>>
        ELSE /\ sync' = taken /\ wire' = w
             /\ Begin("gossip", m.height, c)
             /\ UNCHANGED missed

\* An answer arrives: the connection task scores it, the gossip task handles
\* it, if it still runs.  While that imports a block, the answer waits.
OnAnswer(c, m) ==
    LET w == [wire EXCEPT ![c] = @ \ {m}]
    IN  /\ m \in wire[c] /\ IsAnswer(m)
        /\ Idle("gossip")
        /\ Receive(c, m)
        /\ IF ~gossip THEN wire' = w /\ UNCHANGED <<sync, gossip, importing, raced, missed>>
           ELSE IF m.type = "Headers" THEN OnHeaders(c, m, w) ELSE OnBlock(c, m, w) /\ UNCHANGED gossip
        /\ UNCHANGED <<faults, local, engine, tip, sent, refused>>

\* RecvError::Lagged: the channel to the gossip task dropped the answer.
Lagged(c, m) ==
    /\ conn[c] = "open" /\ m \in wire[c] /\ IsAnswer(m)
    /\ faults < MaxFaults
    /\ faults' = faults + 1
    /\ wire' = [wire EXCEPT ![c] = @ \ {m}]
    /\ trouble' = TRUE
    /\ UNCHANGED <<conn, table, recent, registry, sinks, syncVars>>

\* The next Commit of a peer arrives and, unless it is a duplicate, the
\* consensus task takes it up as soon as it is done with the one before.
OnCommit(c) ==
    LET h == sent[c] + 1
        m == [type |-> "Commit", height |-> h]
    IN  /\ h <= tip
        /\ Idle("consensus")
        /\ Receive(c, m)
        /\ sent' = [sent EXCEPT ![c] = h]
        /\ IF IsNew(c, m) THEN Begin("consensus", h, NoPeer) ELSE UNCHANGED <<importing, raced>>
        /\ UNCHANGED <<wire, faults, sync, gossip, local, engine, tip, missed, refused>>

-----------------------------------------------------------------------------
(* import_external_finalized_block, in task t.                             *)

\* The import is over.  The gossip task goes on with the sync, unless there was
\* an error, which ends it; the consensus task takes the next message anyway.
Return(t, error) ==
    /\ importing' = [importing EXCEPT ![t] = NotImporting]
    /\ IF t = "gossip" /\ ~error
       THEN ThenContinue(sync, importing[t].from, local, wire)
       ELSE UNCHANGED <<sync, wire>>
    /\ gossip' = (gossip /\ ~(t = "gossip" /\ error))

\* A block below the engine's height is ignored; the others must follow the
\* latest stored one.
Validate(t) ==
    LET h == importing[t].height
    IN  /\ importing[t].at = "taken"
        /\ \/ h < engine /\ Return(t, FALSE)
           \/ h >= engine /\ h # local + 1 /\ Return(t, TRUE)
           \/ /\ h >= engine /\ h = local + 1
              /\ importing' = [importing EXCEPT ![t].at = "prepared"]
              /\ UNCHANGED <<sync, wire, gossip>>
        /\ UNCHANGED <<conn, table, recent, registry, sinks, faults, trouble,
                       local, engine, tip, sent, raced, missed, refused>>

\* The block follows, but its receipts, roots or epoch transition are not the
\* ones this node computes: Staking and Ledger show when.
Refuse(t) ==
    /\ importing[t].at = "prepared"
    /\ faults < MaxFaults
    /\ faults' = faults + 1
    /\ refused' = TRUE
    /\ Return(t, TRUE)
    /\ UNCHANGED <<conn, table, recent, registry, sinks, trouble,
                   local, engine, tip, sent, raced, missed>>

\* atomic_commit_block: it is the latest block now.
Store(t) ==
    /\ importing[t].at = "prepared"
    /\ local' = importing[t].height
    /\ importing' = [importing EXCEPT ![t].at = "stored"]
    /\ raced' = (raced \/ sync.pending_headers # {})
    /\ UNCHANGED <<netVars, engine, sync, gossip, tip, sent, missed, refused>>

\* advance_height.
Advance(t) ==
    /\ importing[t].at = "stored"
    /\ engine' = importing[t].height + 1
    /\ Return(t, FALSE)
    /\ UNCHANGED <<conn, table, recent, registry, sinks, faults, trouble,
                   local, tip, sent, raced, missed, refused>>

-----------------------------------------------------------------------------
(* The peers.                                                              *)

Keeps(height) == height <= tip /\ height + Retained > tip

\* build_sync_response: headers up to the first missing block, or a block.
Answer(q) ==
    IF q.kind = "Headers"
    THEN [type |-> "Headers", id |-> q.id, from |-> q.start,
          to |-> IF Keeps(q.start) THEN AtMost(q.start + q.limit - 1, tip) ELSE q.start - 1]
    ELSE [type |-> "Block", id |-> q.id,
          height |-> IF Keeps(q.start) THEN q.start ELSE 0]

Serve(c, q) ==
    /\ conn[c] = "open" /\ q \in wire[c] /\ ~IsAnswer(q)
    /\ wire' = [wire EXCEPT ![c] = (@ \ {q}) \cup {Answer(q)}]
    /\ UNCHANGED <<conn, table, recent, registry, sinks, faults, trouble, syncVars>>

\* The status of a peer, sent every five seconds: it tells a new height,
OnStatus(c) ==
    /\ conn[c] = "open" /\ table[c].best_height # tip
    /\ Receive(c, [type |-> "Status", height |-> tip])
    /\ UNCHANGED <<wire, faults, syncVars>>

\* ... or the chain stands still, and it may be the same message again.
OnIdleStatus(c) ==
    /\ conn[c] = "open" /\ table[c].best_height = tip /\ faults < MaxFaults
    /\ faults' = faults + 1
    /\ Receive(c, [type |-> "Status", height |-> tip])
    /\ UNCHANGED <<wire, syncVars>>

\* The peers finalize a block, and broadcast it.
Grow ==
    /\ tip < MaxHeight
    /\ tip' = tip + 1
    /\ UNCHANGED <<netVars, chainVars, sync, gossip, sent, raced, missed, refused>>

\* The steps the node and its peers take by themselves: tasks that can run,
\* tickers that fire, messages that arrive.
TaskStep ==
    \/ \E c \in Conns : \/ OnCommit(c)
                        \/ \E m \in wire[c] : Serve(c, m) \/ OnAnswer(c, m)
                        \/ OnStatus(c)
                        \/ CheckLimit(c) /\ UNCHANGED syncVars
                        \/ Admit(c, StartHeight) /\ UNCHANGED syncVars
                        \/ CloseBanned(c) /\ UNCHANGED syncVars
    \/ StartFanout /\ UNCHANGED syncVars
    \/ SyncWithBestPeer
    \/ \E t \in Importers : Validate(t) \/ Store(t) \/ Advance(t)

Next ==
    \/ TaskStep
    \/ Grow
    \/ \E t \in Importers : Refuse(t)
    \/ \E c \in Conns : \/ OnIdleStatus(c)
                        \/ Cut(c) /\ UNCHANGED syncVars
                        \/ \E m \in wire[c] : Lagged(c, m)

\* As long as some task can take a step, some task does.  Nothing is assumed
\* of which: fair scheduling and timers that fire give much more.  Nothing
\* makes the chain grow, or a connection fail.
Fairness == WF_vars(TaskStep)

Spec == Init /\ [][Next]_vars /\ Fairness

-----------------------------------------------------------------------------
(* Properties.                                                             *)

\* A node with a connected peer reaches the height of the chain, unless a
\* connection was cut, banned or opened before the registry was there, an
\* answer was lost, the gossip task ended, the peers have pruned what the node
\* needs, or the engine's height is ahead of a stored block that went back.
\* Requests have no timeout: each of these can stop it for good.
CatchesUp ==
    (\E c \in Conns : conn[c] = "open")
    ~> (local >= tip \/ trouble \/ ~gossip \/ tip - Retained > local \/ engine > local + 1)

\* How far the chain reaches once the gossip task is done with the block it has.
Reach == IF Idle("gossip") THEN local ELSE importing["gossip"].height

\* As long as the gossip task runs, the block it imports, the one on its way
\* and the ones in the queue follow each other and the node's chain, whatever
\* the ticker asks for in the middle of an import: none fails for a missing
\* parent.  Two cases excepted: the peer pruned a block of the queue before it
\* was asked for, and handle_sync_response goes on with the next one; or
\* another import or an answer with headers was under way when a block was
\* stored.
BlocksFollow ==
    LET queue == sync.queued_heights
    IN  gossip /\ ~missed /\ ~raced =>
          /\ Reach <= local + 1
          /\ \A i \in 1..(Len(queue) - 1) : queue[i + 1] = queue[i] + 1
          /\ \A p \in sync.pending_block :
                /\ p.height <= Reach + 1
                /\ queue # << >> => queue[1] = p.height + 1
          /\ sync.pending_block = {} /\ queue # << >> => queue[1] <= Reach + 1

\* With correct peers the gossip task ends for three reasons only: a block was
\* stored while headers were on their way, so that they no longer follow the
\* chain, or the consensus task imported a block at the same time; a block was
\* pruned between its header and the request for it; or the node cannot verify
\* a block that follows its chain.
EndsOnlyWithCause == gossip \/ raced \/ missed \/ refused

\* One request at a time, and never an answer without its request: as long as
\* nothing was lost and the gossip task runs, what is awaited is exactly what
\* is on its way from the active peer, as request or as answer.
AwaitedIsOnItsWay ==
    LET awaited == sync.pending_headers \cup sync.pending_block
        coming == {m \in wire[sync.active_peer] : \E p \in awaited : p.id = m.id}
    IN  /\ Cardinality(awaited) <= 1
        /\ ~trouble /\ gossip /\ awaited # {} => Cardinality(coming) = 1

\* NetworkHandle::peers "Returns connected peers."
PeersAreConnected == \A c \in DOMAIN table : conn[c] \in {"open", "banned"}

=============================================================================
