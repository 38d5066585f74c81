------------------------------ MODULE Network ------------------------------
(***************************************************************************)
(* The peer-to-peer layer of crates/zeno-network in one node: admission of *)
(* connections, the table of peers with their scores, the fan-out to the   *)
(* connections and the suppression of duplicates.                          *)
(*                                                                         *)
(* A connection stands for the socket address that names it in the table;  *)
(* it is used once, and addresses are ordered as numbers.  The node at its *)
(* other end is NodeOf[c].  A message waits on the wire; when the          *)
(* connection task takes it, it is scored, handed to the subscribers and   *)
(* handled by them in one step.  A message is its own hash.  Malformed     *)
(* frames and wrong chain ids end a connection before anything is kept,    *)
(* like a refused handshake.  The time stamps and counters of PeerState    *)
(* are left out.  Answers carry the id of their request and are never      *)
(* duplicates; they are not remembered here.                               *)
(***************************************************************************)
EXTENDS Integers, Sequences, FiniteSets, SequencesExt

CONSTANTS
    Conns,          \* connections that may be opened
    NodeOf,         \* NodeOf[c]: node_id of the remote end
    Dialed,         \* the connections this node opens (config.p2p.peers)
    MaxInbound,     \* MAX_INBOUND_CONNECTIONS
    ScoreInitial, ScoreValid, ScoreDuplicate, ScoreUseful, ScoreMax,
    BanThreshold,   \* the SCORE_ constants
    MaxRecent,      \* RecentMessages::MAX_RECENT
    MaxFaults       \* bound on connections cut, answers lost, idle status messages

ASSUME ConnsAssumption ==
    /\ Conns \subseteq Nat /\ IsFiniteSet(Conns) /\ Dialed \subseteq Conns
    /\ DOMAIN NodeOf = Conns

ASSUME ScoresAssumption ==
    /\ MaxInbound \in Nat /\ MaxRecent \in Nat /\ MaxFaults \in Nat
    /\ BanThreshold \in Int /\ ScoreDuplicate \in Int
    /\ ScoreInitial \in Int /\ ScoreInitial > BanThreshold
    /\ ScoreValid \in Nat /\ ScoreUseful \in Nat /\ ScoreMax \in Nat

VARIABLES
    conn,       \* conn[c]: new, checked (limit passed), open, banned, closed
    table,      \* peers: PeerState of the connections in the table
    recent,     \* recent[c]: order of RecentMessages, oldest first
    registry,   \* NETWORK_REGISTRY is set: the fan-out task runs
    sinks,      \* the connections the fan-out task can send to
    wire,       \* wire[c]: requests and answers on their way over c
    faults,
    trouble     \* history: some connection was cut, banned or left mute

netVars == <<conn, table, recent, registry, sinks, wire, faults, trouble>>

AtMost(a, b) == IF a < b THEN a ELSE b

With(map, c, entry) == [d \in DOMAIN map \cup {c} |-> IF d = c THEN entry ELSE map[d]]

Drop(map, c) == [d \in DOMAIN map \ {c} |-> map[d]]

NetInit ==
    /\ conn = [c \in Conns |-> "new"]
    /\ table = << >>
    /\ recent = [c \in Conns |-> << >>]
    /\ registry = FALSE
    /\ sinks = {}
    /\ wire = [c \in Conns |-> {}]
    /\ faults = 0
    /\ trouble = FALSE

-----------------------------------------------------------------------------
(* Admission.                                                              *)

\* start_network spawns the fan-out task, which publishes the registry.
StartFanout ==
    /\ ~registry
    /\ registry' = TRUE
    /\ UNCHANGED <<conn, table, recent, sinks, wire, faults, trouble>>

Inbound == {c \in DOMAIN table : ~table[c].is_outbound}

\* handle_connection up to the limit on inbound connections, which is read in
\* a lock section of its own.
CheckLimit(c) ==
    /\ conn[c] = "new"
    /\ conn' = [conn EXCEPT ![c] =
           IF c \notin Dialed /\ Cardinality(Inbound) >= MaxInbound THEN "closed" ELSE "checked"]
    /\ UNCHANGED <<table, recent, registry, sinks, wire, faults, trouble>>

IsNodeBanned(node) == \E d \in DOMAIN table : table[d].node_id = node /\ table[d].banned

\* The handshake is accepted: an entry in the table, with the height the
\* remote node had when it started, and a sink if the registry is there.
Admit(c, startHeight) ==
    /\ conn[c] = "checked"
    /\ IF IsNodeBanned(NodeOf[c])
       THEN /\ conn' = [conn EXCEPT ![c] = "closed"]
            /\ UNCHANGED <<table, sinks, trouble>>
       ELSE /\ conn' = [conn EXCEPT ![c] = "open"]
            /\ table' = With(table, c,
                   [score |-> ScoreInitial, best_height |-> startHeight,
                    is_outbound |-> c \in Dialed, banned |-> FALSE, node_id |-> NodeOf[c]])
            /\ sinks' = IF registry THEN sinks \cup {c} ELSE sinks
            /\ trouble' = (trouble \/ ~registry)
    /\ UNCHANGED <<recent, registry, wire, faults>>

-----------------------------------------------------------------------------
(* Messages.                                                               *)

IsAnswer(m) == m.type \in {"Headers", "Block"}

\* RecentMessages::remember.
Remember(order, m) ==
    LET longer == Append(order, m)
    IN  IF IsAnswer(m) \/ Contains(order, m) THEN order
        ELSE IF Len(longer) > MaxRecent THEN Tail(longer) ELSE longer

\* What a Status or a Commit tells of the peer's chain.
Observe(state, m) ==
    CASE m.type = "Status" ->
            [state EXCEPT !.best_height = IF m.height > @ THEN m.height ELSE @]
      [] m.type = "Commit" /\ m.height > state.best_height ->
            [state EXCEPT !.best_height = m.height,
                          !.score = AtMost(@ + ScoreUseful, ScoreMax)]
      [] OTHER -> state

IsNew(c, m) == ~Contains(recent[c], m)

\* The connection task takes message m from c and scores it.  At the threshold
\* the peer is marked and the loop is left.
Receive(c, m) ==
    LET seen == Observe(table[c], m)
        score == IF IsNew(c, m) THEN AtMost(seen.score + ScoreValid, ScoreMax)
                 ELSE seen.score + ScoreDuplicate
    IN  /\ conn[c] = "open"
        /\ recent' = [recent EXCEPT ![c] = Remember(@, m)]
        /\ table' = [table EXCEPT ![c] =
               [seen EXCEPT !.score = score, !.banned = (score <= BanThreshold)]]
        /\ conn' = [conn EXCEPT ![c] = IF score <= BanThreshold THEN "banned" ELSE @]
        /\ trouble' = (trouble \/ score <= BanThreshold)
        /\ UNCHANGED <<registry, sinks>>

\* After the loop: the entry goes, and the ban with it.
CloseBanned(c) ==
    /\ conn[c] = "banned"
    /\ conn' = [conn EXCEPT ![c] = "closed"]
    /\ table' = Drop(table, c)
    /\ sinks' = sinks \ {c}
    /\ wire' = [wire EXCEPT ![c] = {}]
    /\ UNCHANGED <<recent, registry, faults, trouble>>

\* The connection is cut.  The task ends with an error, or waits for a message
\* to send and ends with an error then: the entry stays in the table.
Cut(c) ==
    /\ conn[c] = "open" /\ faults < MaxFaults
    /\ conn' = [conn EXCEPT ![c] = "closed"]
    /\ sinks' = sinks \ {c}
    /\ wire' = [wire EXCEPT ![c] = {}]
    /\ faults' = faults + 1
    /\ trouble' = TRUE
    /\ UNCHANGED <<table, recent, registry>>

\* NetworkHandle::send_to and the fan-out task: the wires with m sent over c.
\* Without a sink it is dropped.
SentTo(w, c, m) ==
    IF c \in sinks THEN [w EXCEPT ![c] = @ \cup {m}] ELSE w

=============================================================================
