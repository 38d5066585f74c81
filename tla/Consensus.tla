----------------------------- MODULE Consensus -----------------------------
(***************************************************************************)
(* The BFT consensus engine of crates/zeno-consensus: N validators, each   *)
(* running ConsensusEngine::run over its own store, exchanging Proposal,   *)
(* Vote and Commit messages.                                               *)
(*                                                                         *)
(* Every action is one turn of the select! loop of run (lib.rs 704-748):   *)
(* the whole handler, with every call it makes, is one step of node[n].    *)
(*                                                                         *)
(* Conventions.                                                            *)
(*  - An Option is a set with at most one element: None is {}, Some(b) is  *)
(*    {b}.  A block hash identifies the block, so the hash of Some(b) is   *)
(*    {b} and NIL_HASH is {}.                                              *)
(*  - Validators are numbered in address order.  Genesis gives all of them *)
(*    the same stake, so this is the order of effective_validator_set;     *)
(*    the heights modelled lie inside one epoch.                           *)
(*  - The network (external, crates/zeno-network) is the set of messages   *)
(*    each node has broadcast.  Any of them may reach any node connected   *)
(*    to the sender, at any time, never, late, out of order or more than   *)
(*    once.  Nothing is relayed, and nothing is echoed to its sender.      *)
(***************************************************************************)
EXTENDS Integers, FiniteSets

CONSTANTS
    N,              \* number of validators in genesis
    Observers,      \* full nodes, which have no local_validator
    Links,          \* the connections, as two-element sets of nodes
    Payloads,       \* what a block may carry: transactions and timestamp
    BuildFailures,  \* ways in which building a proposal may fail
    MaxHeight,      \* bound: nodes stop once they have passed this height
    MaxRound,       \* bound: nodes do not time out in this round
    MaxRestarts     \* bound on the number of restarts in a behaviour

ASSUME NAssumption == N \in Nat \ {0}

ASSUME ObserversAssumption == Observers \subseteq Nat \ (0..N)

ASSUME LinksAssumption == Links \subseteq SUBSET (1..N \cup Observers)

ASSUME BoundsAssumption ==
    /\ MaxHeight \in Nat
    /\ MaxRound \in Nat
    /\ MaxRestarts \in Nat

ASSUME BuildAssumption ==
    /\ BuildFailures \subseteq {"oversize", "dry_run_error"}
    /\ Payloads \cap {"oversize", "dry_run_error"} = {}

VARIABLES
    node,           \* node[n]: RoundState, store and outbox of node n
    restarts        \* how many restarts have happened

vars == <<node, restarts>>

Validators == 1..N

Nodes == Validators \cup Observers

Nil == {}

-----------------------------------------------------------------------------
(* Validator set as node s knows it.                                       *)

\* active_validators: the unjailed ones, or all of genesis if none is left.
ActiveValidators(s) ==
    IF Validators \ s.jailed = {} THEN Validators ELSE Validators \ s.jailed

\* Mutant: a simple majority.
QuorumOf_Majority(count) == count \div 2 + 1

QuorumOf(count) == (count * 2) \div 3 + 1

Quorum(s) == QuorumOf(Cardinality(ActiveValidators(s)))

\* validators[(height + round) % len], in address order.
ProposerFor(s, h, r) ==
    LET active == ActiveValidators(s)
    IN  CHOOSE v \in active :
            Cardinality({w \in active : w < v}) = (h + r) % Cardinality(active)

\* Whether n has a local validator, and an active one.
LocalActive(n, s) == n \in Validators /\ n \notin s.jailed

-----------------------------------------------------------------------------
(* The store.                                                              *)

\* atomic_commit_block: the block under its height, and as the latest.
CommitBlock(s, f) ==
    [s EXCEPT !.blocks = {g \in @ : g.block.height # f.block.height} \cup {f},
              !.latest = {f.block}]

PersistSnapshot(s) == [s EXCEPT !.snap = [height |-> s.height, round |-> s.round]]

WalCommitFinalized(s, h) ==
    [s EXCEPT !.walCommit = IF h > @ THEN h ELSE @]

(* What recover_snapshot makes of the stored snapshot and the WAL.  Each   *)
(* SnapshotPersisted, RoundAdvanced and HeightAdvanced entry repeats the   *)
(* snapshot stored just before it, so the WAL adds to the snapshot only    *)
(* its highest CommitFinalized entry and its last lock and polka; these    *)
(* are what s.walCommit, s.walLocked and s.walValid keep of it.            *)
RecoverSnapshot(s) ==
    LET h == IF s.walCommit >= s.snap.height THEN s.walCommit + 1 ELSE s.snap.height
    IN  [height |-> h,
         round  |-> IF h = s.snap.height THEN s.snap.round ELSE 0,
         locked |-> {l \in s.walLocked : l.block.height = h},
         valid  |-> {l \in s.walValid : l.block.height = h}]

-----------------------------------------------------------------------------
(* Moving on.                                                              *)

ResetRound(s) ==
    [s EXCEPT !.proposal = {}, !.votes = {},
              !.prevoted = FALSE, !.precommitted = FALSE]

AdvanceHeight(s, next) ==
    PersistSnapshot([ResetRound(s) EXCEPT !.height = next, !.round = 0,
                                          !.locked = {}, !.valid = {}])

\* Mutant: the round is incremented by the caller as well.
AdvanceRound_Twice(s) == PersistSnapshot([ResetRound(s) EXCEPT !.round = @ + 2])

\* Mutant: the votes are cleared but the round stays.
AdvanceRound_SameRound(s) == PersistSnapshot(ResetRound(s))

AdvanceRound(s) == PersistSnapshot([ResetRound(s) EXCEPT !.round = @ + 1])

-----------------------------------------------------------------------------
(* Finalization.                                                           *)

\* apply_pending_evidence: slash and jail everyone there is evidence about.
ApplyPendingEvidence(s) ==
    [s EXCEPT !.jailed = @ \cup {e.validator : e \in s.evidence},
              !.evidence = {}]

Voters(ballots) == {v.validator : v \in ballots}

(* finalize: nothing happens when the proposal is missing or another one,  *)
(* or when prepare_block refuses the parent.  The quorum of distinct       *)
(* precommits has just been counted, so the certificate is valid.          *)
Finalize(s, hash) ==
    IF s.proposal # hash \/ \E b \in hash : b.parent # s.latest
    THEN s
    ELSE LET finalized ==
               [block |-> CHOOSE b \in hash : TRUE,
                votes |-> {v \in s.votes : v.step = "precommit" /\ v.hash = hash}]
             committed ==
               [CommitBlock(WalCommitFinalized(s, s.height), finalized)
                    EXCEPT !.commits = @ \cup {finalized}]
         IN  AdvanceHeight(ApplyPendingEvidence(committed), s.height + 1)

-----------------------------------------------------------------------------
(* Voting.                                                                 *)

Ballot(n, s, step, hash) ==
    [step |-> step, height |-> s.height, round |-> s.round,
     hash |-> hash, validator |-> n]

Conflicts(s, v) ==
    \E w \in s.votes : /\ w.step = v.step
                       /\ w.validator = v.validator
                       /\ w.hash # v.hash

\* Mutant: one vote too few is enough.
HasQuorum_OffByOne(s, step, hash) ==
    Cardinality(Voters({v \in s.votes : v.step = step /\ v.hash = hash})) + 1 >= Quorum(s)

HasQuorum(s, step, hash) ==
    Cardinality(Voters({v \in s.votes : v.step = step /\ v.hash = hash})) >= Quorum(s)

\* The lock and the polka are taken only on the proposal the node holds.
ObservePolka(s, hash) ==
    IF hash # Nil /\ s.proposal = hash
    THEN LET lock == {[round |-> s.round, block |-> b] : b \in hash}
         IN  [s EXCEPT !.valid = lock, !.walValid = lock,
                       !.locked = lock, !.walLocked = lock]
    ELSE s

(* record_vote, for a vote of the current height and round.  Evidence is   *)
(* kept once per validator, height and round (processed_evidence).         *)
RecordVote(s, v) ==
    IF Conflicts(s, v)
    THEN [s EXCEPT !.evidence = @ \cup {[validator |-> v.validator,
                                         height |-> v.height, round |-> v.round]}]
    ELSE LET t == [s EXCEPT !.votes = @ \cup {v}]
         IN  IF v.step = "prevote" /\ HasQuorum(t, "prevote", v.hash)
             THEN ObservePolka(t, v.hash)
             ELSE t

\* record_vote reports that v completed, or again met, a quorum.
QuorumReached(s, v) ==
    ~Conflicts(s, v) /\ HasQuorum([s EXCEPT !.votes = @ \cup {v}], v.step, v.hash)

SignBallot(s, v) ==
    IF v.step = "prevote"
    THEN [s EXCEPT !.prevoted = TRUE, !.ballots = @ \cup {v}]
    ELSE [s EXCEPT !.precommitted = TRUE, !.ballots = @ \cup {v}]

(* handle_vote_actions: record v; on a prevote quorum, precommit its hash  *)
(* (NIL included) and record that too; on a precommit quorum for a block,  *)
(* finalize.                                                               *)
HandleVoteActions(n, s, v) ==
    LET recorded   == RecordVote(s, v)
        precommits == /\ v.step = "prevote"
                      /\ QuorumReached(s, v)
                      /\ ~s.precommitted
                      /\ LocalActive(n, s)
        precommit  == Ballot(n, recorded, "precommit", v.hash)
        signed     == SignBallot(recorded, precommit)
        voted      == IF precommits THEN RecordVote(signed, precommit) ELSE recorded
        finalizes  == /\ v.hash # Nil
                      /\ \/ v.step = "precommit" /\ QuorumReached(s, v)
                         \/ precommits /\ QuorumReached(signed, precommit)
    IN  IF finalizes THEN Finalize(voted, v.hash) ELSE voted

\* Mutant: the lock is ignored.
PrevoteHash_NoLock(s) == s.proposal

(* The locking rule of emit_prevote.  Without a proposal both branches     *)
(* are NIL.                                                                *)
PrevoteHash(s) ==
    IF \A l \in s.locked :
          \/ {l.block} = s.proposal
          \/ \E w \in s.valid : {w.block} = s.proposal /\ w.round >= l.round
    THEN s.proposal
    ELSE Nil

EmitPrevote(n, s) ==
    IF s.prevoted \/ ~LocalActive(n, s) THEN s
    ELSE LET v == Ballot(n, s, "prevote", PrevoteHash(s))
         IN  HandleVoteActions(n, SignBallot(s, v), v)

-----------------------------------------------------------------------------
(* Proposing.                                                              *)

\* Mutant: no slashing protection.
MayPropose_Unprotected(n, s) ==
    /\ LocalActive(n, s)
    /\ ProposerFor(s, s.height, s.round) = n
    /\ s.proposal = {}

MayPropose(n, s) ==
    /\ LocalActive(n, s)
    /\ ProposerFor(s, s.height, s.round) = n
    /\ s.proposal = {}
    /\ s.height > s.protection

NewBlock(n, s, payload) ==
    [height |-> s.height, round |-> s.round, proposer |-> n,
     parent |-> s.latest, payload |-> payload]

(* maybe_propose.  The right to propose at this height is spent, durably,  *)
(* before the block is built; then a block larger than max_block_bytes is  *)
(* dropped, and an error of dry_run_transactions ends the task.            *)
MaybePropose(n, s, outcome) ==
    IF ~MayPropose(n, s) THEN s
    ELSE LET spent == [s EXCEPT !.protection = s.height]
             b     == NewBlock(n, s, outcome)
         IN  IF outcome = "oversize" THEN spent
             ELSE IF outcome = "dry_run_error" THEN [spent EXCEPT !.up = FALSE]
             ELSE EmitPrevote(n, [spent EXCEPT !.proposal = {b},
                                               !.proposals = @ \cup {b}])

-----------------------------------------------------------------------------
(* Incoming messages.                                                      *)

\* validate_incoming_proposal, for a block its proposer built and signed.
ValidProposal(s, b) ==
    /\ b.proposer = ProposerFor(s, b.height, b.round)
    /\ b.parent = s.latest

\* on_proposal, for a valid proposal of the current height and round.
ReceiveProposal(n, s, b) ==
    IF s.proposal = {} THEN EmitPrevote(n, [s EXCEPT !.proposal = {b}])
    ELSE IF s.proposal = {b} THEN s
    ELSE [s EXCEPT !.evidence = @ \cup {[validator |-> b.proposer,
                                         height |-> b.height, round |-> b.round]}]

\* validate_commit_certificate, for precommits their validators signed.
ValidCertificate(s, f) == Cardinality(Voters(f.votes)) >= Quorum(s)

\* Mutant: the parent is not compared with the local chain.
ImportFinalizedBlock_NoParent(s, f) ==
    AdvanceHeight(CommitBlock(WalCommitFinalized(s, f.block.height), f),
                  f.block.height + 1)

(* import_external_finalized_block, past its two early returns.  The WAL   *)
(* is told before the block is known to extend the local chain.            *)
ImportFinalizedBlock(s, f) ==
    LET t == WalCommitFinalized(s, f.block.height)
    IN  IF f.block.parent # s.latest THEN t
        ELSE AdvanceHeight(CommitBlock(t, f), f.block.height + 1)

-----------------------------------------------------------------------------
(* The node's life.                                                        *)

\* A store never written to, and nothing sent.
BlankNode ==
    [up |-> FALSE, height |-> 1, round |-> 0, proposal |-> {}, votes |-> {},
     prevoted |-> FALSE, precommitted |-> FALSE, locked |-> {}, valid |-> {},
     evidence |-> {},
     blocks |-> {}, latest |-> Nil, snap |-> [height |-> 1, round |-> 0],
     walCommit |-> 0, walLocked |-> {}, walValid |-> {},
     protection |-> 0, jailed |-> {},
     proposals |-> {}, ballots |-> {}, commits |-> {}]

\* Mutant: the lock is not read back from the WAL.
Recovered_NoLock(s) ==
    LET rec == RecoverSnapshot(s)
    IN  [ResetRound(s) EXCEPT !.up = TRUE, !.evidence = {},
                              !.height = rec.height, !.round = rec.round,
                              !.locked = {}, !.valid = {}]

\* Mutant: the recovered round is dropped.
Recovered_NoRound(s) ==
    LET rec == RecoverSnapshot(s)
    IN  [ResetRound(s) EXCEPT !.up = TRUE, !.evidence = {},
                              !.height = rec.height, !.round = 0,
                              !.locked = rec.locked, !.valid = rec.valid]

\* ConsensusEngine::new: everything volatile is lost but what is recovered.
Recovered(s) ==
    LET rec == RecoverSnapshot(s)
    IN  [ResetRound(s) EXCEPT !.up = TRUE, !.evidence = {},
                              !.height = rec.height, !.round = rec.round,
                              !.locked = rec.locked, !.valid = rec.valid]

\* ConsensusEngine::new, then run up to its loop.
Boot(n, outcome) ==
    node' = [node EXCEPT ![n] =
                MaybePropose(n, PersistSnapshot(Recovered(node[n])), outcome)]

Outcomes == Payloads \cup BuildFailures

\* Whose broadcasts reach n.
Peers(n) == {m \in Nodes \ {n} : {m, n} \in Links}

\* Proposals and votes of another height or round are dropped.
Current(s, msg) == msg.height = s.height /\ msg.round = s.round

Running(n) == node[n].up /\ node[n].height <= MaxHeight

Init ==
    /\ node = [n \in Nodes |-> BlankNode]
    /\ restarts = 0

\* First start of a node, on an empty store.
Start(n) ==
    /\ node[n] = BlankNode
    /\ \E outcome \in Outcomes : Boot(n, outcome)
    /\ UNCHANGED restarts

(* The process dies between two handlers, or its task ended before, and it *)
(* is started again on the same store.                                     *)
Restart(n) ==
    /\ node[n] # BlankNode
    /\ node[n].height <= MaxHeight
    /\ restarts < MaxRestarts
    /\ \E outcome \in Outcomes : Boot(n, outcome)
    /\ restarts' = restarts + 1

OnProposal(n) ==
    /\ Running(n)
    /\ \E m \in Peers(n) : \E b \in node[m].proposals :
          /\ Current(node[n], b)
          /\ ValidProposal(node[n], b)
          /\ node' = [node EXCEPT ![n] = ReceiveProposal(n, @, b)]
    /\ UNCHANGED restarts

OnVote(n) ==
    /\ Running(n)
    /\ \E m \in Peers(n) : \E v \in node[m].ballots :
          /\ Current(node[n], v)
          /\ node' = [node EXCEPT ![n] = HandleVoteActions(n, @, v)]
    /\ UNCHANGED restarts

OnCommit(n) ==
    /\ Running(n)
    /\ \E m \in Peers(n) : \E f \in node[m].commits :
          /\ f.block.height >= node[n].height
          /\ ValidCertificate(node[n], f)
          /\ node' = [node EXCEPT ![n] = ImportFinalizedBlock(@, f)]
    /\ UNCHANGED restarts

(* The round deadline.  The round is advanced whatever the prevote led to, *)
(* also into a new height.                                                 *)
Timeout(n) ==
    /\ Running(n)
    /\ node[n].round < MaxRound
    /\ \E outcome \in Outcomes :
          node' = [node EXCEPT ![n] =
                      MaybePropose(n, AdvanceRound(EmitPrevote(n, @)), outcome)]
    /\ UNCHANGED restarts

Next ==
    \E n \in Nodes :
        Start(n) \/ Restart(n) \/ OnProposal(n) \/ OnVote(n) \/ OnCommit(n) \/ Timeout(n)

Spec == Init /\ [][Next]_vars

-----------------------------------------------------------------------------
(* Types.  A block hash is a set of at most one block.                     *)

IsBlock(b) ==
    /\ b.height \in Nat \ {0}
    /\ b.round \in 0..MaxRound
    /\ b.proposer \in Validators
    /\ b.payload \in Payloads
    /\ \A p \in b.parent : p.height < b.height

IsHash(h) == h = Nil \/ \E b \in h : h = {b} /\ IsBlock(b)

IsBallot(v) ==
    /\ v.step \in {"prevote", "precommit"}
    /\ v.height \in Nat \ {0}
    /\ v.round \in 0..MaxRound
    /\ v.validator \in Validators
    /\ IsHash(v.hash)

IsLock(l) == l = {} \/ \E x \in l : l = {x} /\ IsBlock(x.block) /\ x.round = x.block.round

(* Type invariant of RoundState, store and outbox.  Rounds stay within     *)
(* MaxRound, hashes are of one block at most, a lock is of the round its   *)
(* block was proposed in, and a block is above its parent.                 *)
TypeOK ==
    /\ restarts \in 0..MaxRestarts
    /\ \A n \in Nodes :
         LET s == node[n] IN
         /\ {s.up, s.prevoted, s.precommitted} \subseteq BOOLEAN
         /\ s.height \in Nat \ {0}
         /\ s.round \in 0..MaxRound
         /\ IsHash(s.proposal)
         /\ \A v \in s.votes \cup s.ballots : IsBallot(v)
         /\ IsLock(s.locked) /\ IsLock(s.valid)
         /\ IsLock(s.walLocked) /\ IsLock(s.walValid)
         /\ \A b \in s.proposals : IsBlock(b)
         /\ s.jailed \subseteq Validators
         /\ s.protection \in Nat
         /\ s.walCommit \in Nat

-----------------------------------------------------------------------------
(* Safety.                                                                 *)

(* Finality: two nodes never finalize different blocks at one height,      *)
(* although finalize and import_external_finalized_block act on each       *)
(* node's own votes only, and a node that precommits a block it has not    *)
(* received takes no lock (record_vote).                                   *)
Agreement ==
    \A m, n \in Nodes : \A f \in node[m].blocks, g \in node[n].blocks :
        f.block.height = g.block.height => f.block = g.block

(* The slashing protection of maybe_propose: a validator never signs two   *)
(* proposals for one height, whatever the rounds and restarts in between.  *)
ProposeOnce ==
    \A n \in Nodes : \A b, c \in node[n].proposals :
        b.height = c.height => b = c

(* No correct validator is ever accused: as long as nobody has restarted,  *)
(* record_vote and on_proposal find no evidence and finalize jails nobody. *)
NoFalseAccusation ==
    restarts = 0 => \A n \in Nodes : node[n].evidence = {} /\ node[n].jailed = {}

\* Every vote anyone has signed, and who signed a given one.
AllBallots == UNION {node[n].ballots : n \in Nodes}

SignersIn(ballots, step, h, r, hash) ==
    Voters({v \in ballots : /\ v.step = step /\ v.height = h /\ v.round = r
                            /\ v.hash = hash})

(* Nobody signs a precommit, for a block or for NIL, unless a quorum has   *)
(* signed prevotes for it in that round: what emit_precommit signs after a *)
(* restart rests on real votes too.                                        *)
PolkaBehindPrecommit ==
    \A n \in Nodes : \A v \in node[n].ballots :
        v.step = "precommit" =>
            Cardinality(SignersIn(AllBallots, "prevote", v.height, v.round, v.hash)) >= QuorumOf(N)

(* The lock binds: a validator that prevoted and precommitted a block      *)
(* signs no prevote for any other block in a later round of that height.   *)
LockBinds ==
    restarts = 0 =>
    \A n \in Nodes : \A u, v, w \in node[n].ballots :
        ( /\ u.step = "prevote" /\ v.step = "precommit"
          /\ u.hash # Nil /\ u.hash = v.hash
          /\ u.height = v.height /\ u.round = v.round
          /\ w.step = "prevote" /\ w.height = u.height /\ w.round > u.round )
        => w.hash = Nil

(* A chain starts at height 1, has no gaps and is linked by parent hashes, *)
(* whether a block came from finalize or was imported.                     *)
ChainLinked ==
    \A n \in Nodes : \A f \in node[n].blocks :
        \/ f.block.height = 1 /\ f.block.parent = Nil
        \/ \E g \in node[n].blocks : /\ g.block.height = f.block.height - 1
                                     /\ f.block.parent = {g.block}

(* A lock outlives rounds and restarts: as long as the node stays at its   *)
(* height it keeps a lock, and exchanges it only for one of a later round. *)
LockKept ==
    [][\A n \in Nodes :
        node'[n].height = node[n].height =>
            \A l \in node[n].locked : \E k \in node'[n].locked :
                k = l \/ k.round > l.round]_vars

\* What signing keeps track of is never undone: no step of a node, not even
\* a restart, takes it back to a height or round it has left.
NoRegress ==
    [][\A n \in Nodes :
        \/ node'[n].height > node[n].height
        \/ node'[n].height = node[n].height /\ node'[n].round >= node[n].round]_vars

(* "Slashing protection record - prevents validators from double-signing"  *)
(* (zeno-types lib.rs 429): no validator signs two different votes of one  *)
(* step in one round.                                                      *)
NoDoubleSign ==
    \A n \in Nodes : \A v, w \in node[n].ballots :
        (v.step = w.step /\ v.height = w.height /\ v.round = w.round) => v = w

=============================================================================
