------------------------------ MODULE Staking ------------------------------
(***************************************************************************)
(* The staking state in the stores of several nodes.  Three tasks of a     *)
(* node change it: the consensus task (liveness of voters, blocks, pending *)
(* evidence), the gossip task (imported blocks) and the RPC                *)
(* (register_validator).  Each loads the whole state, changes its copy and *)
(* stores the copy; nothing keeps the others out in between.  Calls of the *)
(* library that no part of the node makes (begin_unbonding,                *)
(* queue_parameter_update) run in the RPC task as well.                    *)
(*                                                                         *)
(* A job is one such load, change and store: the copy, computed when the   *)
(* state is loaded, and the writes still to do.  The accounts are left     *)
(* out, and so are the single writes of a block (see Durability), except   *)
(* that its accounting and the block are stored apart.                     *)
(***************************************************************************)
EXTENDS StakingState

CONSTANTS
    Nodes,
    TasksOf,        \* TasksOf[n]: the tasks node n runs
    Remote,         \* whether there are validators outside Nodes
    Genesis,        \* addresses of genesis.validators
    Joiners,        \* addresses that may call register_validator
    Faulty,         \* the validators that may sign conflicting votes
    Unbonders,      \* delegators that may unbond
    Economics,      \* genesis.economics
    Proposed,       \* economics a proposal may ask for
    Fees,           \* fees of a block
    MaxHeight,      \* bound on the height of the chain
    MaxStarts,      \* bound on the starts of a node
    MaxCalls,       \* bound on the calls of a node's RPC task
    MaxLate         \* bound on the votes a node records that do not count

ASSUME AddressesAssumption ==
    /\ Genesis \subseteq Nat /\ Joiners \subseteq Nat /\ Genesis # {}
    /\ IsFiniteSet(Genesis) /\ IsFiniteSet(Joiners)
    /\ Faulty \subseteq Genesis /\ Unbonders \subseteq Genesis \cup Joiners

ASSUME EconomicsAssumption == Economics \in EconomicsParams /\ Proposed \subseteq EconomicsParams

ASSUME BoundsAssumption ==
    /\ Fees \in Nat /\ MaxHeight \in Nat /\ MaxStarts \in Nat /\ MaxCalls \in Nat
    /\ MaxLate \in Nat
    /\ Remote \in BOOLEAN
    /\ \A n \in Nodes : TasksOf[n] \subseteq {"consensus", "gossip", "rpc"}

VARIABLES
    store,      \* store[n]: staking, governance, height of the latest block,
                \*   and (history) the last block staking accounts for
    up,
    job,        \* job[n][t]: what task t of node n is doing
    votes,      \* votes[n]: precommits recorded for the block being decided
    evidence,   \* evidence[n]: RoundState.evidence, accused validators
    published,  \* blocks, with their epoch transitions, some node has yet to get
    starts, calls, late,
    clean       \* history: no write of n lost, repeated or skipped another

vars == <<store, up, job, votes, evidence, published, starts, calls, late, clean>>

NoJob == [todo |-> << >>, staking |-> EmptyStaking, gov |-> NewGovernance(Economics),
          block |-> 0, vote |-> {}, accused |-> << >>, transition |-> {}, fresh |-> TRUE]

Idle(n, t) == up[n] /\ t \in TasksOf[n] /\ job[n][t].todo = << >>

Assign(n, t, j) == job' = [job EXCEPT ![n][t] = j]

\* StakingSnapshot::load and ensure_validators.
Load(n) == EnsureValidators(store[n].staking, Genesis)

-----------------------------------------------------------------------------
(* The consensus engine's view.                                            *)

\* active_validators, in the order proposer_for counts them.
ActiveValidators(st) ==
    LET effective == EffectiveValidatorSet(EnsureValidators(st, Genesis), Economics)
    IN  IF effective = << >> THEN Ascending(Genesis)
        ELSE SelectSeq(effective, LAMBDA v : v \in Genesis)

QuorumOf(count) == (count * 2) \div 3 + 1

\* All who voted count, jailed ones and those outside genesis too; only the
\* quorum is of the active validators.
HasQuorum(n) ==
    Cardinality(votes[n]) >= QuorumOf(Len(ActiveValidators(store[n].staking)))

\* Mutant: the epoch is settled on every block but its last.
AccountBlock_Late(st, gov, h) ==
    LET funded == [st EXCEPT !.treasury_balance = @ + Bps(Fees, Economics.treasury_bps)]
        settled == SettleEpochRewards(ApplyDowntimeSlashing(funded, gov.economics),
                                      0, 0, gov.economics)
        governed == ActivateReadyUpdates(gov, settled.epoch)
    IN  IF h % Economics.epoch_length = 0
        THEN [staking |-> funded, gov |-> gov, transition |-> {}]
        ELSE [staking |-> settled, gov |-> governed,
              transition |-> {BuildEpochTransition(settled, h, governed.economics)}]

\* apply_block_accounting, on the block of height h.
AccountBlock(st, gov, h) ==
    LET funded == [st EXCEPT !.treasury_balance = @ + Bps(Fees, Economics.treasury_bps)]
        settled == SettleEpochRewards(ApplyDowntimeSlashing(funded, gov.economics),
                                      0, 0, gov.economics)
        governed == ActivateReadyUpdates(gov, settled.epoch)
    IN  IF Economics.epoch_length # 0 /\ h % Economics.epoch_length = 0
        THEN [staking |-> settled, gov |-> governed,
              transition |-> {BuildEpochTransition(settled, h, governed.economics)}]
        ELSE [staking |-> funded, gov |-> gov, transition |-> {}]

\* prepare_block of the next block in the store of n, as a job with the
\* writes todo.
BlockJob(n, todo) ==
    LET h == store[n].height + 1
        a == AccountBlock(Load(n), store[n].gov, h)
    IN  [NoJob EXCEPT !.todo = todo, !.staking = a.staking, !.gov = a.gov,
                      !.block = h, !.transition = a.transition]

\* The accounting of a block is to be applied once, after its predecessor's.
InOrder(n) == store[n].accounted = store[n].height

-----------------------------------------------------------------------------
Init ==
    /\ store = [n \in Nodes |-> [staking |-> EmptyStaking, gov |-> NewGovernance(Economics),
                                 height |-> 0, accounted |-> 0]]
    /\ up = [n \in Nodes |-> FALSE]
    /\ job = [n \in Nodes |-> [t \in TasksOf[n] |-> NoJob]]
    /\ votes = [n \in Nodes |-> {}]
    /\ evidence = [n \in Nodes |-> << >>]
    /\ published = {}
    /\ starts = [n \in Nodes |-> 0]
    /\ calls = [n \in Nodes |-> 0]
    /\ late = [n \in Nodes |-> 0]
    /\ clean = [n \in Nodes |-> TRUE]

\* bootstrap_genesis: every start delegates the minimum self-bond again.
Bootstrap(st) ==
    LET order == Ascending(Genesis)
        after[i \in 0..Len(order)] ==
            IF i = 0 THEN EnsureValidators(st, Genesis)
            ELSE Delegate(after[i - 1], order[i], order[i], Economics.minimum_self_bond, TRUE)
    IN  after[Len(order)]

Start(n) ==
    /\ ~up[n] /\ starts[n] < MaxStarts
    /\ up' = [up EXCEPT ![n] = TRUE]
    /\ starts' = [starts EXCEPT ![n] = @ + 1]
    /\ store' = [store EXCEPT ![n].staking = Bootstrap(@)]
    /\ UNCHANGED <<job, votes, evidence, published, calls, late, clean>>

Stop(n) ==
    /\ up[n] /\ starts[n] < MaxStarts
    /\ up' = [up EXCEPT ![n] = FALSE]
    /\ job' = [job EXCEPT ![n] = [t \in TasksOf[n] |-> NoJob]]
    /\ votes' = [votes EXCEPT ![n] = {}]
    /\ evidence' = [evidence EXCEPT ![n] = << >>]
    /\ UNCHANGED <<store, published, starts, calls, late, clean>>

\* note_validator_liveness, and the vote it is done for.
NoteJob(n, v, vote, accused) ==
    [NoJob EXCEPT !.todo = <<"staking">>, !.staking = NoteLiveness(Load(n), v),
                  !.vote = vote, !.accused = accused]

\* record_vote notes the voter as live before it looks at the vote; it asks
\* for nothing but that the staking state knows the voter.
RecordVote(n, v) ==
    /\ Idle(n, "consensus")
    /\ v \in Validators(Load(n)) \ votes[n]
    /\ Assign(n, "consensus", NoteJob(n, v, {v}, << >>))
    /\ UNCHANGED <<store, up, votes, evidence, published, starts, calls, late, clean>>

\* ... which may be of another height or round, and not count,
RecordLateVote(n, v) ==
    /\ Idle(n, "consensus") /\ late[n] < MaxLate
    /\ v \in Validators(Load(n))
    /\ Assign(n, "consensus", NoteJob(n, v, {}, << >>))
    /\ late' = [late EXCEPT ![n] = @ + 1]
    /\ UNCHANGED <<store, up, votes, evidence, published, starts, calls, clean>>

\* ... or conflict with one that counted.
RecordConflictingVote(n, v) ==
    /\ Idle(n, "consensus")
    /\ v \in Faulty \cap votes[n] /\ ~Contains(evidence[n], v)
    /\ Assign(n, "consensus", NoteJob(n, v, {}, <<v>>))
    /\ UNCHANGED <<store, up, votes, evidence, published, starts, calls, late, clean>>

\* finalize, up to execute_block: the accounting is stored before the block,
\* the evidence applied after it.
Finalize(n) ==
    /\ Idle(n, "consensus")
    /\ store[n].height < MaxHeight
    /\ HasQuorum(n)
    /\ Assign(n, "consensus", BlockJob(n, <<"staking", "commit", "evidence">>))
    /\ clean' = [clean EXCEPT ![n] = @ /\ InOrder(n)]
    /\ UNCHANGED <<store, up, votes, evidence, published, starts, calls, late>>

\* The next block, for n to import: from a node of the model, or finalized
\* elsewhere with the transition n computes (with any other it is refused).
\* Whoever finalized it had noted its voters live: those whom the block jails
\* for downtime are not among them.
NextBlocks(n) ==
    LET j == BlockJob(n, << >>)
        voters == {v \in Validators(j.staking) :
                      IsActive(Load(n), v) => IsActive(j.staking, v)}
    IN  {b \in published : b.height = store[n].height + 1}
        \cup IF /\ Remote /\ store[n].height < MaxHeight
                /\ Cardinality(voters) >= QuorumOf(Len(ActiveValidators(store[n].staking)))
             THEN {[height |-> store[n].height + 1, transition |-> j.transition]} ELSE {}

\* import_external_finalized_block: the epoch transition must be the one this
\* node computes; the block is stored before the accounting.
Import(n, t, b) ==
    /\ t \in {"consensus", "gossip"} /\ Idle(n, t)
    /\ LET j == BlockJob(n, <<"commit", "staking">>)
       IN  /\ j.transition = b.transition
           /\ Assign(n, t, j)
    /\ clean' = [clean EXCEPT ![n] = @ /\ InOrder(n)]
    /\ UNCHANGED <<store, up, votes, evidence, published, starts, calls, late>>

Call(n, j) ==
    /\ Idle(n, "rpc") /\ calls[n] < MaxCalls
    /\ Assign(n, "rpc", j)
    /\ calls' = [calls EXCEPT ![n] = @ + 1]
    /\ UNCHANGED <<store, up, votes, evidence, published, starts, late, clean>>

RegisterValidator(n, v) ==
    Call(n, [NoJob EXCEPT !.todo = <<"staking">>,
                          !.staking = Delegate(EnsureValidators(store[n].staking, {v}), v, v,
                                               Economics.minimum_self_bond, TRUE)])

Unbond(n, d, v, amount) ==
    /\ CanUnbond(store[n].staking, d, v, amount)
    /\ Call(n, [NoJob EXCEPT !.todo = <<"staking">>,
                             !.staking = BeginUnbonding(store[n].staking, d, v, amount,
                                                        store[n].gov.economics)])

QueueUpdate(n, economics) ==
    Call(n, [NoJob EXCEPT !.todo = <<"governance">>,
                          !.gov = QueueParameterUpdate(store[n].gov, store[n].staking.epoch + 1,
                                                       economics)])

-----------------------------------------------------------------------------
(* The writes of a job.                                                    *)

\* The jobs of n after task t has written: copies loaded before are stale.
Written(n, t, j) ==
    [job EXCEPT ![n] = [u \in TasksOf[n] |->
        IF u = t THEN j ELSE [job[n][u] EXCEPT !.fresh = FALSE]]]

StoreStaking(n, t) ==
    LET j == job[n][t]
    IN  /\ up[n] /\ j.todo # << >> /\ Head(j.todo) = "staking"
        /\ store' = [store EXCEPT ![n] =
               IF j.block = 0 THEN [store[n] EXCEPT !.staking = j.staking]
               ELSE [store[n] EXCEPT !.staking = j.staking, !.gov = j.gov,
                                     !.accounted = j.block]]
        /\ job' = Written(n, t, IF Len(j.todo) = 1 THEN NoJob ELSE [j EXCEPT !.todo = Tail(@)])
        /\ votes' = [votes EXCEPT ![n] = @ \cup j.vote]
        /\ evidence' = [evidence EXCEPT ![n] = @ \o j.accused]
        /\ clean' = [clean EXCEPT ![n] = @ /\ j.fresh]
        /\ UNCHANGED <<up, published, starts, calls, late>>

StoreGovernance(n, t) ==
    LET j == job[n][t]
    IN  /\ up[n] /\ j.todo # << >> /\ Head(j.todo) = "governance"
        /\ store' = [store EXCEPT ![n].gov = j.gov]
        /\ job' = Written(n, t, NoJob)
        /\ clean' = [clean EXCEPT ![n] = @ /\ j.fresh]
        /\ UNCHANGED <<up, votes, evidence, published, starts, calls, late>>

\* commit_finalized_block, the broadcast of the block and advance_height.
CommitBlock(n, t) ==
    LET j == job[n][t]
    IN  /\ up[n] /\ j.todo # << >> /\ Head(j.todo) = "commit"
        /\ store' = [store EXCEPT ![n].height = j.block]
        /\ job' = [job EXCEPT ![n][t].todo = Tail(@)]
        /\ votes' = [votes EXCEPT ![n] = {}]
        /\ published' = {b \in published \cup {[height |-> j.block, transition |-> j.transition]} :
                            \E m \in Nodes : b.height > store'[m].height}
        /\ UNCHANGED <<up, evidence, starts, calls, late, clean>>

\* apply_pending_evidence: takes the evidence, loads the state afresh.
ApplyPendingEvidence(n) ==
    LET j == job[n]["consensus"]
    IN  /\ up[n] /\ "consensus" \in TasksOf[n] /\ j.todo # << >> /\ Head(j.todo) = "evidence"
        /\ Assign(n, "consensus",
                  IF evidence[n] = << >> THEN NoJob
                  ELSE [NoJob EXCEPT !.todo = <<"staking">>,
                            !.staking = ApplyEvidence(Load(n), evidence[n], Economics)])
        /\ evidence' = [evidence EXCEPT ![n] = << >>]
        /\ UNCHANGED <<store, up, votes, published, starts, calls, late, clean>>

Next ==
    \E n \in Nodes :
        \/ Start(n)
        \/ Stop(n)
        \/ \E v \in Genesis \cup Joiners : RecordVote(n, v) \/ RecordLateVote(n, v)
        \/ \E v \in Faulty : RecordConflictingVote(n, v)
        \/ Finalize(n)
        \/ \E t \in TasksOf[n], b \in NextBlocks(n) : Import(n, t, b)
        \/ \E v \in Joiners : RegisterValidator(n, v)
        \/ \E d \in Unbonders : Unbond(n, d, d, Economics.minimum_self_bond)
        \/ \E e \in Proposed : QueueUpdate(n, e)
        \/ \E t \in TasksOf[n] : StoreStaking(n, t)
        \/ \E t \in TasksOf[n] : StoreGovernance(n, t)
        \/ \E t \in TasksOf[n] : CommitBlock(n, t)
        \/ ApplyPendingEvidence(n)

Spec == Init /\ [][Next]_vars

-----------------------------------------------------------------------------
(* Properties.                                                             *)

\* The total stake of a validator covers its self-bond and what others have
\* delegated to it, and the self-bond covers its own delegation: the plain
\* subtraction in begin_unbonding (total_stake -= amount) cannot underflow,
\* whatever slashes, restarts and overwritten copies came before.
StakeCovers ==
    \A n \in Nodes : LET st == store[n].staking IN
        \A v \in Validators(st) :
            LET others == {k \in DOMAIN st.delegations : k[2] = v /\ k[1] # v}
                delegated == SumFunctionOnSet(st.delegations, others)
            IN  /\ st.validators[v].total_stake >= st.validators[v].self_bond + delegated
                /\ st.validators[v].self_bond >= Delegated(st, v, v)

\* settle_epoch_rewards hands out no more than fees and budget, treasury and
\* rewards together, and loses less than one unit per validator to rounding,
\* as long as the treasury's rate is one.
Conserves(st, fees, budget, params) ==
    LET rewards == Rewards(st, fees, budget, params)
        settled == SettleEpochRewards(st, fees, budget, params)
        out == SumFunction(rewards) + (settled.treasury_balance - st.treasury_balance)
    IN  ActiveStake(st) > 0 /\ params.treasury_bps <= 10000 =>
            /\ out <= fees + budget
            /\ out + Cardinality(DOMAIN rewards) > fees + budget

SettlementConserves ==
    \A n \in Nodes, fees \in {1, 7} :
        Conserves(store[n].staking, fees, fees + 3, store[n].gov.economics)

\* proposer_for divides by the number of active validators.  This is not an
\* invariant: the votes of jailed validators count, so a block can be decided
\* without noting the remaining one live, whose downtime jail then leaves only
\* a validator outside genesis in the set.
ProposerExists ==
    \A n \in Nodes : clean[n] => ActiveValidators(store[n].staking) # << >>

\* The epochs that have ended at height h.
EpochOf(h) == IF Economics.epoch_length = 0 THEN 0 ELSE h \div Economics.epoch_length

\* The epoch in staking is the one of the last block it accounts for, unless
\* some write was lost, repeated or skipped.
EpochFollowsChain ==
    \A n \in Nodes : clean[n] =>
        store[n].staking.epoch = EpochOf(store[n].accounted)

\* Nothing in the node restores a jailed validator: only a task that stores a
\* copy it loaded before the jailing does, by accident.
JailIsFinal ==
    [][\A n \in Nodes, v \in Genesis \cup Joiners :
          (/\ clean'[n]
           /\ v \in Validators(store[n].staking) /\ ~IsActive(store[n].staking, v))
          => ~IsActive(store'[n].staking, v)]_vars

\* Unbonding stake leaves the list only at an epoch that has reached its
\* release epoch.
NotReleasedEarly ==
    [][\A n \in Nodes : clean'[n] =>
          \A i \in DOMAIN store[n].staking.unbonding :
              LET entry == store[n].staking.unbonding[i]
              IN  \/ Contains(store'[n].staking.unbonding, entry)
                  \/ entry.release_epoch <= store'[n].staking.epoch]_vars

\* "Replays and commits an externally supplied finalized block after
\* deterministic validation": a node that has all blocks before a finalized
\* one, none of whose writes was lost, computes the epoch transition the block
\* was finalized with.
ReplayAgrees ==
    \A n \in Nodes, b \in published :
        (/\ up[n] /\ clean[n] /\ InOrder(n)
         /\ \A t \in TasksOf[n] : job[n][t].todo = << >>
         /\ b.height = store[n].height + 1)
        => BlockJob(n, << >>).transition = b.transition

=============================================================================
