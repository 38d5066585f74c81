---------------------------- MODULE StakingState ----------------------------
(***************************************************************************)
(* StakingSnapshot and GovernanceSnapshot of crates/zeno-state: the        *)
(* staking state of one node as a value, and the operations on it.  Every  *)
(* operation is a function of the snapshot it is called on; who loads and  *)
(* stores snapshots, and when, is the business of Staking.                 *)
(*                                                                         *)
(* An address is a number, so that addresses are ordered as they are in    *)
(* the BTreeMaps.  Amounts stay far below 2^128, where the code saturates. *)
(* The reason text of a slash is left out, and so is validator_set_root,   *)
(* which is a function of the validator set stored beside it.              *)
(***************************************************************************)
EXTENDS Integers, Sequences, FiniteSets, SequencesExt

\* The numbers of a finite set in increasing order, as a BTreeMap gives them.
Ascending(S) ==
    [i \in 1..Cardinality(S) |-> CHOOSE x \in S : Cardinality({y \in S : y < x}) = i - 1]

\* Vec::retain: the elements of seq at the positions kept, in their order.
Retain(seq, kept) ==
    LET at == Ascending(kept)
    IN  [i \in DOMAIN at |-> seq[at[i]]]

U16 == 0..65535

\* Nothing keeps the rates, in basis points, below 10000.
EconomicsParams ==
    [minimum_self_bond : Nat, epoch_length : Nat, unbonding_epochs : Nat,
     treasury_bps : U16, downtime_slash_bps : U16, double_sign_slash_bps : U16]

NewStake(epoch) ==
    [self_bond |-> 0, total_stake |-> 0, commission_bps |-> 0,
     status |-> "Active", last_liveness_epoch |-> epoch]

\* StakingState::default.
EmptyStaking ==
    [epoch |-> 0, validators |-> << >>, delegations |-> << >>,
     unbonding |-> << >>, treasury_balance |-> 0, slashing_events |-> << >>]

Validators(st) == DOMAIN st.validators

IsActive(st, v) == st.validators[v].status = "Active"

\* Mutant: known validators are made active again.
EnsureValidators_Reactivates(st, genesis) ==
    [st EXCEPT !.validators =
        [v \in DOMAIN @ \cup genesis |->
            IF v \notin DOMAIN @ THEN NewStake(st.epoch)
            ELSE IF v \in genesis THEN [@[v] EXCEPT !.status = "Active"] ELSE @[v]]]

\* The validators of genesis the map does not hold yet.
EnsureValidators(st, genesis) ==
    [st EXCEPT !.validators =
        [v \in DOMAIN @ \cup genesis |-> IF v \in DOMAIN @ THEN @[v] ELSE NewStake(st.epoch)]]

Delegated(st, d, v) ==
    IF <<d, v>> \in DOMAIN st.delegations THEN st.delegations[<<d, v>>] ELSE 0

Delegate(st, d, v, amount, isSelfBond) ==
    LET old == st.validators[v]
    IN  [st EXCEPT !.delegations =
                       [k \in DOMAIN @ \cup {<<d, v>>} |->
                           IF k = <<d, v>> THEN Delegated(st, d, v) + amount ELSE @[k]],
                   !.validators[v] =
                       [old EXCEPT !.total_stake = old.total_stake + amount,
                                   !.self_bond = IF isSelfBond THEN old.self_bond + amount
                                                 ELSE old.self_bond]]

CanUnbond(st, d, v, amount) ==
    /\ <<d, v>> \in DOMAIN st.delegations
    /\ v \in Validators(st)
    /\ st.delegations[<<d, v>>] >= amount

\* a.saturating_sub(b)
Minus(a, b) == IF a >= b THEN a - b ELSE 0

BeginUnbonding(st, d, v, amount, params) ==
    LET old == st.validators[v]
    IN  [st EXCEPT !.delegations[<<d, v>>] = @ - amount,
                   !.validators[v] =
                       [old EXCEPT !.total_stake = old.total_stake - amount,
                                   !.self_bond = IF d = v THEN Minus(old.self_bond, amount)
                                                 ELSE old.self_bond],
                   !.unbonding = Append(@,
                       [delegator |-> d, validator |-> v, amount |-> amount,
                        release_epoch |-> st.epoch + params.unbonding_epochs])]

Bps(amount, bps) == (amount * bps) \div 10000

\* Mutant: the delegations to a jailed validator keep their amounts.
Slash_KeepsDelegations(st, v, bps, jail) ==
    LET old == st.validators[v]
        stake == Minus(old.total_stake, Bps(old.total_stake, bps))
    IN  [st EXCEPT !.validators[v] =
                       [old EXCEPT !.total_stake = stake,
                                   !.self_bond = IF old.self_bond > stake THEN stake
                                                 ELSE old.self_bond,
                                   !.status = IF jail THEN "Jailed" ELSE old.status]]

\* slash: a jailing one moves the delegations to v, at their full amount and
\* in the order of their keys, to the unbonding list.
Slash(st, v, bps, jail) ==
    LET old == st.validators[v]
        stake == Minus(old.total_stake, Bps(old.total_stake, bps))
        frozen == IF jail THEN {k \in DOMAIN st.delegations : k[2] = v} ELSE {}
        delegators == Ascending({k[1] : k \in frozen})
        entries == [i \in DOMAIN delegators |->
                       [delegator |-> delegators[i], validator |-> v,
                        amount |-> st.delegations[<<delegators[i], v>>],
                        release_epoch |-> st.epoch + 1]]
    IN  [st EXCEPT !.validators[v] =
                       [old EXCEPT !.total_stake = stake,
                                   !.self_bond = IF old.self_bond > stake THEN stake
                                                 ELSE old.self_bond,
                                   !.status = IF jail THEN "Jailed" ELSE old.status],
                   !.delegations = [k \in DOMAIN @ |-> IF k \in frozen THEN 0 ELSE @[k]],
                   !.unbonding = @ \o entries,
                   !.slashing_events = Append(@,
                       [validator |-> v, epoch |-> st.epoch, slash_bps |-> bps])]

\* Slashes the validators of a sequence one after the other.
SlashAll(st, seq, bps) ==
    LET after[i \in 0..Len(seq)] ==
            IF i = 0 THEN st ELSE Slash(after[i - 1], seq[i], bps, TRUE)
    IN  after[Len(seq)]

\* apply_evidence: every validator once, however often it is accused.  Both
\* reasons the engine records are equivocation.
ApplyEvidence(st, accused, params) ==
    LET first == {i \in DOMAIN accused : \A j \in 1..(i - 1) : accused[j] # accused[i]}
    IN  SlashAll(st, Retain(accused, first), params.double_sign_slash_bps)

NoteLiveness(st, v) ==
    [st EXCEPT !.validators[v] = [st.validators[v] EXCEPT !.last_liveness_epoch = st.epoch]]

\* Mutant: a validator seen in the current epoch is taken for a missing one.
ApplyDowntimeSlashing_OffByOne(st, params) ==
    LET stale == {v \in Validators(st) :
                     /\ IsActive(st, v)
                     /\ st.validators[v].last_liveness_epoch + 1 <= st.epoch + 1}
    IN  SlashAll(st, Ascending(stale), params.downtime_slash_bps)

ApplyDowntimeSlashing(st, params) ==
    LET stale == {v \in Validators(st) :
                     /\ IsActive(st, v)
                     /\ st.validators[v].last_liveness_epoch + 1 < st.epoch + 1}
    IN  SlashAll(st, Ascending(stale), params.downtime_slash_bps)

ActiveStake(st) ==
    SumFunction([v \in {v \in Validators(st) : IsActive(st, v)} |-> st.validators[v].total_stake])

\* Mutant: the validators share the treasury's cut as well.
Rewards_WithTreasuryCut(st, fees, budget, params) ==
    LET pool == fees + budget
    IN  [v \in {v \in Validators(st) : IsActive(st, v) /\ st.validators[v].total_stake > 0} |->
            (pool * st.validators[v].total_stake) \div ActiveStake(st)]

\* What settle_epoch_rewards returns: shares of the pool, by stake.
Rewards(st, fees, budget, params) ==
    LET pool == Minus(fees + budget, Bps(fees + budget, params.treasury_bps))
    IN  [v \in {v \in Validators(st) : IsActive(st, v) /\ st.validators[v].total_stake > 0} |->
            (pool * st.validators[v].total_stake) \div ActiveStake(st)]

\* Mutant: what is released in the next epoch is dropped in this one.
SettleEpochRewards_Early(st, fees, budget, params) ==
    [st EXCEPT !.epoch = @ + 1,
               !.unbonding = SelectSeq(@, LAMBDA u : u.release_epoch > st.epoch + 2)]

\* settle_epoch_rewards: without active stake everything goes to the treasury
\* and the unbonding list is left as it is.
SettleEpochRewards(st, fees, budget, params) ==
    IF ActiveStake(st) = 0
    THEN [st EXCEPT !.treasury_balance = @ + fees + budget, !.epoch = @ + 1]
    ELSE LET rewards == Rewards(st, fees, budget, params)
             commission == [v \in DOMAIN rewards |->
                               Bps(rewards[v], st.validators[v].commission_bps)]
         IN  [st EXCEPT !.treasury_balance =
                            @ + Bps(fees + budget, params.treasury_bps)
                              + SumFunction(commission),
                        !.epoch = @ + 1,
                        !.unbonding =
                            Retain(@, {i \in DOMAIN @ : @[i].release_epoch > st.epoch + 1})]

IsValidatorActive(st, v, params) ==
    /\ v \in Validators(st)
    /\ IsActive(st, v)
    /\ st.validators[v].self_bond >= params.minimum_self_bond

\* effective_validator_set: most stake first, then by address.
EffectiveValidatorSet(st, params) ==
    LET Stake(v) == st.validators[v].total_stake
        Before(v, w) == Stake(v) > Stake(w) \/ (Stake(v) = Stake(w) /\ v < w)
    IN  SetToSortSeq({v \in Validators(st) : IsValidatorActive(st, v, params)}, Before)

BuildEpochTransition(st, height, economics) ==
    [epoch |-> st.epoch, height |-> height,
     validator_set |-> EffectiveValidatorSet(st, economics), economics |-> economics]

-----------------------------------------------------------------------------
(* Governance.                                                             *)

\* GovernanceState::new.
NewGovernance(economics) ==
    [economics |-> economics, pending |-> << >>, next_proposal_id |-> 1]

QueueParameterUpdate(gov, activation, economics) ==
    [gov EXCEPT !.next_proposal_id = @ + 1,
                !.pending = Append(@,
                    [proposal_id |-> gov.next_proposal_id,
                     activation_epoch |-> activation, update |-> economics])]

\* activate_ready_updates: of several ready proposals the last one queued wins.
ActivateReadyUpdates(gov, epoch) ==
    LET waiting == {i \in DOMAIN gov.pending : gov.pending[i].activation_epoch > epoch}
        ready == DOMAIN gov.pending \ waiting
    IN  [gov EXCEPT !.economics = IF ready = {} THEN @ ELSE gov.pending[Max(ready)].update,
                    !.pending = Retain(@, waiting)]

=============================================================================
