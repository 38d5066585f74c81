----------------------------- MODULE MCStaking -----------------------------
(* Instances of Staking.                                                   *)
EXTENDS Staking

CONSTANTS n1, n2

\* One node, whose consensus task imports the blocks of others too.
\* Validator 2 may equivocate, 3 registers.
OneNode == [n \in {n1} |-> {"consensus", "rpc"}]

\* A node that votes, and one that only follows.
VoterAndFollower == n1 :> {"consensus"} @@ n2 :> {"gossip"}

Params(length, selfBond) ==
    [minimum_self_bond |-> selfBond, epoch_length |-> length, unbonding_epochs |-> 2,
     treasury_bps |-> 1000, downtime_slash_bps |-> 2500, double_sign_slash_bps |-> 5000]

\* The first lost, repeated or skipped write ends a behaviour: what follows
\* is not covered by the properties, and StakeCovers holds state by state.
UntilUnclean == \A n \in Nodes : clean[n]

ShortEpochs == Params(1, 4)
Updates == {Params(1, 6)}
NoUpdates == {}

=============================================================================
