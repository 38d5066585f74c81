------------------------------ MODULE MCLedger ------------------------------
(* Instances of Ledger.                                                    *)
EXTENDS Ledger

\* Two validators, the faucet and the treasury; nobody else has an account.
MCPathKey ==
    "a" :> <<FALSE, FALSE>> @@ "b" :> <<FALSE, TRUE>>
    @@ "f" :> <<TRUE, FALSE>> @@ "t" :> <<TRUE, TRUE>>

MCGenesis ==
    "a" :> [nonce |-> 0, balance |-> 7] @@ "b" :> [nonce |-> 0, balance |-> 2]
    @@ "f" :> [nonce |-> 0, balance |-> 1]

Transaction(sender, recipient, nonce, evmCall) ==
    [sender |-> sender, recipient |-> recipient, amount |-> 1, nonce |-> nonce, fee |-> 2,
     evm |-> evmCall, valid_until |-> {}, well_formed |-> TRUE]

CounterCall == [kind |-> "call", contract |-> <<"counter">>, value |-> 1]
CreateCall == [kind |-> "create", value |-> 0]
Precompile == [kind |-> "precompile", value |-> 0]

\* A payment, one to oneself, one that is valid at the first height only, and
\* EVM transactions.
MCTxs ==
    {Transaction("a", "b", 0, {}), Transaction("a", "a", 1, {}),
     [Transaction("b", "a", 0, {}) EXCEPT !.amount = 0, !.evm = {CounterCall},
                                          !.valid_until = {1}],
     Transaction("a", "b", 1, {CreateCall}),
     Transaction("a", "b", 0, {Precompile})}

\* The creation of a contract.
CreateTxs == {Transaction("a", "b", 0, {CreateCall})}

MCCalls == {CounterCall}

NoBudget == [blocks |-> 0, calls |-> 0, notes |-> 0, odd |-> 0, crashes |-> 0, failures |-> 0]

\* Blocks alone; blocks and calls; a crash besides; blocks and withdrawals
\* from the pool; the pool alone, until its tree is full; the pool with two
\* requests or deposits that are not their owner's.
MCBudgets ==
    {[NoBudget EXCEPT !.blocks = 3, !.failures = 2],
     [NoBudget EXCEPT !.blocks = 2, !.calls = 1, !.failures = 1],
     [NoBudget EXCEPT !.blocks = 1, !.calls = 1, !.crashes = 1, !.failures = 1],
     [NoBudget EXCEPT !.blocks = 1, !.notes = 2, !.failures = 1],
     [NoBudget EXCEPT !.notes = 5, !.crashes = 1],
     [NoBudget EXCEPT !.notes = 3, !.odd = 2]}

\* What happens after a lost write is of no interest here.
UntilUnclean == \A n \in Nodes : clean[n]

=============================================================================
