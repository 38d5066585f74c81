----------------------------- MODULE Execution -----------------------------
(***************************************************************************)
(* What a block does to the state of one node: crates/zeno-execution with  *)
(* the checks of zeno-primitives and the executor of zeno-evm.  Staking    *)
(* and governance, which a block changes too, are in Staking.              *)
(*                                                                         *)
(* A transaction, a receipt and a header are their own hashes.  Signature, *)
(* chain id, size, memo and gas limit are one field, well_formed.  The EVM *)
(* itself (revm) is external: a call counts in the storage of the contract *)
(* and returns the count, a creation returns the address, which follows    *)
(* from the nonce of the creator.  Gas costs nothing (eth_gas_price is 0). *)
(* An EVM address is a tuple: of the native address it is cut from, of the *)
(* name of a contract, or of creator and nonce.                            *)
(***************************************************************************)
EXTENDS StateTree, SequencesExt

CONSTANTS
    Treasury,       \* treasury_address()
    EvmMinFee,      \* 10, the least fee of an EVM transaction
    EvmEnabled,     \* metadata.evm_chain_id is given
    EvmGift,        \* 1_000_000_000, what an unknown caller owns
    TreasuryBps,    \* economics.treasury_bps
    MaxBalance      \* u128::MAX

ASSUME ExecutionAssumption ==
    /\ EvmMinFee \in Nat /\ EvmGift \in Nat /\ MaxBalance \in Nat
    /\ TreasuryBps \in 0..10000 /\ EvmEnabled \in BOOLEAN

SaturatingAdd(x, y) == IF x + y > MaxBalance THEN MaxBalance ELSE x + y

-----------------------------------------------------------------------------
(* StateSnapshot: a map from addresses to accounts.                        *)

AccountOf(state, a) ==
    IF a \in DOMAIN state THEN state[a] ELSE [nonce |-> 0, balance |-> 0]

PutAccount(state, a, account) ==
    [b \in DOMAIN state \cup {a} |-> IF b = a THEN account ELSE state[b]]

\* StateSnapshot::persist: the accounts of state are written over those stored.
Over(state, stored) ==
    [a \in DOMAIN state \cup DOMAIN stored |-> IF a \in DOMAIN state THEN state[a] ELSE stored[a]]

Credit(state, a, amount) ==
    PutAccount(state, a, [AccountOf(state, a) EXCEPT !.balance = SaturatingAdd(@, amount)])

-----------------------------------------------------------------------------
(* EVM.                                                                    *)

NewEvmAccount(balance) == [nonce |-> 0, balance |-> balance, storage |-> 0]

\* revm: the state and the result, or an error if the caller cannot pay.
Transact(db, caller, call) ==
    LET target == IF call.kind = "create" THEN Append(caller, db[caller].nonce) ELSE call.contract
        known == target \in DOMAIN db
        callee == IF known THEN db[target] ELSE NewEvmAccount(0)
        paid == [db EXCEPT ![caller].nonce = @ + 1, ![caller].balance = @ - call.value]
        after == (target :> [callee EXCEPT !.balance = @ + call.value, !.storage = @ + 1]) @@ paid
    IN  [ok |-> db[caller].balance >= call.value, db |-> after,
         output |-> IF call.kind = "create" THEN target ELSE <<callee.storage + 1>>]

\* EvmExecutor::execute: precompiles need no state; a caller that is not known
\* gets a balance; persist_db stores every account.
EvmExecute(evm, caller, call) ==
    IF call.kind = "precompile" THEN [ok |-> TRUE, evm |-> evm, output |-> << >>]
    ELSE LET db == IF caller \in DOMAIN evm THEN evm
                   ELSE (caller :> NewEvmAccount(EvmGift)) @@ evm
             result == Transact(db, caller, call)
         IN  IF result.ok THEN [ok |-> TRUE, evm |-> result.db, output |-> result.output]
             ELSE [ok |-> FALSE, evm |-> evm, output |-> << >>]

-----------------------------------------------------------------------------
(* Transactions.                                                           *)

VerifyTransaction(tx, height) ==
    /\ tx.well_formed
    /\ tx.amount # 0 \/ tx.evm # {}
    /\ tx.evm # {} => tx.fee >= EvmMinFee
    /\ tx.fee # 0
    /\ \A until \in tx.valid_until : height <= until

\* Mutant: a used nonce is good enough.
ValidateTransaction_AnyOldNonce(state, height, tx) ==
    /\ VerifyTransaction(tx, height)
    /\ AccountOf(state, tx.sender).nonce >= tx.nonce
    /\ AccountOf(state, tx.sender).balance >= SaturatingAdd(tx.amount, tx.fee)

ValidateTransaction(state, height, tx) ==
    /\ VerifyTransaction(tx, height)
    /\ AccountOf(state, tx.sender).nonce = tx.nonce
    /\ AccountOf(state, tx.sender).balance >= SaturatingAdd(tx.amount, tx.fee)

Debit(state, tx) ==
    PutAccount(state, tx.sender,
        [nonce |-> AccountOf(state, tx.sender).nonce + 1,
         balance |-> AccountOf(state, tx.sender).balance - (tx.amount + tx.fee)])

\* Mutant: the recipient is read before the sender is written.
Native_StaleRecipient(state, tx) ==
    IF tx.evm # {} THEN Debit(state, tx)
    ELSE PutAccount(Debit(state, tx), tx.recipient,
             [AccountOf(state, tx.recipient) EXCEPT !.balance = SaturatingAdd(@, tx.amount)])

\* The accounts after a transaction.  The amount of an EVM transaction is
\* credited to nobody.
Native(state, tx) ==
    IF tx.evm # {} THEN Debit(state, tx) ELSE Credit(Debit(state, tx), tx.recipient, tx.amount)

\* apply_transaction on a run of a block: the state so far, what is stored of
\* the EVM, the receipts, the fees.  The first error ends the run, and leaves
\* what the EVM has stored.
ApplyTransaction(run, height, tx) ==
    LET call == CHOOSE c \in tx.evm : TRUE
        done == IF tx.evm = {} THEN [ok |-> TRUE, evm |-> run.evm, output |-> << >>]
                ELSE IF ~EvmEnabled THEN [ok |-> FALSE, evm |-> run.evm, output |-> << >>]
                ELSE EvmExecute(run.evm, <<tx.sender>>, call)
    IN  IF ~run.ok THEN run
        ELSE IF ~ValidateTransaction(run.state, height, tx) \/ ~done.ok
        THEN [run EXCEPT !.ok = FALSE]
        ELSE [ok |-> TRUE, state |-> Native(run.state, tx), evm |-> done.evm,
              receipts |-> Append(run.receipts, <<"receipt", tx, height, done.output>>),
              fees |-> run.fees + tx.fee]

-----------------------------------------------------------------------------
(* Blocks.                                                                 *)

TreasuryCut(fees) == (fees * TreasuryBps) \div 10000

\* apply_block_accounting, the accounts.
ApplyBlockAccounting(state, proposer, fees) ==
    Credit(Credit(state, proposer, fees - TreasuryCut(fees)), Treasury, TreasuryCut(fees))

StartRun(accounts, evm) ==
    [ok |-> TRUE, state |-> accounts, evm |-> evm, receipts |-> << >>, fees |-> 0]

\* The transactions of a block, one after the other.
RunTransactions(accounts, evm, height, txs) ==
    LET run[i \in 0..Len(txs)] ==
            IF i = 0 THEN StartRun(accounts, evm)
            ELSE ApplyTransaction(run[i - 1], height, txs[i])
    IN  run[Len(txs)]

\* The accounting, unless a transaction has failed.
Accounted(run, proposer) ==
    IF run.ok THEN [run EXCEPT !.state = ApplyBlockAccounting(@, proposer, run.fees)] ELSE run

\* The transactions of a block and its accounting, on the stored state.
RunBlock(accounts, evm, height, proposer, txs) ==
    Accounted(RunTransactions(accounts, evm, height, txs), proposer)

\* Mutant: the proposer computes the root without the fees.
DryRun_NoAccounting(accounts, evm, height, proposer, txs) ==
    RunTransactions(accounts, evm, height, txs)

\* dry_run_transactions: a run like any other, what the EVM stores included.
DryRun(accounts, evm, height, proposer, txs) == RunBlock(accounts, evm, height, proposer, txs)

TransactionRoot(txs) == MerkleRoot([i \in DOMAIN txs |-> <<"tx", txs[i]>>])

ReceiptRoot(receipts) == MerkleRoot(receipts)

BuildHeader(parent, height, proposer, txs, run) ==
    [height |-> height, proposer |-> proposer, parent_hash |-> parent,
     tx_root |-> TransactionRoot(txs), state_root |-> StateRoot(run.state),
     receipt_root |-> ReceiptRoot(run.receipts)]

\* Mutants: one of the roots is not compared.
RootsMatch_NoReceiptRoot(block, run) ==
    /\ block.header.tx_root = TransactionRoot(block.transactions)
    /\ block.header.state_root = StateRoot(run.state)

RootsMatch_NoStateRoot(block, run) ==
    /\ block.header.tx_root = TransactionRoot(block.transactions)
    /\ block.header.receipt_root = ReceiptRoot(run.receipts)

RootsMatch(block, run) ==
    /\ block.header.tx_root = TransactionRoot(block.transactions)
    /\ block.header.receipt_root = ReceiptRoot(run.receipts)
    /\ block.header.state_root = StateRoot(run.state)

\* The end of prepare_block.
Compared(run, block) == [run EXCEPT !.ok = run.ok /\ RootsMatch(block, run)]

\* prepare_block: nothing is run on another parent; the roots are compared
\* when the EVM has stored its part.
PrepareBlock(accounts, evm, latest, block) ==
    IF block.header.parent_hash # latest THEN [StartRun(accounts, evm) EXCEPT !.ok = FALSE]
    ELSE Compared(RunBlock(accounts, evm, block.header.height, block.header.proposer,
                           block.transactions), block)

\* validate_incoming_proposal, the transactions: nothing of the EVM is run.
ValidTransactions(accounts, block) ==
    LET Step(s, tx) == IF s.ok /\ ValidateTransaction(s.state, block.header.height, tx)
                       THEN [ok |-> TRUE, state |-> Native(s.state, tx)]
                       ELSE [s EXCEPT !.ok = FALSE]
    IN  FoldLeft(Step, [ok |-> TRUE, state |-> accounts], block.transactions).ok

=============================================================================
