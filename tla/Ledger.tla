------------------------------- MODULE Ledger -------------------------------
(***************************************************************************)
(* The account state of the nodes: blocks that are proposed, executed and  *)
(* committed, beside the RPC calls that write the same store directly      *)
(* (faucet_send, zk_unshield, eth_send_raw_transaction) and the shielded   *)
(* pool, which each node keeps in memory.                                  *)
(*                                                                         *)
(* Consensus is abstracted to its result: a block is decided when enough   *)
(* nodes accept the proposal (see Consensus).  The pool of transactions    *)
(* may hold anything the clients sent, committed transactions included,    *)
(* since gossip inserts without validation (see Mempool): a proposer may   *)
(* select any list.  Validators are known by their addresses.  A call      *)
(* reads a record and writes it in separate steps; so does the execution   *)
(* of a block.                                                             *)
(***************************************************************************)
EXTENDS Execution, ShieldedPool, FiniteSets

CONSTANTS
    Nodes,          \* addresses of the validators, one node each
    Txs,            \* transactions clients may send
    Calls,          \* EVM calls of raw Ethereum transactions
    Genesis,        \* genesis.accounts
    PoolNodes,      \* the nodes whose shielded pool is used; pools are independent
    Faucet,         \* address of ./devnet/faucet.json
    MaxBlockTxs,    \* params.max_transactions_per_block
    Budgets         \* bounds: blocks, faucet and raw calls, notes, requests no
                    \*   owner of a note would make, crashes, failures

ASSUME LedgerAssumption ==
    /\ IsFiniteSet(Nodes) /\ PoolNodes \subseteq Nodes /\ MaxBlockTxs \in Nat
    /\ \A b \in Budgets : \A k \in DOMAIN b : b[k] \in Nat
    /\ Genesis \in [DOMAIN Genesis -> [nonce : Nat, balance : Nat]]

VARIABLES
    accounts,   \* accounts[n]: "acct:" records of the store
    evm,        \* evm[n]: "evm-acct:" records
    chain,      \* chain[n]: finalized blocks with their receipts
    proposed,   \* proposed[n]: last_signed_proposal_height
    proposal,   \* the block voted on, or {}
    decided,    \* the blocks decided by consensus, by height
    job,        \* job[n]: the block being committed, or {}
    rpc,        \* rpc[n]: the call being served, or {}
    pool,       \* pool[n]: zk_pool
    notes,      \* notes[n]: history, the notes in the tree, by leaf
    request,    \* request[n]: a request on a note, prepared and not yet sent
    budget,     \* what is left of the bounds
    credits,    \* credits[n][a]: history, what calls have added to a
    base,       \* base[n]: history, credits when the latest block was loaded
    clean,      \* clean[n]: history, no write of n was lost or cut off
    failed      \* failed: history, the node and the block that did not execute

storeVars == <<accounts, evm, chain>>
consVars == <<proposed, proposal, decided>>
poolVars == <<pool, notes, request>>
histVars == <<credits, base, clean, failed>>
vars == <<storeVars, consVars, job, rpc, poolVars, budget, histVars>>

Addrs == DOMAIN PathKey

NoCredits == [a \in Addrs |-> 0]

Init ==
    /\ accounts = [n \in Nodes |-> Genesis]
    /\ evm = [n \in Nodes |-> << >>]
    /\ chain = [n \in Nodes |-> << >>]
    /\ proposed = [n \in Nodes |-> 0]
    /\ proposal = {}
    /\ decided = << >>
    /\ job = [n \in Nodes |-> {}]
    /\ rpc = [n \in Nodes |-> {}]
    /\ pool = [n \in Nodes |-> EmptyPool]
    /\ notes = [n \in Nodes |-> << >>]
    /\ request = [n \in Nodes |-> {}]
    /\ budget \in Budgets
    /\ credits = [n \in Nodes |-> NoCredits]
    /\ base = [n \in Nodes |-> NoCredits]
    /\ clean = [n \in Nodes |-> TRUE]
    /\ failed = {}

Spend(what) ==
    /\ budget[what] > 0
    /\ budget' = [budget EXCEPT ![what] = @ - 1]

-----------------------------------------------------------------------------
(* Blocks.                                                                 *)

\* latest_block().hash(); the header is its own hash.
LatestHash(n) == IF chain[n] = << >> THEN {} ELSE {Last(chain[n]).block.header}

Lists == {s \in UNION {[1..k -> Txs] : k \in 0..MaxBlockTxs} : IsInjective(s)}

\* maybe_propose: dry run and header.  A dry run that fails gives no block.
Propose(n, txs) ==
    LET height == Len(chain[n]) + 1
        run == DryRun(accounts[n], evm[n], height, n, txs)
        block == [header |-> BuildHeader(LatestHash(n), height, n, txs, run), transactions |-> txs]
    IN  /\ job[n] = {}
        /\ height = Len(decided) + 1
        /\ proposed[n] < height
        /\ proposed' = [proposed EXCEPT ![n] = height]
        /\ Spend("blocks")
        /\ evm' = [evm EXCEPT ![n] = run.evm]
        /\ proposal' = IF run.ok THEN {block} ELSE proposal
        /\ UNCHANGED <<accounts, chain, decided, job, rpc, poolVars, histVars>>

\* validate_incoming_proposal at m, for the proposal of n.
AcceptsProposal(m, block) ==
    /\ Len(chain[m]) + 1 = block.header.height
    /\ block.header.parent_hash = LatestHash(m)
    /\ ValidTransactions(accounts[m], block)

\* The votes of a quorum decide the block.  Nobody has executed it.
Decide(block) ==
    /\ block \in proposal
    /\ 3 * Cardinality({m \in Nodes : m = block.header.proposer \/ AcceptsProposal(m, block)})
          > 2 * Cardinality(Nodes)
    /\ decided' = Append(decided, block)
    /\ proposal' = {}
    /\ UNCHANGED <<storeVars, proposed, job, rpc, poolVars, budget, histVars>>

\* prepare_block on node n, for finalize or, with the receipts of a peer, for
\* import.  An error is logged, and the block may be tried again.
Execute(n, block, todo, receipts) ==
    LET prepared == PrepareBlock(accounts[n], evm[n], LatestHash(n), block)
        ok == prepared.ok /\ \A r \in receipts : r = prepared.receipts
    IN  /\ job[n] = {}
        /\ evm' = [evm EXCEPT ![n] = prepared.evm]
        /\ IF ok
           THEN /\ job' = [job EXCEPT ![n] =
                      {[block |-> block, receipts |-> prepared.receipts, state |-> prepared.state,
                        todo |-> todo, seen |-> accounts[n], credits |-> credits[n]]}]
                /\ UNCHANGED <<budget, failed>>
           ELSE /\ Spend("failures")
                /\ failed' = failed \cup {[node |-> n, block |-> block]}
                /\ UNCHANGED job
        /\ UNCHANGED <<accounts, chain, consVars, rpc, poolVars, credits, base, clean>>

\* finalize: execute_block stores the accounts, then the block is committed.
Finalize(n) ==
    /\ Len(chain[n]) < Len(decided)
    /\ Execute(n, decided[Len(chain[n]) + 1], <<"persist", "commit">>, {})

\* validate_and_commit_finalized_block: the block of peer m is committed, then
\* the accounts are stored once more.
Import(n, m) ==
    /\ Len(chain[n]) < Len(chain[m])
    /\ LET finalized == chain[m][Len(chain[n]) + 1]
       IN  Execute(n, finalized.block, <<"commit", "persist">>, {finalized.receipts})

\* The next write of the job.  What another task wrote meanwhile is lost.
WriteAccounts(n, j) ==
    /\ accounts' = [accounts EXCEPT ![n] = Over(j.state, @)]
    /\ clean' = [clean EXCEPT ![n] = @ /\ \A a \in DOMAIN j.state :
                                          AccountOf(accounts[n], a) = AccountOf(j.seen, a)]
    /\ job' = [job EXCEPT ![n] =
           IF Len(j.todo) = 1 THEN {}
           ELSE {[j EXCEPT !.todo = Tail(@), !.seen = Over(j.state, accounts[n])]}]

\* StateSnapshot::persist.
Persist(n) ==
    \E j \in job[n] :
        /\ Head(j.todo) = "persist"
        /\ WriteAccounts(n, j)
        /\ UNCHANGED <<evm, chain, consVars, rpc, poolVars, budget, credits, base, failed>>

\* atomic_commit_block.
Commit(n) ==
    \E j \in job[n] :
        /\ Head(j.todo) = "commit"
        /\ WriteAccounts(n, j)
        /\ chain' = [chain EXCEPT ![n] = Append(@, [block |-> j.block, receipts |-> j.receipts])]
        /\ base' = [base EXCEPT ![n] = j.credits]
        /\ UNCHANGED <<evm, consVars, rpc, poolVars, budget, credits, failed>>

-----------------------------------------------------------------------------
(* Calls that write the store.                                             *)

\* The rest of a call: changes of accounts, one after the other.
Serving(todo) == {[todo |-> todo, loaded |-> {}]}

\* faucet_send, where the faucet has a key file.
FaucetSend(n, to, amount) ==
    /\ rpc[n] = {} /\ amount > 0
    /\ Spend("calls")
    /\ rpc' = [rpc EXCEPT ![n] = Serving(<<[addr |-> Faucet, add |-> -amount],
                                           [addr |-> to, add |-> amount]>>)]
    /\ UNCHANGED <<storeVars, consVars, job, poolVars, histVars>>

\* get_account; an empty faucet ends the call.
LoadAccount(n) ==
    \E r \in rpc[n] :
        /\ r.todo # << >> /\ r.loaded = {}
        /\ LET account == AccountOf(accounts[n], Head(r.todo).addr)
           IN  rpc' = [rpc EXCEPT ![n] =
                   IF account.balance + Head(r.todo).add < 0 THEN {}
                   ELSE {[r EXCEPT !.loaded = {account}]}]
        /\ UNCHANGED <<storeVars, consVars, job, poolVars, budget, histVars>>

\* put_account, of what was read and changed.
StoreAccount(n) ==
    \E r \in rpc[n] : \E account \in r.loaded :
        LET addr == Head(r.todo).addr
            add == Head(r.todo).add
        IN  /\ accounts' = [accounts EXCEPT ![n] =
                   PutAccount(@, addr, [account EXCEPT !.balance = SaturatingAdd(@, add)])]
            /\ clean' = [clean EXCEPT ![n] = @ /\ account = AccountOf(accounts[n], addr)]
            /\ credits' = [credits EXCEPT ![n][addr] = @ + add]
            /\ rpc' = [rpc EXCEPT ![n] = IF Len(r.todo) = 1 THEN {} ELSE Serving(Tail(r.todo))]
            /\ UNCHANGED <<evm, chain, consVars, job, poolVars, budget, base, failed>>

\* eth_send_raw_transaction executes at once, on this node only.
SendRawTransaction(n, caller, call) ==
    /\ rpc[n] = {} /\ EvmEnabled
    /\ Spend("calls")
    /\ LET result == EvmExecute(evm[n], caller, call)
       IN  rpc' = [rpc EXCEPT ![n] =
               IF result.ok THEN {[todo |-> << >>, loaded |-> {}, evm |-> result.evm]} ELSE {}]
    /\ UNCHANGED <<storeVars, consVars, job, poolVars, histVars>>

\* persist_db writes every EVM account that was loaded.
PersistDb(n) ==
    \E r \in rpc[n] :
        /\ r.todo = << >>
        /\ evm' = [evm EXCEPT ![n] = r.evm @@ @]
        /\ rpc' = [rpc EXCEPT ![n] = {}]
        /\ UNCHANGED <<accounts, chain, consVars, job, poolVars, budget, histVars>>

-----------------------------------------------------------------------------
(* The shielded pool.                                                      *)

\* What a call for the pool takes from the bounds.
SpendPool(what, honest) ==
    LET taken == what \cup IF honest THEN {} ELSE {"odd"}
    IN  /\ \A k \in taken : budget[k] > 0
        /\ budget' = [k \in DOMAIN budget |-> IF k \in taken THEN budget[k] - 1 ELSE budget[k]]

\* A note, and (history) whether everything asked for it so far was what its
\* owner may ask: its own value in, and its own nullifier and value out.
NewNote(value, honest) == CreateNote(value, budget.notes) @@ [honest |-> honest]

Placed(n, note) == IF IsFull(pool[n].tree) THEN notes[n] ELSE Append(notes[n], note)

\* zk_shield, with any value beside any commitment: nothing opens the
\* commitment, and nothing is taken from an account.
ZkShield(n, value, committed) ==
    LET note == NewNote(committed, value = committed)
    IN  /\ SpendPool({"notes"}, note.honest)
        /\ pool' = [pool EXCEPT ![n] = Shield(@, value, note.commitment)]
        /\ notes' = [notes EXCEPT ![n] = Placed(n, note)]
        /\ UNCHANGED <<storeVars, consVars, job, rpc, request, histVars>>

\* The nullifier a request on a note may carry: its own, or any other hash.
Nullifiers(note) == {note.nullifier, <<"any">>}

\* The owner's request.
Own(note, nullifier, value) == nullifier = note.nullifier /\ value = note.value

\* A request on note i, with a proof for the root of now: to withdraw a value,
\* or to pass it on to a new note.  Nullifier and value are the client's word;
\* neither is tied to the commitment.
Prepare(n, i, nullifier, value, output) ==
    /\ request[n] = {}
    /\ request' = [request EXCEPT ![n] =
           {[nullifier |-> nullifier, value |-> value,
             merkle_root |-> TreeRoot(pool[n].tree),
             merkle_proof |-> ProveCommitment(pool[n].tree, i - 1),
             output |-> output,
             output_commitment |-> IF output = {} THEN << >>
                                   ELSE (CHOOSE o \in output : TRUE).commitment]}]

PrepareUnshield(n, i, nullifier, value) ==
    /\ SpendPool({}, Own(notes[n][i], nullifier, value))
    /\ Prepare(n, i, nullifier, value, {})
    /\ UNCHANGED <<storeVars, consVars, job, rpc, pool, notes, histVars>>

PrepareTransfer(n, i, nullifier, value) ==
    /\ SpendPool({"notes"}, Own(notes[n][i], nullifier, value))
    /\ Prepare(n, i, nullifier, value, {NewNote(value, value = notes[n][i].value)})
    /\ UNCHANGED <<storeVars, consVars, job, rpc, pool, notes, histVars>>

\* The notes once request q on one of them is accepted.
Used(n, q) ==
    LET i == q.merkle_proof.index + 1
    IN  [notes[n] EXCEPT ![i].honest = @ /\ Own(notes[n][i], q.nullifier, q.value)]

\* zk_unshield: the pool first, then the account of the recipient.
ZkUnshield(n, recipient) ==
    \E q \in request[n] :
        /\ q.output = {} /\ rpc[n] = {}
        /\ pool' = [pool EXCEPT ![n] = Unshield(@, q)]
        /\ IF Accepts(pool[n], q)
           THEN /\ rpc' = [rpc EXCEPT ![n] = Serving(<<[addr |-> recipient, add |-> q.value]>>)]
                /\ notes' = [notes EXCEPT ![n] = Used(n, q)]
           ELSE UNCHANGED <<rpc, notes>>
        /\ request' = [request EXCEPT ![n] = {}]
        /\ UNCHANGED <<storeVars, consVars, job, budget, histVars>>

\* ShieldedPool::transfer, an operation of the crate no handler offers yet.
ZkTransfer(n) ==
    \E q \in request[n] :
        /\ q.output # {}
        /\ pool' = [pool EXCEPT ![n] = Transfer(@, q)]
        /\ notes' = [notes EXCEPT ![n] =
               IF ~Accepts(pool[n], q) THEN @
               ELSE Used(n, q) \o IF IsFull(pool[n].tree) THEN << >> ELSE SetToSeq(q.output)]
        /\ request' = [request EXCEPT ![n] = {}]
        /\ UNCHANGED <<storeVars, consVars, job, rpc, budget, histVars>>

\* The process ends and starts again: what was not stored is gone, the pool
\* with it.
Restart(n) ==
    /\ Spend("crashes")
    /\ job' = [job EXCEPT ![n] = {}]
    /\ rpc' = [rpc EXCEPT ![n] = {}]
    /\ pool' = [pool EXCEPT ![n] = EmptyPool]
    /\ notes' = [notes EXCEPT ![n] = << >>]
    /\ clean' = [clean EXCEPT ![n] = @ /\ job[n] = {} /\ rpc[n] = {}]
    /\ UNCHANGED <<storeVars, consVars, request, credits, base, failed>>

-----------------------------------------------------------------------------
Next ==
    \/ \E n \in Nodes, txs \in Lists : Propose(n, txs)
    \/ \E block \in proposal : Decide(block)
    \/ \E n \in Nodes :
          \/ Finalize(n)
          \/ \E m \in Nodes : Import(n, m)
          \/ Persist(n)
          \/ Commit(n)
          \/ \E to \in Nodes : FaucetSend(n, to, 1)
          \/ LoadAccount(n)
          \/ StoreAccount(n)
          \/ \E call \in Calls : SendRawTransaction(n, <<"eth">>, call)
          \/ PersistDb(n)
          \/ n \in PoolNodes /\ \E committed \in {1, 2} : ZkShield(n, 1, committed)
          \/ \E i \in DOMAIN notes[n], value \in {1, 2} :
                \E nullifier \in Nullifiers(notes[n][i]) :
                   \/ PrepareUnshield(n, i, nullifier, value)
                   \/ PrepareTransfer(n, i, nullifier, value)
          \/ \E to \in Nodes : ZkUnshield(n, to)
          \/ ZkTransfer(n)
          \/ Restart(n)

Spec == Init /\ [][Next]_vars

-----------------------------------------------------------------------------
(* Properties.                                                             *)

Sum(Op(_), seq) == FoldLeft(LAMBDA total, x : total + Op(x), 0, seq)

\* The blocks that have changed the accounts of n: its chain, and the block
\* whose accounts are stored and which is not committed yet.
Applied(n) ==
    [i \in DOMAIN chain[n] |-> chain[n][i].block]
    \o SetToSeq({j.block : j \in {x \in job[n] : x.todo = <<"commit">>}})

\* What a should own and the nonce it should have, from genesis, the blocks
\* and the calls.
Expected(n, a) ==
    LET blocks == Applied(n)
        txs == FlattenSeq([i \in DOMAIN blocks |-> blocks[i].transactions])
        Received(tx) == IF tx.evm = {} /\ tx.recipient = a THEN tx.amount ELSE 0
        Spent(tx) == IF tx.sender = a THEN tx.amount + tx.fee ELSE 0
        Fee(tx) == tx.fee
        Reward(b) == LET fees == Sum(Fee, b.transactions)
                         cut == (fees * TreasuryBps) \div 10000
                     IN  (IF b.header.proposer = a THEN fees - cut ELSE 0)
                         + (IF Treasury = a THEN cut ELSE 0)
    IN  [nonce |-> AccountOf(Genesis, a).nonce + Len(SelectSeq(txs, LAMBDA tx : tx.sender = a)),
         balance |-> AccountOf(Genesis, a).balance + Sum(Received, txs) - Sum(Spent, txs)
                     + Sum(Reward, blocks) + credits[n][a]]

\* As long as no write was lost, the stored accounts are what genesis, the
\* blocks and the calls of this node amount to: money moves, and is made by
\* unshielding or lost to EVM transactions only; between the two writes of a
\* block, after either kind of commit, and with calls in between.
AccountsFollowChain ==
    \A n \in Nodes : clean[n] => \A a \in Addrs : AccountOf(accounts[n], a) = Expected(n, a)

\* Transactions of a chain by their places: height and position in the block.
TxAt(blocks, p) == blocks[p[1]].block.transactions[p[2]]

TxsOf(blocks, a) ==
    UNION {{<<i, k>> : k \in {l \in DOMAIN blocks[i].block.transactions :
                                 TxAt(blocks, <<i, l>>).sender = a}} : i \in DOMAIN blocks}

Earlier(q, p) == q[1] < p[1] \/ (q[1] = p[1] /\ q[2] < p[2])

\* As long as no write was lost, a sender's transactions are on the chain once
\* and in the order of their nonces, although they may be sent, gossiped and
\* selected again after they were committed.
OnceOnChain ==
    \A n \in Nodes : clean[n] =>
        \A a \in Nodes :
            LET own == TxsOf(chain[n], a)
            IN  \A p \in own : TxAt(chain[n], p).nonce =
                    AccountOf(Genesis, a).nonce + Cardinality({q \in own : Earlier(q, p)})

HasEvm(block) == \E i \in DOMAIN block.transactions :
                    \E call \in block.transactions[i].evm : call.kind # "precompile"

\* A call has changed the accounts of n, or a write was lost.
Disturbed(n) == credits[n] # NoCredits \/ ~clean[n]

\* Validators vote before they execute, so a decided block that does not
\* execute stops the chain.  This happens for two reasons only: an EVM
\* transaction in it, or calls that changed accounts outside blocks.
FailsOnlyWithCause ==
    \A f \in failed :
        HasEvm(f.block) \/ Disturbed(f.node) \/ Disturbed(f.block.header.proposer)

\* dry_run_transactions "Simulates transactions for proposal construction": a
\* node whose accounts no call has changed can execute the block it built.
OwnBlocksExecute ==
    \A f \in failed : f.node = f.block.header.proposer => Disturbed(f.node)

\* Two nodes have the same receipts for the same height, whatever their EVM
\* states are and whichever way the block came.
ReceiptsAgree ==
    \A n, m \in Nodes : \A i \in DOMAIN chain[n] \cap DOMAIN chain[m] : chain[n][i] = chain[m][i]

\* Between blocks, and if no call has written since, the proofs a node gives
\* of its accounts, present or absent, are accepted for the root in its latest
\* header, and no proof of another account is.
ProofsVerify ==
    \A n \in Nodes :
        clean[n] /\ job[n] = {} /\ chain[n] # << >> /\ credits[n] = base[n] =>
            LET root == Last(chain[n]).block.header.state_root
            IN  \A a \in Addrs :
                    LET proof == Prove(accounts[n], a)
                        other == [AccountOf(accounts[n], a) EXCEPT !.balance = @ + 1]
                    IN  /\ Verify(proof, root)
                        /\ ~Verify([proof EXCEPT !.account = {other}], root)

\* Every note that was placed can be proved against the root of now, in the
\* pool and for the precompile, however many came after it.
NotesProvable ==
    \A n \in Nodes : \A i \in DOMAIN notes[n] :
        LET proof == ProveCommitment(pool[n].tree, i - 1)
            root == TreeRoot(pool[n].tree)
        IN  /\ proof.commitment = notes[n][i].commitment
            /\ ZkVerify([merkle_proof |-> proof, merkle_root |-> root,
                         nullifier |-> notes[n][i].nullifier, output_commitment |-> <<"any">>])

\* As long as the pool was only asked what owners of notes may ask, its value
\* is the value of the notes not spent, whichever of two requests on one note
\* comes first.  Only a transfer into a full tree loses a note: its value
\* stays in the pool for ever.  Nothing holds clients to that, in this node or
\* in the crate: nullifier and value are not checked against the commitment,
\* and a note asked for under two nullifiers is paid twice.
PoolCovers ==
    \A n \in Nodes : (\A i \in DOMAIN notes[n] : notes[n][i].honest) =>
        LET Value(note) == IF note.nullifier \in pool[n].nullifiers THEN 0 ELSE note.value
            unspent == Sum(Value, notes[n])
        IN  IF IsFull(pool[n].tree) THEN pool[n].total_shielded_value >= unspent
            ELSE pool[n].total_shielded_value = unspent

=============================================================================
