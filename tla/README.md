# Zeno QPL1: a TLA+ model of the node

Zeno QPL1 (`src/ZenoQPL1`) is a proof-of-stake chain in Rust: a Tendermint-like
BFT engine, a fee-ordered transaction pool, an account and EVM execution layer,
a RocksDB store and a TCP gossip network, run together by one node process.
This directory holds TLA+ modules translated from that code, the TLC
configurations that check them on small instances, and TLAPS proofs of what
holds for every instance.

Line numbers below are those of the crate's `src/lib.rs` unless another file is
named.

## 1. Inventory

| Component | State it keeps | Operations | Talks to |
|---|---|---|---|
| Consensus engine (`zeno-consensus`) | `RoundState`: height, round, proposal, votes, prevoted/precommitted, lock, polka, evidence. In the store: snapshot, WAL, slashing protection | `new`, `run` (its `select!` loop), `maybe_propose`, `on_proposal`, `on_vote`, `on_commit`, `import_external_finalized_block`, `finalize`, `advance_round/height`, `recover_snapshot` | network (broadcast, subscribe), execution, store, pool, staking |
| Transaction pool (`zeno-mempool`) | five indexes under one lock | `insert`, `remove_committed`, `evict_expired`, `select_for_block_prioritized` | RPC and gossip insert, the engine selects and removes |
| Execution (`zeno-execution`) | none of its own | `dry_run_transactions`, `execute_block`, `validate_and_commit_finalized_block`, `commit_finalized_block`, block accounting | store, staking, governance, EVM |
| Store (`zeno-storage`) | accounts, blocks, receipts, snapshot, WAL and its index, staking, governance, epochs | single puts, `atomic_commit_block`, `append_`/`load_`/`compact_consensus_wal`, pruning | everything |
| Staking, slashing, epochs, governance (`zeno-state`) | validators, delegations, unbonding, treasury; economics and queued updates | `delegate`, `begin_unbonding`, `slash`, `apply_evidence`, `note_liveness`, `apply_downtime_slashing`, `settle_epoch_rewards`, governance updates | execution, consensus and RPC, through the store |
| Account state tree (`zeno-state`) | accounts of one block | root, proof, verification | execution |
| Node runtime and sync (`zeno-node`) | `sync_state`, peer heights, shielded pool | gossip task, sync requests and responses, RPC provider, `bootstrap_genesis` | consensus, network, pool |
| Network (`zeno-network`) | peer table, scores, bans, recently seen messages | dial, accept, broadcast, `remember`, scoring | engine and runtime, through a broadcast channel |
| Shielded pool (`zeno-zk`) | commitment tree, nullifiers, total value | `shield`, `transfer`, `unshield` | RPC |
| EVM (`zeno-evm`) | EVM accounts in the store | `execute`, `execute_raw_ethereum_tx`, `eth_call` | execution, RPC, store |
| Hashing, codec, crypto, types, RPC, CLI, genesis, wallet, metrics | none, or only files and counters | pure functions and I/O | |

What makes each part hard, and what makes it correct:

* **Consensus.** Votes reach nodes in different orders; messages are lost,
  late and repeated; processes restart. Correct: one chain (agreement), linked
  blocks, a lock that binds, precommits that rest on a polka, at most one
  proposal per validator and height, no accusation of a correct validator, no
  return to a height or round left behind.
* **Commit and recovery.** A finalization is a dozen separate store writes.
  Correct: after a crash between any two of them the node resumes at the right
  height, with the accounts and the accounting of its latest block.
* **WAL.** An append is three store calls, compaction rewrites the keys, and
  two tasks append. Correct: acknowledged entries survive, in order, until
  compacted.
* **Pool.** Replacement, eviction, expiry and commit touch five indexes.
  Correct: the indexes agree, limits hold, a place is lost only to a better
  payer, and what is selected can be executed.
* **Staking.** The state is one record that three tasks load, change and store
  without a lock, and that each node derives from notes it takes itself.
  Correct: stake covers what can be unbonded, a settlement conserves, epochs
  follow the chain, jails and releases are final, a proposer exists, and two
  nodes with the same chain compute the same validator set. The last two are
  not so (section 4).
* **Sync and network.** Requests unanswered, answers late, peers that change,
  connections that end, and three tasks that read and move the latest block
  without a common lock. Correct: a node that lags catches up, blocks are asked
  for and imported in order, an answer is used only for its request.
* **Execution.** A block is executed by its proposer twice, by everyone after
  the vote, and beside RPC calls that write the same accounts. Correct: the
  accounts are what genesis, the blocks and the calls amount to, a transaction
  executes once, all nodes have the same receipts, and the state root proves
  the accounts.
* **Shielded pool.** Nothing ties the nullifier or the value of a request to the
  note it is on. Correct: the pool holds the value of the notes not spent (only as
  long as requests are their owners'), and every note can be proved.

`PROJECT.json` lists every hazard at its line, with the property that would
catch it or a note that says why there is none.

## 2. Plan

Modelled, in this order: `Consensus` with `Finality`; `Mempool`; `Durability`;
`WalStore`; `StakingState` and `Staking`; `Network` and `Sync`, which composes it
with the tasks of the node; `StateTree`, `Execution`, `ShieldedPool` and
`Ledger`, which composes the three with the two ways of committing a block and
the calls that write. Together they stand for about 3900 of the 11700 lines of
Rust, tests included.

Proved: what the runs check of `Consensus`, with its refinement of `Finality`
(`ConsensusProofs`, `ConsensusSafetyProofs`), of `WalStore`
(`WalProofs`), of `Durability` (`DurabilityProofs`), of `Mempool`
(`MempoolProofs`), of `Staking` (`StakingProofs`), the safety properties of
`Sync` (`SyncProofs`), and of `Ledger`
`ReceiptsAgree` and `OnceOnChain` (`LedgerProofs`).

Next:

1. Proofs: the balances of `AccountsFollowChain`, along the invariant that
   already gives the nonces (section 5).
2. Progress of one height under an assumption on delays, as an abstract
   specification of what timers would have to guarantee.

## 3. Modules

### Consensus

`node[n]` is one record: `RoundState` (`height` .. `evidence`), the part of the
store the engine uses (`blocks`, `latest`, `snap`, `walCommit`, `walLocked`,
`walValid`, `protection`, `jailed`), whether its task runs (`up`), and what it
has broadcast (`proposals`, `ballots`, `commits`). An action is one turn of the
`select!` loop of `run` with every call the handler makes:

| Action | Code |
|---|---|
| `Start`, `Restart` | `ConsensusEngine::new`, `recover_snapshot`, `run` up to the loop |
| `OnProposal` | `validate_incoming_proposal`, `on_proposal`, `emit_prevote` |
| `OnVote` | `handle_vote_actions`: `record_vote`, `emit_precommit`, `finalize` |
| `OnCommit` | `import_external_finalized_block` |
| `Timeout` | `emit_prevote`, `advance_round`, `maybe_propose` |

The handlers are operators from record to record (`RecordVote`, `Finalize`,
`EmitPrevote`, ...), composed as the code calls them. A block hash identifies
its block; `NIL_HASH` and `None` are the empty set. `block.parent` contains the
parent itself, so that comparing hashes is comparing blocks.

The network is the set of what each node has broadcast: a message may reach any
connected node at any time, any number of times or never. That is loss, delay,
reordering and duplication at once. Nothing is relayed, as in
`NetworkHandle::broadcast`, so partial connectivity (`Links`) matters: in it a
node can see a quorum of prevotes for a block it never received.

Every node runs the code: there are no Byzantine validators, except in so far
as a restarted validator votes again. Heights lie inside one epoch, so the
validator set changes only through jailing. Execution, staking notes and
receipts do not appear: `prepare_block` fails here only on the parent. The WAL
is kept as what `recover_snapshot` uses of it.

`Finality` is the abstract specification: one ledger of which every node holds a
growing prefix. `MCConsensus` maps `ledger[n]` to the blocks of `node[n]` by
height.

### Mempool

`pool` is `Inner` with its five indexes; `nonce` is the account table of the
store. Actions: `SubmitTx` (RPC: only what executes now), `GossipTx` (anything),
`Propose` (evict expired, select, dry run; an error ends the consensus task,
`halted`), `CommitBlock` (any block that executes, proposed by anyone),
`Restart`. A failed insert leaves the pool as it was. A transaction is a record
whose `id` stands for its hash, which orders equal fees. Balances are left out.
`select_for_block`, which nothing calls, is left out.

### Durability

One node's store, one write at a time. A handler is the list of steps it has
still to do, as `finalize` or `import_external_finalized_block` orders them;
`Step` does the next one, `Crash` drops them, `Boot` recovers. A block is its
height, an account the height of the block that wrote it last. `prepare_block`
accepts a block exactly when the latest block is its parent and every account is
as its parent left it (otherwise a nonce or the state root differs: every block
changes the accounts it pays). Tasks `consensus` and `sync` share the store.

### WalStore

`keys` and `next` are `consensus-wal:<index>` and `meta:consensus-wal-next`. An
entry is its height, whether it is `CommitFinalized`, and a number that tells it
apart.

| Action | Code |
|---|---|
| `ReadIndex`, `PutEntry`, `PutIndex` | the three calls of `append_consensus_wal` |
| `Note` | `append_wal` for proposals, votes, locks, rounds: the engine's height |
| `StartFinalize`, `FinalizeHeight` | `finalize`: `CommitFinalized`; then the block, compaction and `advance_height`, with the append of `HeightAdvanced` |
| `StartImport`, `Import`, `Reject` | `import_external_finalized_block`: `CommitFinalized` at the height of the certificate, before the parent is checked; then `advance_height`, or the error |
| `Crash` | restart: `recover_snapshot` goes beyond every `CommitFinalized` it loads |

An import is of the engine's height or any later one, and whether its block
extends the latest one is left open: that is `Durability`. So heights do not
follow the order of the log. `ahead` is history: the entry's height was beyond the
engine's when it was appended. `FinalizeHeight` is one step from the block to the
new height; crashes between these writes are those of `Durability`. `Lag` is 10 in
the code.

### StakingState, Staking

`StakingState` is `StakingSnapshot` and `GovernanceSnapshot` as values: one
operator per method, a function of the state it is called on. `Staking` adds who
calls them. `store[n]` is the staking and governance record of node `n` with the
height of its chain; `job[n][t]` is one load, change and store of task `t`: the
copy, computed when it is loaded, and the writes still to do.

| Action | Code |
|---|---|
| `Start` | `Node::new` with `bootstrap_genesis`, which delegates again every time |
| `RecordVote`, `RecordLateVote`, `RecordConflictingVote` | `record_vote`, of any validator the staking state knows, jailed and registered ones too: `note_validator_liveness` comes before any check of the vote |
| `Finalize` | `finalize`, once all votes recorded reach the quorum of the active validators: accounting stored, block committed, evidence applied |
| `Import` | `validate_and_commit_finalized_block`: block committed, accounting stored |
| `RegisterValidator` | the RPC of that name, on this node only |
| `Unbond`, `QueueUpdate` | operations of the crate no part of the node calls yet |
| `StoreStaking`, `StoreGovernance`, `CommitBlock`, `ApplyPendingEvidence` | the next write of a job |

A `BTreeMap` is a function, iterated in the order of `Ascending`; `retain` keeps
the elements at some positions (`Retain`). Parameters are any `EconomicsParams`:
nothing in the code keeps a rate below 10000 basis points, so
`SettlementConserves` has that as a condition where it needs it. The node settles
every epoch with no fees and no budget; `SettlementConserves` asks
`settle_epoch_rewards` about others, in the states the node reaches.

`clean[n]` is history: it becomes false when a job stores a copy that was loaded
before another task's write, or a block is accounted twice or not at all.
`EpochFollowsChain`, `JailIsFinal` and `NotReleasedEarly` are conditioned on it: they
say that nothing but a lost write breaks them, and do not catch a lost write.
With `Remote` blocks may come from elsewhere, with the transition the node
computes itself: then as many voters as the quorum, known to the node, must be
such that the block does not jail them for downtime. With two nodes blocks come
from the other one.

### Network, Sync

`Network` is the peer table of one node: admission in its two lock sections
(`CheckLimit`, `Admit`), the registry that is set by another task
(`StartFanout`), scoring, bans, duplicates (`Receive`, `Remember`), and the two
ways a connection ends: `CloseBanned` removes the entry, and the ban with it;
`Cut` leaves the entry for good, as the loop in `handle_connection` returns with
`?` or waits on its channel. `Sync` is the node around it: `SyncState`,
`sync_with_best_peer`, `continue_sync`, `handle_sync_response` and
`validate_header_batch`, the status messages, and the consensus task that
imports blocks of `Commit` messages beside it. Peers are correct and answer
with `build_sync_response`, from what pruning has left. An error in the gossip
task ends it silently, since `try_join!` waits for the other tasks: `gossip`.

`import_external_finalized_block` runs in the gossip task, for blocks of `sync`,
and in the consensus task, for blocks of `Commit` messages, side by side.
`importing[t]` is how far task `t` is, and each step is a point at which the
code reads or writes what the others see:

| Step | Code |
|---|---|
| `Begin`, in `OnBlock` or `OnCommit` | `pending_block` is taken (runtime.rs 297), or the message; the import starts |
| `Validate` | the height against the engine's (zeno-consensus 635), then the parent against the latest block (zeno-execution 323) |
| `Refuse` | receipts, roots or epoch transition differ |
| `Store` | `atomic_commit_block`: the latest block moves |
| `Advance` | `advance_height`; the gossip task continues the sync |

Between them the ticker asks peers with the latest height it sees
(`SyncWithBestPeer`), and answers wait until the gossip task is done. `continue_sync`
reads `latest_height` just before it locks `SyncState`; here it does both at once.
A block stored in between makes no difference, since the request could have been made
before it; that the height read is older by several blocks is left out. Both checks
of `Validate` read together, with no store between them.

History: `trouble`: a connection was cut or banned, an answer was dropped by the
lagging channel, or a connection was admitted before the registry was there and
has no sink. `raced`: two imports overlapped, or headers were awaited while a
block was stored. `missed`: a peer answered without a block because it was pruned after
its header was sent; `handle_sync_response` goes on with the next height of the
queue, whose import fails for the missing parent and ends the gossip task.
`refused`: a block that follows the chain did not verify here, for the reasons
`Staking` and `Ledger` show.

### StateTree, Execution, ShieldedPool, Ledger

`StateTree` has the sparse Merkle tree over accounts with its proofs, and the
Merkle root over lists; `ShieldedPool` the commitment tree and the operations of
the pool. Hashes are tagged tuples of what is hashed, so two hashes are equal
exactly if the code hashes the same. Trees are recursive functions over paths.
`Execution` is what a transaction and a block do to a state: the checks of
`verify_transaction` and `validate_transaction`, `apply_transaction`, fees, dry
run, header and comparison of roots. revm is external: a call counts in the
storage of a contract and returns the count, a creation returns an address made
of the creator's nonce.

`Ledger` composes them, for several nodes. Consensus is abstracted to its
result (`Decide`); `Execute` starts a block, `Persist` and `Commit` are its two
writes, in the order of `finalize` or of import. `FaucetSend`, `ZkUnshield` and
`SendRawTransaction` read and write the same store in steps of their own
(`LoadAccount`, `StoreAccount`, `PersistDb`). History: `credits` is what calls have
added to an account, `clean` that no write undid another, `failed` the blocks
that did not execute.

What a client sends to the pool is its own word, and `Ledger` leaves it open: a
deposit (`ZkShield`) states any value beside any commitment, and a request
(`PrepareUnshield`, `PrepareTransfer`) any nullifier and any value beside the proof
for a note. Each deposit or request that differs from its owner's takes one off the budget
`odd`, and the note it concerns is no longer `honest` (history).

## 4. Runs

Passing:

| Run | Instance | Shows |
|---|---|---|
| `consensus_lock` | 4 validators, 1 and 3 not connected, rounds 0-1 | `Agreement`, `LockBinds`, `NoFalseAccusation` |
| `consensus_catchup` | 2 validators and a full node, 2 heights | `TypeOK`, `ChainLinked`, and `Consensus` implements `Finality` |
| `consensus_restart` | 3 validators, 2 payloads, both failures of building a block, 1 restart | `Agreement`, `ProposeOnce`, `PolkaBehindPrecommit`, `LockKept`, `NoRegress` |
| `mempool` | 7 transactions of 2 senders, 3 places, 2 per sender, 1 restart | `IndexesAgree`, `WithinLimits`, `FairExit` |
| `durability` | consensus task, 4 heights, 2 accounts, 3 crashes | `TypeOK`, `NeverReopens`, `NoHoles`, `AccountsNearChain` |
| `wal` | one writer, 7 appends, heights up to 4, imports of any of them, 1 crash, `Lag` 1 | `AckedDurable`, `ReplayOrder` |
| `staking` | one node, 2 genesis validators of which one may equivocate and the other unbond, 1 that registers, 3 epochs of one block, 2 starts, 1 call | `StakeCovers`, `SettlementConserves`, `EpochFollowsChain`, `JailIsFinal`, `NotReleasedEarly` |
| `sync` | two connections of one peer, limit 1, 1 fault, chain of 2 or 3 blocks, 2 retained, imports in steps, the ticker asking while fewer than 2 messages are on the wire | `BlocksFollow`, `EndsOnlyWithCause`, `AwaitedIsOnItsWay`, and, under fairness, `CatchesUp` |
| `ledger` | 2 nodes, 5 transactions, up to 3 blocks, 1 call, 1 crash, up to 5 notes in a tree of 4 leaves, 2 deposits or requests that are not their owner's | `AccountsFollowChain`, `OnceOnChain`, `FailsOnlyWithCause`, `ReceiptsAgree`, `ProofsVerify`, `NotesProvable`, `PoolCovers` |

Runs that end in a violation, each of something a comment says:

| Run | Property | What happens |
|---|---|---|
| `consensus_double_sign` | `NoDoubleSign` | a validator restarted in its round votes again, differently: `prevoted` is not recovered, the vote heights of `SlashingProtection` are never set |
| `staking_replay` | `ReplayAgrees` | a node that only imports takes no liveness notes, jails everyone at its second epoch boundary and refuses every block from there on |
| `ledger_dry_run` | `OwnBlocksExecute` | the dry run of a contract creation has stored it: the proposer executes its own block on another EVM state and fails on the receipt root |

**Further disagreements the models show.** These properties are defined in their
modules with the comment they take from the code; TLC violates each when it is
put into the named configuration.

| Property | Configuration | What happens |
|---|---|---|
| `Mempool!SelectionExecutes` | `mempool` | a later nonce that pays more is selected first; the dry run fails, and the `?` in `run` ends the consensus task |
| `Durability!AccountsMatchChain` | `durability` | `execute_block` persists accounts, crash before the atomic commit: the block never executes again |
| `Durability!AccountingNotLost` | `durability` | crash between the atomic commit of an import and its accounting, which nothing replays |
| `Durability!LatestAdvances` | `durability` with `Tasks = {"consensus", "sync"}` | sync imports two blocks while consensus is between executing and committing the first: `meta:latest` goes back |
| `Sync!PeersAreConnected` | `sync` | the entry of a cut connection stays in the table; it counts as inbound, and as the best peer it stops sync |

More limits of the code that the models show, without a promise to compare them
with.

* `Consensus`: a crash between the `CommitFinalized` WAL entry and the atomic commit
  leaves the node at a height past a block it lacks; `NeverReopens` is the half of
  "resumes after its latest block" that holds.
* `Mempool`: `highest_nonce` is what the pool has seen since it started: after a
  restart the next nonce of an account that has used more than `MAX_PER_SENDER` is
  refused as a gap (`NonceGap`).
* `WalStore`: compaction deletes the key that equals an entry's place in the list
  (zeno-storage 581). A `CommitFinalized` that an import has appended far ahead of the
  engine keeps its key while entries before it go; once the places of older entries
  reach its key, it is deleted although it is live. `AckedDurable` is therefore
  about entries that were not ahead, and TLC violates it in `wal` without that condition.
  As long as such an entry is there, a restart takes the engine beyond its height,
  whether its block was executed or rejected (`Crash`). From the second compaction
  on, old entries stay, since the places deleted are keys that are gone. With `Writers = {"consensus",
  "sync"}` `AckedDurable` fails: both tasks may use one index.
* `Staking`: `record_vote` and `validate_commit_certificate` (zeno-consensus 491-503, 536,
  774-788) count every voter the staking state knows, jailed or registered after
  genesis, against the quorum of the active genesis validators. So `ProposerExists`
  fails in `staking`: a jailed voter, or one that registered, decides a block
  alone; the remaining genesis validator was not noted live and is jailed for downtime
  by that block, only a validator outside genesis stays active, and `proposer_for`
  divides by zero. No write is lost on the way. A task that stores an old copy
  undoes a jail or an epoch (the `clean` in the properties is needed).
* `Ledger`: a faucet or withdrawal during a commit loses one of the two writes, nonces
  included, and calls make state roots of nodes differ, so that a decided block
  fails (`FailsOnlyWithCause` needs `Disturbed`); the amount of an EVM transaction is
  credited to nobody.
* The shielded pool: "prevents double-spending" (zeno-zk 399) holds of nullifiers, not
  of notes. `unshield` and `transfer` compute neither the nullifier nor the value from
  the commitment that is proved, so a note asked for under two nullifiers is paid twice, and a request may name a larger
  value than its note's. `shield` takes any value beside any commitment, and nothing from an
  account, although the crate's transaction flow says it "Deducts value from
  their public balance" (zeno-zk 20). `PoolCovers` is stated as long as deposits and requests
  are what the owners of the notes may ask; TLC violates it without that condition in
  `ledger`. The pool lives in memory: a `Restart` clears it and its notes
  together, so `PoolCovers` starts anew and does not notice deposits lost with it.
* `Sync`: while the last block of the queue is imported, nothing is pending and the
  latest block is one behind; a ticker then asks for headers from the block being
  imported, and their arrival ends the gossip task (`raced`). So does a `Commit` of
  the same height, once the consensus task has stored its block and the gossip task checks the
  parent. TLC reaches both in `sync` when `raced` is taken out of `EndsOnlyWithCause`.
  On a longer chain (`StartHeight = 1`, `MaxHeight = 4`, `Retained = 3`, too large for
  the run) the consensus task can be slower than two imports of the gossip task: it
  takes the latest block back, under the block awaited, as in
  `Durability!LatestAdvances`, and `BlocksFollow` fails without `raced` in it. From then
  on the engine ignores all blocks that would follow the latest one. A block pruned between its
  header and its request ends the gossip task too (`missed`), and peers that have
  pruned what the node needs answer with no headers for ever.

**Bounds and why they are enough.** Agreement is decided between two rounds of a
height: a lock taken in one must bind in the next, so `MaxRound = 1` is where it
can break, and does under a majority quorum or without the lock. Three and four
validators give quorums 3 of 3 and 3 of 4; with 4 a quorum can leave someone out
and the missing link makes the precommit without a lock happen. Two heights are
the least with a parent. Nodes past `MaxHeight` stop, and rounds stop at
`MaxRound`: both are guards. In `mempool` the transactions are chosen so that
replacement, eviction of one's own and of another's, expiry, ties of fees and
the sender limit all occur. `durability` has room for three crashes, one more
than are needed for a crash during recovery of a crash. In `wal` seven
appends leave room for an entry far ahead, two compactions, the first of which
removes keys so that places and keys differ, and a crash: enough for a far-ahead
entry to be deleted while live, which the condition in `AckedDurable` is about. In `staking` the epoch is one block, so that two
boundaries, the first at which a missing note matters, lie within three
heights; update, unbonding delay and jail each take effect at a later epoch. One
call, a registration, an unbonding or an update, is followed by blocks, votes and a restart. In
`sync` two connections of one node, with room for one, give reconnection,
a change of the active peer and a ban; `MaxOnWire` is a guard of the ticker, which
otherwise asks anew at every change of peer, and 2 lets a request of the new peer
overlap with what the old one still sends; two blocks at the start give a queue, a
third one a chain that grows under way and a queued block that is pruned. The bounds of `ledger` are a set of budgets, one of which a
behaviour has: each combines what can interfere (blocks with calls, calls with a
crash, blocks with withdrawals, the pool until its tree is full, two requests that
are not their owner's) without the
product of all. `staking` and `ledger` do not look beyond the first lost write
(`UntilUnclean`): most of their properties are conditioned on there being none,
and the state with it is still checked. `Lag` is 1 instead of 10, `MaxPerSender`
2 instead of 64, `SPARSE_DEPTH` 2 instead of 64 and so on: the code is uniform in
them.

**Deadlock** is not checked where the bounds end the behaviours
(`CHECK_DEADLOCK FALSE`); in `mempool` gossip is always possible and it is
checked.

**Fairness.** `Sync` assumes `WF_vars(TaskStep)`: as long as the sync task, a
connection task, the fan-out task or a peer can take a step, some such step
happens. It is a single weak fairness over all of them, less than what the
runtime gives: tokio polls every task that is ready, the status ticker fires
every five and the sync ticker every three seconds, and TCP delivers what was
sent while the connection lasts. Faults (`Cut`, `Lagged`, `OnIdleStatus`, `Refuse`) and the growth of the
chain (`Grow`) are not fair: they may happen or not. `CatchesUp` says that a node
with an open connection reaches the height of the chain, with four excuses: one of
the faults it has no timeout for occurred (`trouble`), the gossip task has ended, the
peers have pruned what the node needs, or the engine's height is beyond the block after the
latest one, which then went back. So the property says that
nothing else stops a node, not that these hazards do not. All other properties are safety.

## 5. Proofs

Each theorem below is about every instance of its module: any number of
validators, nodes, accounts or transactions, any bounds, and, where nothing else
is said, any number of crashes and restarts. All proofs go the same way: one
lemma per handler or operator says what it keeps, the step lemma goes through
the actions, and the theorem combines them.

### Consensus

The modules extend each other in the order of this list.

* **`ProposeOnceTheorem`** (`ConsensusProofs`): `Spec => []ProposeOnce`. No
  validator signs two proposals for one height. `ProposeOnce` says nothing about
  the protection record that makes it true; `ProposalInv` adds that every proposal
  a node has signed is for a height at most `protection` (`Protected`), and that
  the fields the handlers update are numbers (`NodeType`). A node signs only at a
  height above `protection` and sets it in the same handler; a `Restart` keeps both.

* **`NoRegressTheorem`** (`ConsensusProofs`): `Spec => NoRegress`. No step takes a
  node back to a height or round it has left, not even a restart. `SnapInv` adds
  that the stored snapshot is the height and round the node works on when a
  handler ends (`SnapCurrent`). Recovery takes the larger of the snapshot and the
  height after the last `CommitFinalized` of the WAL. `Advances` is this property
  of one operator; it is transitive, and a handler is composed as its calls are.

* **`TypeCorrect`** (`ConsensusProofs`): `Spec => []TypeOK`. `WellTyped` adds
  that the proposal held is of the current height and round (a lock copies its
  round from there), that the latest block is below the height, that blocks
  others may import are blocks, and that evidence is about validators.

* **`PolkaTheorem`** (`ConsensusProofs`): behind every precommit, for a block
  or NIL, a quorum of all validators signed prevotes of that round, restarts and
  repeated votes included. Its hypothesis is that no node has jailed anyone:
  afterwards the code's quorum is that of the validators left, and fewer prevotes
  suffice. **`LockKeptTheorem`**: `Spec => LockKept`. The invariant is `VoteInv`:
  `Sound` says of a node that each vote it counts was signed by its validator,
  that its own ballots are not ahead of it, that its lock is what the WAL would
  give back, and that proposals and locks come from the proposer of their round.
  The last part makes two locks of one round the same lock, by
  `ProposeOnceTheorem`'s invariant; without it `LockKept` is not inductive.

* **`NoFalseAccusationTheorem`**, **`LockBindsTheorem`**, **`ChainLinkedTheorem`**,
  **`AgreementTheorem`** (`ConsensusSafetyProofs`). The first two are
  `Spec => []P`, with "no restart so far" in the property itself; the others are
  `Spec => [](restarts = 0 => P)`. The condition is needed: a restarted validator
  may vote twice in a round (`consensus_double_sign`), and then neither the lock
  argument nor the quorum argument holds; a crash can also leave a node past a
  block it lacks. The invariant is `HonestInv`: `VoteInv`, and while nobody has
  restarted, for every node, `Steady` (one vote per validator, step and round
  among all ballots; the flags `prevoted` and `precommitted` know of every vote
  cast; whoever has prevoted and precommitted a block at its height holds a
  lock) and `Chained` (stored and announced blocks have a quorum of
  signed precommits, the latest block is right below the height).

  The argument for agreement: a block finalized in a round has a quorum of
  precommits there, and each precommit a quorum of prevotes. The code takes a lock
  only if the node holds the proposal, so a precommit alone binds nobody. A
  validator that both prevoted and precommitted the block is bound, and
  prevotes NIL in every later round of the height. If another block were finalized in
  a later round, its prevote quorum, and the two of the first block, would
  share a validator (**`ThreeQuorumsMeet`**: any three sets of `QuorumOf(N)` of
  the `N` validators do), which has prevoted the other block and NIL. In one
  round two quorums share a validator that would have voted twice.

* **`FinalityTheorem`**, **`ImplementsFinalityTheorem`** (`ConsensusSafetyProofs`):
  a behaviour in which no node restarts implements `Finality`. Every step of a
  node either leaves its stored blocks alone or adds the one at its height
  (`Grows`); `NextRefines` shows that this is `Decide` if nobody is ahead and
  `Learn` otherwise, where agreement says that the block is the one the others
  hold. `Finality` needs a set of blocks as its constant: `FinalityTheorem` takes
  any set that contains what is finalized, `ImplementsFinalityTheorem` is the
  instance of the run `consensus_catchup`, with the blocks of two heights.

### WalStore

**`AckedDurableTheorem`** and **`ReplayOrderTheorem`** (`WalProofs`), for every `Lag`,
imports of any height and any number of crashes and compactions, with
`Writers = {"consensus"}`: with a second writer two calls may read one index, and TLC
shows the loss. Compaction deletes the key equal to an entry's position in the list
instead of its own key, and an import may append an entry far ahead in the middle
of the log, so that the others survive needs an argument. An entry e that was not
ahead is deleted only if the place of an entry to be compacted, one of a lower
height, is e's index. A position is at most the index (`PositionAtMost`), so that entry lies at
e's index or behind it. But behind an entry that was not ahead there is none of a
lower height (`WalOrdered`): whatever is appended is of the engine's height or a later
one, and that height never goes back. For an entry that was ahead this is not so, and it can be
deleted. `WalInv` adds that the next index is free of acknowledged entries
(`NextFree`), that an entry is ahead of the engine only if it was from the start
(`NotAhead`), and what a call in progress has read and written (`OwnCall`).

### Durability

**`DurabilityTypeCorrect`**: `Spec => []TypeOK` for every set of tasks.
**`NeverReopensTheorem`**, **`NoHolesTheorem`**, **`AccountsNearChainTheorem`** and
**`LatestAdvancesTheorem`** (`DurabilityProofs`) for `Tasks = {"consensus"}`: with the sync
task beside it the latest block goes back (section 4). The three invariants are
about states between any two writes, so what makes them inductive is what is
known of the writes still to come. `ChainInv` says of the list of remaining steps
(`Planned`) that a commit finds its parent as latest block and its height in the
WAL and is followed by an advance, that accounts written are of the block about
to be or just committed, and that a snapshot is last; and of the disk that a
recovery leads past the latest block (`Recoverable`), whichever of the writes a
crash has dropped.

### Mempool

**`IndexesAgreeTheorem`**, **`WithinLimitsTheorem`** and **`FairExitTheorem`**
(`MempoolProofs`), for any finite set of transactions with distinct hashes and any
limits. `PoolOK` is the agreement of the indexes and the limits together: the
limits rest on the counts being right, and the counts on every key leading to the
transaction that is there. Eviction, removal and the end of `insert` each take a
good pool to a good pool; replacement does not in its middle, where a key points
to a transaction that is gone, and is done as a whole. That the evicted
transaction pays least needs a least element of a set of ranks (`LowestPays`),
taken from the well-foundedness of the numbers.

### Sync

**`BlocksFollowTheorem`**, **`EndsOnlyWithCauseTheorem`** and
**`AwaitedIsOnItsWayTheorem`** (`SyncProofs`), for any connections, limits, scores,
batch size, number of retained blocks, faults and heights, with imports step by step
in both tasks and the ticker at any point between. None of the three is
inductive. `SyncInv` adds what an answer and its request have in common: ids on
the wire are used once (`IdsUnique`); a message with the id of what is awaited is on the
wire of the active peer and is the request for it, or the answer to it, with
its heights (`Matches`); as long as nothing was lost one such message is there
(`Comes`); who is connected is in the table and, as long as nothing went wrong,
has a sink (`Connected`). As long as `raced` is false, only one task imports, the
block it has prepared follows the latest one, the block it has stored is the
latest one, and the engine's height is the one after it or, between `Store` and `Advance`, its own (`Lined`), and
headers awaited start right above the chain (`Timely`). A fresh id (`NextRequestId`) is one no message and no pending request
has (`IdsOK` keeps the set of them finite), so a request sent after a switch of
peers cannot be answered by what the old peer still sends. `EndsOnlyWithCause`
then follows: headers of a correct peer that arrive are those asked for and follow
the chain (`Matches`, `Timely`), and a block the gossip task validates is ignored or
follows the latest one (`Follows`, `Lined`), unless `raced` or `missed`.

### Staking

`StakingProofs`, for any nodes and tasks, validators, parameters, epoch length and
bounds, with every interleaving of loads and stores:

* **`StakeCoversTheorem`**: `Spec => []StakeCovers`, lost updates included: every
  record a task stores is good in itself (`StOK`), whatever it overwrites.
* **`SettlementConservesTheorem`**: `Spec => []SettlementConserves`. The lemma it
  rests on is about any fees, budget, rates up to 10000 and number of active
  validators: the shares, each rounded down, add up to at most the whole and
  fall short of it by less than one unit each.
* **`EpochFollowsChainTheorem`**, **`JailIsFinalTheorem`**,
  **`NotReleasedEarlyTheorem`**: as long as no write was lost (`clean`), which their
  properties say and TLC shows to be needed.
* **`StakingInvariant`** is the invariant all of them use.

Each operation of `StakingState` has a lemma that it keeps `StOK` and that its
result is one the code may come to from its argument: `Leads(a, b)` says that the
epoch does not go back, nobody jailed in `a` is active in `b`, and what left the
unbonding list was due. `Leads` is transitive, and a handler is composed as its
calls are. `StakingInv` lifts it to tasks that hold copies: on a clean node a copy
that is not stale and still to be stored is one the store leads to, and its epoch is the
store's or, for the accounting of a block, that of the block (`CopyOK`). Storing
it then does to the store what the operation did to the copy.

Sums over sets need induction over finite sets. It is done by counterexample:
the sizes of the subsets for which a statement fails are a set of numbers, which
would have a least member (`LeastNumber`, from the well-foundedness of the
numbers). `SubsetInduction` states this once, for a set of good subsets instead of
a predicate, so that the provers can use it.

### Ledger

`LedgerProofs`, for any nodes, transactions, genesis accounts, limits and budgets:

* **`ReceiptsAgreeTheorem`**: `Spec => []ReceiptsAgree`. `AgreeInv` says that every
  chain is a prefix of what was decided, that what a job is still to commit is
  the next block decided, and that stored receipts fit their block (`Fits`): one for
  each transaction, with the root of the header. EVM states of two nodes may
  differ, through dry runs, raw transactions and failed executions, and their
  receipts with them; what makes them agree is that `prepare_block` compares
  the root. So the theorem rests on **`RootInjective`**: two lists of the same length
  with the same Merkle root are equal. The root of a list does not say its length (an
  odd layer repeats its last element), which is why one receipt per transaction
  is part of the invariant. The root is computed layer by layer; the lemma goes
  back from the last layer to the list.

* **`OnceOnChainTheorem`**: `Spec => []OnceOnChain`. `NonceInv` says of a node that
  has lost no write that, for every address, the nonce in the store is that of
  genesis and one for each of its transactions on the chain, at each stage of
  a commit: `Executed` and `Stored` are the blocks in the state of a job and in the store
  before and after each of its two writes, in either order. `RunCounts` follows
  a block transaction by transaction: `ValidateTransaction` asks for the very
  nonce of the account, so the nonce of a transaction is the number of the
  sender's places before it (`Place`). A call changes a balance only (`PutBalance`), if what it
  writes back was still stored, and accounts written over others
  (`OverNonces`) leave nonces that count the longer chain.

`RunTransactions` and the Merkle layers are recursive functions. What is known of
them is proved step by step, by `CountUp`: induction up to a number for a set in
place of a predicate, which the provers can instantiate.

### Assumptions and what is left to TLC

Assumptions used are those the modules declare, which TLC evaluates in their
runs: at least one validator, bounds that are numbers, no payload with the name
of a build failure (`Consensus`); tasks and sizes (`Durability`); finitely many
transactions, told apart by their hashes, and limits above zero (`Mempool`);
finitely many addresses, parameters of their type and bounds that are numbers
(`Staking`); finitely many connections, an initial score above the ban threshold, limits of
their types, batches and retained blocks of at least one (`Network`, `Sync`);
genesis accounts with numbers as nonces (`Ledger`).
Beyond these only `Writers` and `Tasks` as above.

Only model-checked:

* `AccountsFollowChain`, `FailsOnlyWithCause`, `ProofsVerify`, `NotesProvable` and
  `PoolCovers` of `Ledger`. The first compares balances with sums folded over
  flattened chains, `FailsOnlyWithCause` needs the same and that state roots
  agree, the others are about trees given by recursive functions over paths:
  each needs induction over data for definitions of its own.
* `CatchesUp` of `Sync`: liveness under fairness, out of reach of the prover, as is
  anything with `ENABLED`.

## 6. Not modelled

* **Progress of a height.** No liveness property of `Consensus` is stated,
  because the code does not have one that fairness alone would give. A validator
  proposes once per height (`last_signed_proposal_height`); a proposal or vote
  that arrives in another round, or is dropped by a lagging channel, is not sent
  again; a locked block is never proposed again. With timers that fire before
  messages arrive, every validator's proposal can be used up, and the height
  has no proposer left. Weak fairness of delivery and timeouts does not exclude
  this. What holds instead are the safety properties of section 4.
* Byzantine validators beyond the equivocation in `Staking`, and forged
  signatures: hashes and signatures are taken to identify what they are of.
* Operations without a caller in the node: `select_for_block`, `ban_peer`,
  `is_banned`, `request_sync`, `compute_native_gas`, `update_base_fee`, the
  accounting without economics. (`begin_unbonding`, `queue_parameter_update` and
  the shielded `transfer`, which have none either, are modelled, as operations
  of their crates.)
* What only reads: `eth_call`, `get_code`, logs, receipts by hash, queries of
  the RPC. Sync models pruning by what peers can still answer.
* The EVM interpreter (revm), the decoding of raw Ethereum transactions and of
  the input of precompiles, cryptography, codec, RPC routing and pages, CLI,
  configuration, genesis files, wallet and metrics, which are libraries,
  stateless or pure I/O.
* Expiry of a ban: the entry is removed with the ban, so it never takes effect.
