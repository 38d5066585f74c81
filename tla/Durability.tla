----------------------------- MODULE Durability -----------------------------
(***************************************************************************)
(* What one node writes to its store when a block is finalized by its own  *)
(* consensus engine (finalize) or imported (import_external_finalized_     *)
(* block), one store call at a time, and what it recovers after a crash    *)
(* between any two of them.                                                *)
(*                                                                         *)
(* A block is named by its height: which block is decided at a height is   *)
(* the business of Consensus.  A handler is the list of the steps it still *)
(* has to do: store writes, and for an import the execution of the block,  *)
(* which reads the store.  The consensus task and the task that receives   *)
(* sync responses run in parallel on the same store and RoundState.        *)
(*                                                                         *)
(* Left out: pending evidence (empty here, see Consensus), the mempool,    *)
(* WAL compaction and pruning, which start at heights 11 and 1001.         *)
(***************************************************************************)
EXTENDS Integers, Sequences

CONSTANTS
    Tasks,          \* the tasks that write: "consensus", "sync"
    NumAccounts,    \* accounts every block changes
    MaxHeight,      \* bound on the height of the chain
    MaxCrashes      \* bound on the number of crashes

ASSUME TasksAssumption == "consensus" \in Tasks /\ Tasks \subseteq {"consensus", "sync"}

ASSUME SizesAssumption ==
    NumAccounts \in Nat /\ MaxHeight \in Nat /\ MaxCrashes \in Nat

VARIABLES
    disk,       \* the store
    up,         \* the process runs
    height,     \* RoundState.height
    todo,       \* todo[t]: the steps task t has still to do
    tip,        \* the highest block the network has finalized
    crashes

vars == <<disk, up, height, todo, tip, crashes>>

Accounts == 1..NumAccounts

-----------------------------------------------------------------------------
(* The store.  An account is the height of the block that wrote it last;   *)
(* staking is the list of the blocks whose accounting it contains, for     *)
(* staking, governance and epoch together; snap is 0 when there is none.   *)

EmptyStore ==
    [accounts |-> [a \in Accounts |-> 0], staking |-> << >>,
     blocks |-> {}, latest |-> 0, walCommit |-> 0, snap |-> 0]

\* Mutant: the batch holds the block but not the accounts.
Write_BlockOnly(d, w, h) ==
    CASE w.op = "account"  -> [d EXCEPT !.accounts[w.account] = w.height]
      [] w.op = "staking"  -> [d EXCEPT !.staking = w.value]
      [] w.op = "wal"      -> [d EXCEPT !.walCommit = IF w.height > @ THEN w.height ELSE @]
      [] w.op = "commit"   -> [d EXCEPT !.blocks = @ \cup {w.height}, !.latest = w.height]
      [] w.op = "snapshot" -> [d EXCEPT !.snap = h]
      [] w.op \in {"advance", "execute"} -> d

\* put_account, put_staking_state, the WAL's CommitFinalized entry,
\* atomic_commit_block and put_consensus_snapshot.  The WAL entries written
\* right after the snapshot repeat it.
Write(d, w, h) ==
    CASE w.op = "account"  -> [d EXCEPT !.accounts[w.account] = w.height]
      [] w.op = "staking"  -> [d EXCEPT !.staking = w.value]
      [] w.op = "wal"      -> [d EXCEPT !.walCommit = IF w.height > @ THEN w.height ELSE @]
      [] w.op = "commit"   -> [d EXCEPT !.accounts = [a \in Accounts |-> w.height],
                                        !.blocks = @ \cup {w.height},
                                        !.latest = w.height]
      [] w.op = "snapshot" -> [d EXCEPT !.snap = h]
      [] w.op \in {"advance", "execute"} -> d

\* Mutant: the height after a CommitFinalized entry is counted twice.
Recover_Skips(d) ==
    LET snap == IF d.snap = 0 THEN d.latest + 1 ELSE d.snap
    IN  IF d.walCommit >= snap THEN d.walCommit + 2 ELSE snap

\* recover_snapshot, in ConsensusEngine::new.
Recover(d) ==
    LET snap == IF d.snap = 0 THEN d.latest + 1 ELSE d.snap
    IN  IF d.walCommit >= snap THEN d.walCommit + 1 ELSE snap

-----------------------------------------------------------------------------
(* The handlers, as lists of steps.                                        *)

\* Mutant: neither parent nor state root is compared.
PrepareBlock_Unchecked(d, h) == TRUE

\* prepare_block: the parent is the latest block, and executing on the
\* account table leads to the state root in the header.
PrepareBlock(d, h) ==
    /\ d.latest = h - 1
    /\ \A a \in Accounts : d.accounts[a] = h - 1

\* persist_accounting: every account, then staking, governance and epoch.
PersistAccounting(d, h) ==
    [a \in Accounts |-> [op |-> "account", account |-> a, height |-> h]]
    \o <<[op |-> "staking", value |-> Append(d.staking, h)]>>

AdvanceHeight(next) ==
    <<[op |-> "advance", height |-> next], [op |-> "snapshot"]>>

WalCommitFinalized(h) == <<[op |-> "wal", height |-> h]>>

AtomicCommitBlock(h) == <<[op |-> "commit", height |-> h]>>

\* Mutant: the WAL hears of the block once it is stored.
Finalize_WalLast(d, h) ==
    IF ~PrepareBlock(d, h) THEN << >>
    ELSE PersistAccounting(d, h) \o AtomicCommitBlock(h) \o WalCommitFinalized(h)
         \o AdvanceHeight(h + 1)

Finalize(d, h) ==
    IF ~PrepareBlock(d, h) THEN << >>
    ELSE PersistAccounting(d, h) \o WalCommitFinalized(h) \o AtomicCommitBlock(h)
         \o AdvanceHeight(h + 1)

\* validate_and_commit_finalized_block, and what import does after it.
ExecuteAndCommit(d, h) ==
    IF ~PrepareBlock(d, h) THEN << >>
    ELSE AtomicCommitBlock(h) \o PersistAccounting(d, h) \o AdvanceHeight(h + 1)

\* import_external_finalized_block: the WAL is told first.
Import(h) == WalCommitFinalized(h) \o <<[op |-> "execute", height |-> h]>>

-----------------------------------------------------------------------------
Idle(t) == up /\ todo[t] = << >>

Init ==
    /\ disk = EmptyStore
    /\ up = FALSE
    /\ height = 1
    /\ todo = [t \in Tasks |-> << >>]
    /\ tip = 0
    /\ crashes = 0

\* ConsensusEngine::new, and the snapshot run persists first.
Boot ==
    /\ ~up
    /\ up' = TRUE
    /\ height' = Recover(disk)
    /\ todo' = [t \in Tasks |-> IF t = "consensus" THEN <<[op |-> "snapshot"]>> ELSE << >>]
    /\ UNCHANGED <<disk, tip, crashes>>

\* The other validators finalize the next block.
Decide ==
    /\ tip < MaxHeight
    /\ tip' = tip + 1
    /\ UNCHANGED <<disk, up, height, todo, crashes>>

\* A quorum of precommits at the height of the engine: for a block that is
\* decided already, or for the next one.
OnQuorum ==
    /\ Idle("consensus")
    /\ height <= MaxHeight /\ height <= tip + 1
    /\ todo' = [todo EXCEPT !["consensus"] = Finalize(disk, height)]
    /\ tip' = IF height > tip /\ Finalize(disk, height) # << >> THEN height ELSE tip
    /\ UNCHANGED <<disk, up, height, crashes>>

\* A Commit message or a sync response with the block of height h.
OnFinalizedBlock(t, h) ==
    /\ Idle(t)
    /\ h >= height
    /\ todo' = [todo EXCEPT ![t] = Import(h)]
    /\ UNCHANGED <<disk, up, height, tip, crashes>>

\* The next step of task t.
Step(t) ==
    /\ up
    /\ todo[t] # << >>
    /\ LET w == Head(todo[t])
       IN  /\ height' = IF w.op = "advance" THEN w.height ELSE height
           /\ disk' = Write(disk, w, height)
    /\ todo' = [todo EXCEPT ![t] =
                   IF Head(@).op = "execute" THEN ExecuteAndCommit(disk, Head(@).height)
                   ELSE Tail(@)]
    /\ UNCHANGED <<up, tip, crashes>>

Crash ==
    /\ up
    /\ crashes < MaxCrashes
    /\ up' = FALSE
    /\ todo' = [t \in Tasks |-> << >>]
    /\ crashes' = crashes + 1
    /\ UNCHANGED <<disk, height, tip>>

Next ==
    \/ Boot
    \/ Decide
    \/ OnQuorum
    \/ \E t \in Tasks : Step(t)
    \/ \E t \in Tasks : \E h \in 1..tip : OnFinalizedBlock(t, h)
    \/ Crash

Spec == Init /\ [][Next]_vars

-----------------------------------------------------------------------------
(* Properties.                                                             *)

AllIdle == \A t \in Tasks : Idle(t)

TypeOK ==
    /\ disk.accounts \in [Accounts -> 0..MaxHeight]
    /\ disk.blocks \subseteq 1..MaxHeight
    /\ disk.latest \in 0..MaxHeight
    /\ disk.walCommit \in 0..MaxHeight
    /\ disk.snap \in 0..(MaxHeight + 1)
    /\ up \in BOOLEAN
    /\ height \in 1..(MaxHeight + 1)
    /\ DOMAIN todo = Tasks
    /\ tip \in 0..MaxHeight
    /\ crashes \in 0..MaxCrashes

(* A node never goes back to a height it holds the block of: finalize and  *)
(* import tell the WAL before they store the block, so a crash anywhere    *)
(* after that leaves enough to recover a later height.                     *)
NeverReopens == AllIdle => height > disk.latest

\* The stored chain has no holes, whatever was imported, lost or retried.
NoHoles == disk.blocks = 1..disk.latest

(* The account table is never older than the latest block and at most one  *)
(* block ahead of it, also in the middle of a handler and after a crash.   *)
AccountsNearChain ==
    \A a \in Accounts : disk.accounts[a] \in {disk.latest, disk.latest + 1}

(* "either all writes succeed or none do" (zeno-storage lib.rs 97): a node *)
(* that is back at work has the accounts of its latest block.              *)
AccountsMatchChain ==
    AllIdle => \A a \in Accounts : disk.accounts[a] = disk.latest

(* "can be replayed from blocks if lost" (zeno-execution lib.rs 245): a    *)
(* node that is back at work has the accounting of every block it holds.   *)
AccountingNotLost ==
    AllIdle => \A h \in disk.blocks : \E i \in DOMAIN disk.staking : disk.staking[i] = h

(* "Returns the latest finalized block" (zeno-storage lib.rs 70): what     *)
(* latest_block returns does not go back to an older block.                *)
LatestAdvances == [][disk'.latest >= disk.latest]_vars

=============================================================================
