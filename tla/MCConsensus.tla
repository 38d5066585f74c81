---------------------------- MODULE MCConsensus ----------------------------
(***************************************************************************)
(* Instances of Consensus for TLC, and the refinement of Finality.         *)
(***************************************************************************)
EXTENDS Consensus

\* The blocks that can be built at height h on one of these parents.
BlocksOn(h, parents) ==
    UNION {[height: {h}, round: {r}, proposer: {ProposerFor(BlankNode, h, r)},
            parent: parents, payload: Payloads] : r \in 0..MaxRound}

\* All blocks of the first two heights; the runs use MaxHeight <= 2.
FirstBlocks == BlocksOn(1, {Nil})
AllBlocks == FirstBlocks \cup BlocksOn(2, {{b} : b \in FirstBlocks})

\* Finalized blocks by height, as the store keeps them.
Ledger(blocks) ==
    [h \in 1..Cardinality(blocks) |->
        IF \E f \in blocks : f.block.height = h
        THEN (CHOOSE f \in blocks : f.block.height = h).block
        ELSE Nil]

F == INSTANCE Finality WITH
        Nodes  <- Nodes,
        Block  <- AllBlocks,
        ledger <- [n \in Nodes |-> Ledger(node[n].blocks)]

(* The engine implements one ledger: a node that finalizes either decides  *)
(* the next block, and then nobody is ahead of it, or repeats what another *)
(* node has decided.                                                       *)
ImplementsFinality == F!Spec
=============================================================================
