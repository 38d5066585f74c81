------------------------------ MODULE Finality ------------------------------
(***************************************************************************)
(* What the consensus engine promises to everything that reads its blocks  *)
(* (docs/consensus.md, "deterministic finality"): there is one ledger.     *)
(* Every node holds a prefix of it, and a node's copy only ever grows, one *)
(* block at a time.                                                        *)
(***************************************************************************)
EXTENDS Naturals, Sequences

CONSTANTS
    Nodes,      \* who keeps a copy of the ledger
    Block       \* what may be decided

VARIABLE ledger \* ledger[n]: the blocks finalized by n, oldest first

Init == ledger = [n \in Nodes |-> <<>>]

\* Every decided block, in the longest copy held by anyone.
Longest(m) == \A n \in Nodes : Len(ledger[n]) <= Len(ledger[m])

\* n, whose copy is as long as any, decides the next block.
Decide(n) ==
    /\ Longest(n)
    /\ \E b \in Block : ledger' = [ledger EXCEPT ![n] = Append(@, b)]

\* n learns the block that follows its copy from a node that is ahead.
Learn(n) ==
    \E m \in Nodes :
        /\ Len(ledger[m]) > Len(ledger[n])
        /\ ledger' = [ledger EXCEPT ![n] = Append(@, ledger[m][Len(@) + 1])]

Next == \E n \in Nodes : Decide(n) \/ Learn(n)

Spec == Init /\ [][Next]_ledger
=============================================================================
