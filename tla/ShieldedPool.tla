--------------------------- MODULE ShieldedPool ---------------------------
(***************************************************************************)
(* The shielded pool of crates/zeno-zk: the incremental tree of            *)
(* commitments, its proofs, and the three operations on the pool.  A hash  *)
(* is the tagged tuple of what is hashed; the random blinding factor and   *)
(* spending key of a note are its id.                                      *)
(***************************************************************************)
EXTENDS Integers, Sequences, TLC

CONSTANT TreeDepth      \* COMMITMENT_TREE_DEPTH, 32

ASSUME TreeDepthAssumption == TreeDepth \in Nat \ {0}

-----------------------------------------------------------------------------
(* Notes.                                                                  *)

ComputeCommitment(value, id) == <<"commitment", value, id>>

ComputeNullifier(commitment, id) == <<"nullifier", commitment, id>>

CreateNote(value, id) ==
    LET commitment == ComputeCommitment(value, id)
    IN  [value |-> value, commitment |-> commitment,
         nullifier |-> ComputeNullifier(commitment, id)]

-----------------------------------------------------------------------------
(* CommitmentTree.                                                         *)

TreeNodeHash(left, right) == <<"tree_node", left, right>>

EmptyHashes[d \in 0..TreeDepth] ==
    IF d = TreeDepth THEN <<"empty_leaf">> ELSE TreeNodeHash(EmptyHashes[d + 1], EmptyHashes[d + 1])

EmptyTree == [leaf_count |-> 0, nodes |-> << >>]

TreeNode(tree, depth, index) ==
    IF <<depth, index>> \in DOMAIN tree.nodes THEN tree.nodes[<<depth, index>>]
    ELSE EmptyHashes[depth]

TreeRoot(tree) == TreeNode(tree, 0, 0)

IsFull(tree) == tree.leaf_count >= 2 ^ TreeDepth

\* The place at a depth of the path to a leaf, and the one beside it.
Ancestor(index, depth) == index \div 2 ^ (TreeDepth - depth)

Beside(i) == IF i % 2 = 0 THEN i + 1 ELSE i - 1

\* The hashes on the path of a leaf, given the ones beside it.
PathHashes(leaf, index, siblingAt) ==
    LET hash[d \in 0..TreeDepth] ==
            IF d = TreeDepth THEN leaf
            ELSE IF Ancestor(index, d + 1) % 2 = 0 THEN TreeNodeHash(hash[d + 1], siblingAt[d + 1])
            ELSE TreeNodeHash(siblingAt[d + 1], hash[d + 1])
    IN  hash

Siblings(tree, index) ==
    [d \in 1..TreeDepth |-> TreeNode(tree, d, Beside(Ancestor(index, d)))]

\* Mutant: a node that has been computed once is not computed again.
Insert_OnlyNewNodes(tree, commitment) ==
    LET index == tree.leaf_count
        hashes == PathHashes(commitment, index, Siblings(tree, index))
        path == {<<d, Ancestor(index, d)>> : d \in 0..TreeDepth}
    IN  [leaf_count |-> index + 1, nodes |-> tree.nodes @@ [p \in path |-> hashes[p[1]]]]

\* insert, into a tree that is not full.
Insert(tree, commitment) ==
    LET index == tree.leaf_count
        hashes == PathHashes(commitment, index, Siblings(tree, index))
        path == {<<d, Ancestor(index, d)>> : d \in 0..TreeDepth}
    IN  [leaf_count |-> index + 1, nodes |-> [p \in path |-> hashes[p[1]]] @@ tree.nodes]

\* prove, for an index below leaf_count.
ProveCommitment(tree, index) ==
    [commitment |-> TreeNode(tree, TreeDepth, index), index |-> index,
     siblings |-> Siblings(tree, index)]

VerifyCommitmentProof(proof, root) ==
    /\ Len(proof.siblings) = TreeDepth
    /\ PathHashes(proof.commitment, proof.index, proof.siblings)[0] = root

-----------------------------------------------------------------------------
(* ShieldedPool.  An operation that fails leaves the pool as it is, except *)
(* Transfer.                                                               *)

EmptyPool == [tree |-> EmptyTree, nullifiers |-> {}, total_shielded_value |-> 0]

Shield(pool, value, commitment) ==
    IF IsFull(pool.tree) THEN pool
    ELSE [pool EXCEPT !.tree = Insert(@, commitment), !.total_shielded_value = @ + value]

\* The nullifier is new, and the proof is for the root of now.
Accepts(pool, request) ==
    /\ request.nullifier \notin pool.nullifiers
    /\ request.merkle_root = TreeRoot(pool.tree)
    /\ VerifyCommitmentProof(request.merkle_proof, request.merkle_root)

\* The nullifier is recorded even if there is no place for the output.
Transfer(pool, request) ==
    IF ~Accepts(pool, request) THEN pool
    ELSE [pool EXCEPT !.nullifiers = @ \cup {request.nullifier},
                      !.tree = IF IsFull(@) THEN @ ELSE Insert(@, request.output_commitment)]

\* Mutant: the nullifier is not recorded.
Unshield_NotRecorded(pool, request) ==
    IF ~Accepts(pool, request) THEN pool
    ELSE [pool EXCEPT !.total_shielded_value = IF request.value > @ THEN 0 ELSE @ - request.value]

Unshield(pool, request) ==
    IF ~Accepts(pool, request) THEN pool
    ELSE [pool EXCEPT !.nullifiers = @ \cup {request.nullifier},
                      !.total_shielded_value = IF request.value > @ THEN 0 ELSE @ - request.value]

\* verify_precompile_inner: no root of a pool is asked for, no nullifier is
\* looked up; the zero hash is the empty tuple.
ZkVerify(request) ==
    /\ VerifyCommitmentProof(request.merkle_proof, request.merkle_root)
    /\ request.output_commitment # << >>
    /\ request.nullifier # << >>

=============================================================================
