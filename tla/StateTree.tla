----------------------------- MODULE StateTree -----------------------------
(***************************************************************************)
(* The trees that blocks commit to: the sparse Merkle tree over accounts   *)
(* of crates/zeno-state (SparseMerkleState, AccountProof) and the Merkle   *)
(* root over lists of crates/zeno-hash.                                    *)
(*                                                                         *)
(* A hash is the tagged tuple of what is hashed, so that hashes collide    *)
(* exactly where the code hashes the same bytes.  The place of an address  *)
(* in the tree is the hash of the address; PathKey gives it in bits.       *)
(***************************************************************************)
EXTENDS Integers, Sequences

CONSTANTS
    SparseDepth,    \* SPARSE_DEPTH, 64
    PathKey         \* PathKey[a]: path_key, the bits from the root down

ASSUME StateTreeAssumption ==
    /\ SparseDepth \in Nat \ {0}
    /\ \A a, b \in DOMAIN PathKey :
          /\ PathKey[a] \in [1..SparseDepth -> BOOLEAN]
          /\ a # b => PathKey[a] # PathKey[b]

-----------------------------------------------------------------------------
(* The account tree.                                                       *)

LeafHash(a, account) == <<"leaf", a, account>>

NodeHash(left, right) == <<"node", left, right>>

EmptyHash[d \in 0..SparseDepth] ==
    IF d = SparseDepth THEN <<"empty">> ELSE NodeHash(EmptyHash[d + 1], EmptyHash[d + 1])

Paths == UNION {[1..d -> BOOLEAN] : d \in 0..SparseDepth}

\* The accounts below a node, which is named by the path to it.
Below(accounts, path) ==
    {a \in DOMAIN accounts : \A i \in DOMAIN path : PathKey[a][i] = path[i]}

\* subtree_root, of every node.
SubtreeRoot(accounts) ==
    LET root[path \in Paths] ==
            LET entries == Below(accounts, path)
                first == CHOOSE a \in entries : TRUE
            IN  IF entries = {} THEN EmptyHash[Len(path)]
                ELSE IF Len(path) = SparseDepth THEN LeafHash(first, accounts[first])
                ELSE NodeHash(root[Append(path, FALSE)], root[Append(path, TRUE)])
    IN  root

StateRoot(accounts) == SubtreeRoot(accounts)[<< >>]

\* SparseMerkleState::prove: for a present or an absent address.
Prove(accounts, a) ==
    LET root == SubtreeRoot(accounts)
        Sibling(d) == Append(SubSeq(PathKey[a], 1, d - 1), ~PathKey[a][d])
    IN  [address |-> a,
         account |-> IF a \in DOMAIN accounts THEN {accounts[a]} ELSE {},
         siblings |-> [d \in 1..SparseDepth |-> root[Sibling(d)]]]

\* AccountProof::verify: hashes from the leaf up to the root.
Verify(proof, expected) ==
    LET a == proof.address
        leaf == IF proof.account = {} THEN EmptyHash[SparseDepth]
                ELSE LeafHash(a, CHOOSE x \in proof.account : TRUE)
        up[d \in 0..SparseDepth] ==
            IF d = SparseDepth THEN leaf
            ELSE IF PathKey[a][d + 1] THEN NodeHash(proof.siblings[d + 1], up[d + 1])
            ELSE NodeHash(up[d + 1], proof.siblings[d + 1])
    IN  Len(proof.siblings) = SparseDepth /\ up[0] = expected

-----------------------------------------------------------------------------
(* Lists.                                                                  *)

\* One layer up: the last of an odd number of hashes is its own sibling.
NextLayer(layer) ==
    [i \in 1..((Len(layer) + 1) \div 2) |->
        <<"pair", layer[2 * i - 1], layer[IF 2 * i <= Len(layer) THEN 2 * i ELSE 2 * i - 1]>>]

MerkleRoot(leaves) ==
    LET layer[k \in 0..Len(leaves)] ==
            IF k = 0 THEN leaves
            ELSE IF Len(layer[k - 1]) > 1 THEN NextLayer(layer[k - 1]) ELSE layer[k - 1]
    IN  IF leaves = << >> THEN <<"nothing">> ELSE layer[Len(leaves)][1]

=============================================================================
