---------------------------- MODULE MerkleTrees ----------------------------
(***************************************************************************)
(* The trees of Merkle over every list of leaves, which is put together    *)
(* leaf by leaf as the callers of buildMerkleTree do, and what they must   *)
(* promise to those who hold a root: whoever has a leaf can prove it, no   *)
(* one can prove anything else, and no other list has that root.           *)
(***************************************************************************)
EXTENDS Merkle

CONSTANTS
    Payloads,
    MAX_LEAVES  \* bound of the model

ASSUME TreesAssumption == MAX_LEAVES \in Nat

VARIABLE leaves

TreeInit == leaves = <<>>

AddLeaf(p) ==
    /\ Len(leaves) < MAX_LEAVES
    /\ leaves' = Append(leaves, hashLeaf(p))

\* The next list: a chapter, or the roots of the chapters.
AnotherTree ==
    /\ leaves # <<>>
    /\ leaves' = <<>>

TreeNext == AnotherTree \/ \E p \in Payloads : AddLeaf(p)

TreeSpec == TreeInit /\ [][TreeNext]_leaves

-----------------------------------------------------------------------------
(* Properties *)

Doubled(n, layer) == 2 * n

\* The leaves of a full tree of the same depth.
RoomFor(tree) == FoldLeft(Doubled, 1, Front(tree))

\* Every leaf has a proof that the program accepts, at every position of trees
\* of every shape, odd layers included; it is no longer than the tree is deep,
\* and the tree as low as it can be: with one layer less there would not be
\* room for the leaves (what MAX_VERSE_PROOF on chain and the budget of a
\* transaction rest on: a chapter of 176 verses never needs nine siblings).
EveryLeafHasAShortProof ==
    leaves # <<>> => LET tree == buildMerkleTree(leaves) IN
        /\ Len(leaves) <= RoomFor(tree)
        /\ depth(tree) > 0 => RoomFor(tree) < 2 * Len(leaves)
        /\ \A i \in DOMAIN leaves :
              LET proof == merkleProof(tree, i - 1) IN
              verify_proof(leaves[i], proof, root(tree)) /\ Len(proof) <= depth(tree)

Hashes(tree) == UNION {ToSet(tree[l]) : l \in DOMAIN tree} \cup {hashLeaf(p) : p \in Payloads}

\* No proof, honest or put together from any hashes that are known, opens the
\* root at a leaf the tree does not have.
OnlyLeavesOpen ==
    leaves # <<>> => LET tree == buildMerkleTree(leaves) IN
        \A p \in Payloads : \A proof \in BoundedSeq(Hashes(tree), depth(tree)) :
            verify_proof(hashLeaf(p), proof, root(tree)) => hashLeaf(p) \in ToSet(leaves)

Count(s, leaf) == Cardinality({i \in DOMAIN s : s[i] = leaf})

RootOfEach ==
    LET Trees == UNION {[1..n -> {hashLeaf(p) : p \in Payloads}] : n \in 1..MAX_LEAVES}
    IN [s \in Trees |-> root(buildMerkleTree(s))]

\* Two lists of leaves never share a root (they may when an odd node is paired
\* with itself): sorted pairs only hide the order of siblings.
SameRootSameLeaves ==
    leaves # <<>> =>
        \A s \in DOMAIN RootOfEach :
            RootOfEach[s] = RootOfEach[leaves] =>
                \A leaf \in ToSet(s) \cup ToSet(leaves) : Count(s, leaf) = Count(leaves, leaf)
=============================================================================
