------------------------------- MODULE Merkle -------------------------------
(***************************************************************************)
(* The Merkle tree of packages/catalog/src/merkle.ts and its verification  *)
(* in the program (merkle.rs).  sha256 is taken as injective: a digest is  *)
(* the term it was computed from.  A leaf and a node are different terms   *)
(* (the 0x00 and 0x01 prefixes), and a node is the set of its two children *)
(* (pairs are hashed in byte order).                                       *)
(***************************************************************************)
EXTENDS Naturals, Sequences, SequencesExt, FiniteSets

CONSTANT NoPayload  \* what a node has in place of a payload

hashLeaf(payload) == [payload |-> payload, children |-> {}]

hashPair(left, right) == [payload |-> NoPayload, children |-> {left, right}]

\* Mutant: the odd node is paired with itself (CVE-2012-2459).
NextLayerDuplicating(layer) ==
    [i \in 1..(Len(layer) + 1) \div 2 |->
        hashPair(layer[2 * i - 1], IF 2 * i <= Len(layer) THEN layer[2 * i] ELSE layer[2 * i - 1])]

\* Pairs are hashed; an odd one out rides up untouched.
NextLayer(layer) ==
    [i \in 1..(Len(layer) + 1) \div 2 |->
        IF 2 * i <= Len(layer) THEN hashPair(layer[2 * i - 1], layer[2 * i]) ELSE layer[2 * i - 1]]

\* The loop ends above a single node.
AddLayer(layers, leaf) ==
    IF Len(Last(layers)) <= 1 THEN layers ELSE Append(layers, NextLayer(Last(layers)))

\* The layers, leaves first; at most one is added for each leaf.
buildMerkleTree(leaves) == FoldLeft(AddLayer, <<leaves>>, leaves)

root(tree) == Last(tree)[1]

depth(tree) == Len(tree) - 1

\* Mutant: the sibling is always taken on the right.
SiblingIndexRight(position) == position + 1

SiblingIndex(position) == IF position % 2 = 0 THEN position + 1 ELSE position - 1

\* One level of the way up from a leaf (positions count from 0): a node without
\* a sibling was promoted, there is nothing to prove at this level.
Climb(walk, layer) ==
    LET s == SiblingIndex(walk.position) IN
    [position |-> walk.position \div 2,
     proof |-> IF s < Len(layer) THEN Append(walk.proof, layer[s + 1]) ELSE walk.proof]

\* The siblings on the way, bottom first.
merkleProof(tree, index) ==
    FoldLeft(Climb, [position |-> index, proof |-> <<>>], Front(tree)).proof

\* Mutant: a proof that is not empty is folded without the leaf.
FoldsWithoutLeaf(leaf, proof) ==
    IF proof = <<>> THEN leaf ELSE FoldLeft(hashPair, Head(proof), Tail(proof))

\* Folding a leaf up through a proof, by the program and by the catalog.
Folds(leaf, proof) == FoldLeft(hashPair, leaf, proof)

verify_proof(leaf, proof, rootHash) == Folds(leaf, proof) = rootHash
=============================================================================
