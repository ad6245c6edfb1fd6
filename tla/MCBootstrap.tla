---------------------------- MODULE MCBootstrap -----------------------------
(***************************************************************************)
(* The bootstrap of a canon of two books, the second with an odd number of *)
(* chapters, so that a batch, a rest and an empty rest all occur.          *)
(***************************************************************************)
EXTENDS Bootstrap, TLC

CONSTANTS op1, op2, jude1, ps1, ps2, ps3, zero

MCChapters == <<1, 3>>

RootProof(b, c, r) == [leaf |-> [book |-> b, chapter |-> c, root |-> r], length |-> 2]

MCCommitment ==
    {RootProof(1, 1, jude1), RootProof(2, 1, ps1), RootProof(2, 2, ps2), RootProof(2, 3, ps3)}

MCChapterTree == [r \in Roots \cup {ZeroRoot} |-> {}]

\* The runs of the script differ in nothing but their name.
OperatorSymmetry == Permutations(Operators)

MCTextBytes == [t \in {} |-> 0]
=============================================================================
