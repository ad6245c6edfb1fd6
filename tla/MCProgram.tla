----------------------------- MODULE MCProgram ------------------------------
(***************************************************************************)
(* A canon of two books.  Psalms stands for the books whose bitmap needs   *)
(* more than one byte, the last of them half used; one root that is not    *)
(* committed covers a tree of forged texts.                                *)
(***************************************************************************)
EXTENDS Program

CONSTANTS alice, bob, jude1, ps1, ps2, ps3, forged, zero

MCChapters == <<1, 3>>

MCTextBytes == [t \in {"empty", "short", "longest", "forged", "toolong"} |->
                  CASE t = "empty" -> 0 [] t = "longest" -> 3 [] t = "toolong" -> 4 [] OTHER -> 1]

RootProof(b, c, r, n) == [leaf |-> [book |-> b, chapter |-> c, root |-> r], length |-> n]

MCCommitment ==
    {RootProof(1, 1, jude1, 2), RootProof(2, 1, ps1, 2),
     RootProof(2, 2, ps2, 2), RootProof(2, 3, ps3, 1)}

Leaf(b, c, v, t, n) ==
    [leaf |-> [book |-> b, chapter |-> c, verse |-> v, text |-> t], length |-> n]

MCTree(r) ==
    CASE r = jude1  -> {Leaf(1, 1, 1, "short", 1), Leaf(1, 1, 2, "longest", 1)}
      [] r = ps1    -> {Leaf(2, 1, 1, "short", 0)}
      [] r = ps2    -> {Leaf(2, 2, 2, "short", 0)}
      [] r = ps3    -> {Leaf(2, 3, 1, "longest", 2), Leaf(2, 3, 2, "short", 2)}
      [] r = forged -> {Leaf(1, 1, 1, "forged", 1), Leaf(2, 2, 1, "empty", 1),
                        Leaf(2, 3, 1, "toolong", 3)}
      [] OTHER      -> {}

MCChapterTree == [r \in Roots \cup {ZeroRoot} |-> MCTree(r)]
=============================================================================
