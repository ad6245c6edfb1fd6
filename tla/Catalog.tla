------------------------------ MODULE Catalog -------------------------------
(***************************************************************************)
(* The canonical text and what is derived from it (packages/catalog): the  *)
(* registrable verses in canonical order, one Merkle tree for each chapter *)
(* and the tree over the chapter roots, whose root is the commitment the   *)
(* program is compiled with.                                               *)
(*                                                                         *)
(* A dataset is a sequence of books, a book a sequence of chapters, a      *)
(* chapter a sequence of texts, Omitted where the translation has none.    *)
(***************************************************************************)
EXTENDS Merkle

CONSTANT Omitted

Position(b, c, v) == [book |-> b, chapter |-> c, verse |-> v]

Verse(b, c, v, text) == [book |-> b, chapter |-> c, verse |-> v, text |-> text]

AddressOf(v) == Position(v.book, v.chapter, v.verse)

\* All positions in the order of books, chapters and verses.
Positions(books) ==
    FlattenSeq([b \in DOMAIN books |->
        FlattenSeq([c \in DOMAIN books[b] |->
            [v \in DOMAIN books[b][c] |-> Verse(b, c, v, books[b][c][v])]])])

IsRegistrable(v) == v.text # Omitted

KeepRegistrable(kept, v) == IF IsRegistrable(v) THEN Append(kept, v) ELSE kept

KeepOmitted(kept, v) == IF IsRegistrable(v) THEN kept ELSE Append(kept, v)

listRegistrableVerses(books) == FoldLeft(KeepRegistrable, <<>>, Positions(books))

listOmittedPositions(books) == FoldLeft(KeepOmitted, <<>>, Positions(books))

\* The address is inside the leaf, every field of fixed width or prefixed with
\* its length: no two verses encode alike.
canonicalLeaf(v) == hashLeaf(v)

Leaves(verses) == [i \in DOMAIN verses |-> canonicalLeaf(verses[i])]

buildCanonicalTree(verses) == [verses |-> verses, tree |-> buildMerkleTree(Leaves(verses))]

OfChapter(ch, v) == ch.book = v.book /\ ch.chapter = v.chapter

\* A verse joins the group of its chapter, a new one if it is the first of it.
GroupVerse(groups, v) ==
    LET Group(verses) == [book |-> v.book, chapter |-> v.chapter, verses |-> verses] IN
    IF \E i \in DOMAIN groups : OfChapter(groups[i], v)
    THEN [i \in DOMAIN groups |->
            IF OfChapter(groups[i], v) THEN Group(Append(groups[i].verses, v)) ELSE groups[i]]
    ELSE Append(groups, Group(<<v>>))

\* One tree for each chapter, chapters in the order in which they first occur.
buildChapterTrees(verses) ==
    LET groups == FoldLeft(GroupVerse, <<>>, verses) IN
    [i \in DOMAIN groups |->
        [book |-> groups[i].book, chapter |-> groups[i].chapter, verses |-> groups[i].verses,
         tree |-> buildCanonicalTree(groups[i].verses).tree]]

\* Mutant: the commitment is over bare roots.
encodeChapterRootLeafBare(b, c, rootHash) == rootHash

encodeChapterRootLeaf(b, c, rootHash) == [book |-> b, chapter |-> c, root |-> rootHash]

CommitmentLeaf(ch) == hashLeaf(encodeChapterRootLeaf(ch.book, ch.chapter, root(ch.tree)))

buildChapterRootsTree(chapters) ==
    buildMerkleTree([i \in DOMAIN chapters |-> CommitmentLeaf(chapters[i])])

chapterRootProof(chapters, b, c) ==
    LET index == CHOOSE i \in DOMAIN chapters : chapters[i].book = b /\ chapters[i].chapter = c
    IN merkleProof(buildChapterRootsTree(chapters), index - 1)

proofForAddress(source, address) ==
    LET index == CHOOSE i \in DOMAIN source.verses : AddressOf(source.verses[i]) = address
    IN merkleProof(source.tree, index - 1)

-----------------------------------------------------------------------------
(* The two checks of the program, load_chapter_root and register_verse *)

ROOTS_COMMITMENT(books) == root(buildChapterRootsTree(buildChapterTrees(listRegistrableVerses(books))))

LoadAccepted(books, b, c, rootHash, proof) ==
    verify_proof(hashLeaf(encodeChapterRootLeaf(b, c, rootHash)), proof, ROOTS_COMMITMENT(books))

RegisterAccepted(chapterRoot, v, proof) == verify_proof(canonicalLeaf(v), proof, chapterRoot)
=============================================================================
