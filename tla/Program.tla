------------------------------ MODULE Program -------------------------------
(***************************************************************************)
(* The on-chain program (programs/eternal-word/src).  Every instruction is *)
(* one atomic transaction on the accounts it names: an action below is a   *)
(* transaction that succeeds, and one that fails leaves every account as   *)
(* it was.  Any wallet may send any instruction, so Next offers all of     *)
(* them at all times.                                                      *)
(*                                                                         *)
(* sha256 is taken to be collision free.  A Merkle tree is therefore the   *)
(* set of inclusion proofs that verify against its root, a proof being     *)
(* the leaf it opens and its number of siblings; module Merkle is about    *)
(* how such trees and proofs are computed.                                 *)
(***************************************************************************)
EXTENDS Naturals, FiniteSets

CONSTANTS
    BOOK_COUNT,             \* books of the canon (66)
    CHAPTERS_PER_BOOK,      \* chapters of each book
    MAX_COMMITMENT_PROOF,   \* longest proof load_chapter_root accepts
    MAX_VERSE_PROOF,        \* longest proof register_verse accepts
    MAX_VERSE_BYTES,        \* longest text register_verse accepts
    BYTE,                   \* bits in a byte of loaded_mask (8)
    Wallets,                \* who signs and pays
    VerseNumbers,           \* verse numbers a caller may name
    Texts,                  \* texts a caller may submit
    TextBytes,              \* the length of each text
    Roots,                  \* 32-byte values a caller may submit as a root
    ZeroRoot,               \* thirty-two zero bytes
    ROOTS_COMMITMENT,       \* the proofs of the tree over the chapter roots
    ChapterTree             \* the proofs of the tree under each root

Books == 1..BOOK_COUNT

chapters_in_book(book) ==
    IF book \in Books THEN CHAPTERS_PER_BOOK[book] ELSE 0

chapter_exists(book, chapter) == chapter >= 1 /\ chapter <= chapters_in_book(book)

ChaptersOf(book) == 1..chapters_in_book(book)

AnyChapter == UNION {ChaptersOf(b) : b \in Books}

RootLeaf == [book : Books, chapter : AnyChapter, root : Roots]

VerseLeaf == [book : Books, chapter : AnyChapter, verse : VerseNumbers, text : Texts]

ASSUME ConstantsAssumption ==
    /\ BOOK_COUNT \in Nat
    /\ CHAPTERS_PER_BOOK \in [Books -> Nat]
    /\ BYTE \in Nat \ {0}
    /\ {MAX_COMMITMENT_PROOF, MAX_VERSE_PROOF, MAX_VERSE_BYTES} \subseteq Nat
    /\ TextBytes \in [Texts -> Nat]
    /\ ROOTS_COMMITMENT \subseteq [leaf : RootLeaf, length : Nat]
    /\ ChapterTree \in [Roots \cup {ZeroRoot} -> SUBSET [leaf : VerseLeaf, length : Nat]]
    /\ ZeroRoot \notin Roots /\ ChapterTree[ZeroRoot] = {}

\* Merkle.ts and the catalog build the commitment from one root per chapter
\* of the canon, in a tree shallow enough for the program's limit.
ASSUME CommitmentAssumption ==
    /\ \A p, q \in ROOTS_COMMITMENT :
          (p.leaf.book = q.leaf.book /\ p.leaf.chapter = q.leaf.chapter) => p.leaf.root = q.leaf.root
    /\ \A b \in Books : \A c \in ChaptersOf(b) :
          \E p \in ROOTS_COMMITMENT : p.leaf.book = b /\ p.leaf.chapter = c
    /\ \A p \in ROOTS_COMMITMENT :
          p.length <= MAX_COMMITMENT_PROOF /\ p.leaf.chapter \in ChaptersOf(p.leaf.book)

\* The chapter roots the bytecode commits to, by address.
CommittedRoot(book, chapter) ==
    (CHOOSE p \in ROOTS_COMMITMENT : p.leaf.book = book /\ p.leaf.chapter = chapter).leaf.root

\* The proofs of the canon: those of the committed chapter trees whose leaf
\* lies at the address its tree is committed to.
CanonProofs ==
    {q \in UNION {ChapterTree[p.leaf.root] : p \in ROOTS_COMMITMENT} :
        q \in ChapterTree[CommittedRoot(q.leaf.book, q.leaf.chapter)]}

Canon == {q.leaf : q \in CanonProofs}

\* The catalog builds a chapter tree from one text per verse, none of them
\* empty or beyond the program's limits (dataset.ts, merkle_fixtures.rs).
ASSUME CanonAssumption ==
    \A q \in CanonProofs :
        /\ q.leaf.chapter \in ChaptersOf(q.leaf.book)
        /\ q.length <= MAX_VERSE_PROOF
        /\ TextBytes[q.leaf.text] \in 1..MAX_VERSE_BYTES
        /\ \A r \in CanonProofs :
              (/\ r.leaf.book = q.leaf.book
               /\ r.leaf.chapter = q.leaf.chapter
               /\ r.leaf.verse = q.leaf.verse) => r.leaf.text = q.leaf.text

VARIABLES
    config,          \* the singleton Config account
    book_roots,      \* the BookRoots account of each book
    verse_accounts   \* the VerseAccounts that exist

vars == <<config, book_roots, verse_accounts>>

-----------------------------------------------------------------------------
(* Accounts *)

Config == [exists : BOOLEAN, books_complete : Nat, sealed : BOOLEAN]

VerseAccount ==
    [book : Books, chapter : AnyChapter, verse : VerseNumbers, text : Texts, adopter : Wallets]

BookRoots(book) ==
    [exists : BOOLEAN, loaded : Nat, completed : BOOLEAN,
     loaded_mask : SUBSET Nat, roots : [ChaptersOf(book) -> Roots \cup {ZeroRoot}]]

\* Mutant: the division is not rounded up.
mask_bytesFloor(book) == chapters_in_book(book) \div BYTE

\* Bytes of a book's bitmap: one bit per chapter, rounded up.
mask_bytes(book) == (chapters_in_book(book) + BYTE - 1) \div BYTE

\* A bit outside the bitmap reads as clear ...
is_loaded(roots, chapter) == chapter - 1 \in roots.loaded_mask

\* ... and setting it is silently skipped.
MarkLoaded(book, mask, chapter) ==
    mask \cup {i \in {chapter - 1} : i \div BYTE < mask_bytes(book)}

ZeroedRoots(book, exists) ==
    [exists |-> exists, loaded |-> 0, completed |-> FALSE,
     loaded_mask |-> {}, roots |-> [c \in ChaptersOf(book) |-> ZeroRoot]]

Init ==
    /\ config = [exists |-> FALSE, books_complete |-> 0, sealed |-> FALSE]
    /\ book_roots = [b \in Books |-> ZeroedRoots(b, FALSE)]
    /\ verse_accounts = {}

-----------------------------------------------------------------------------
(* Leaves and proofs *)

commitment_leaf(book, chapter, root) ==
    [book |-> book, chapter |-> chapter, root |-> root]

verse_leaf(book, chapter, verse, text) ==
    [book |-> book, chapter |-> chapter, verse |-> verse, text |-> text]

\* Mutant: the computed root is right, but for any leaf.
verify_proofOfAnyLeaf(leaf, proof, tree) == proof \in tree

verify_proof(leaf, proof, tree) == proof \in tree /\ proof.leaf = leaf

-----------------------------------------------------------------------------
(* Instructions *)

\* `init` fails on an account that exists.
InitializeConfig ==
    /\ ~config.exists
    /\ config' = [exists |-> TRUE, books_complete |-> 0, sealed |-> FALSE]
    /\ UNCHANGED <<book_roots, verse_accounts>>

\* Mutant: every book gets the slots of the longest one.
InitializeBookRootsFixedSize(book) ==
    /\ config.exists /\ ~config.sealed
    /\ book \in Books
    /\ ~book_roots[book].exists
    /\ book_roots' = [book_roots EXCEPT ![book] =
          [ZeroedRoots(book, TRUE) EXCEPT !.roots = [c \in AnyChapter |-> ZeroRoot]]]
    /\ UNCHANGED <<config, verse_accounts>>

InitializeBookRoots(book) ==
    /\ config.exists
    /\ ~config.sealed
    /\ book >= 1 /\ book <= BOOK_COUNT
    /\ ~book_roots[book].exists
    /\ book_roots' = [book_roots EXCEPT ![book] = ZeroedRoots(book, TRUE)]
    /\ UNCHANGED <<config, verse_accounts>>

\* Mutant: a replayed load is counted again.
WithChapterRootRecounted(book, roots, chapter, root) ==
    [roots EXCEPT !.loaded = @ + 1,
                  !.loaded_mask = MarkLoaded(book, @, chapter),
                  !.roots[chapter] = root]

\* The slot and, the first time, the bitmap and the counter.
WithChapterRoot(book, roots, chapter, root) ==
    [exists      |-> roots.exists,
     loaded      |-> IF is_loaded(roots, chapter) THEN roots.loaded ELSE roots.loaded + 1,
     completed   |-> roots.completed,
     loaded_mask |-> MarkLoaded(book, roots.loaded_mask, chapter),
     roots       |-> [roots.roots EXCEPT ![chapter] = root]]

LoadChapterRoot(book, chapter, root, proof) ==
    /\ config.exists
    /\ book \in Books
    /\ book_roots[book].exists
    /\ ~config.sealed
    /\ proof.length <= MAX_COMMITMENT_PROOF
    /\ chapter_exists(book, chapter)
    /\ verify_proof(commitment_leaf(book, chapter, root), proof, ROOTS_COMMITMENT)
    /\ book_roots' = [book_roots EXCEPT ![book] = WithChapterRoot(book, @, chapter, root)]
    /\ UNCHANGED <<config, verse_accounts>>

CompleteBook(book) ==
    /\ config.exists
    /\ book \in Books
    /\ book_roots[book].exists
    /\ ~config.sealed
    /\ book_roots[book].loaded = chapters_in_book(book)
    /\ ~book_roots[book].completed
    /\ book_roots' = [book_roots EXCEPT ![book].completed = TRUE]
    /\ config' = [config EXCEPT !.books_complete = @ + 1]
    /\ UNCHANGED verse_accounts

\* Mutant: off by one book.
SealEarly ==
    /\ config.exists /\ ~config.sealed
    /\ config.books_complete + 1 >= BOOK_COUNT
    /\ config' = [config EXCEPT !.sealed = TRUE]
    /\ UNCHANGED <<book_roots, verse_accounts>>

Seal ==
    /\ config.exists
    /\ ~config.sealed
    /\ config.books_complete = BOOK_COUNT
    /\ config' = [config EXCEPT !.sealed = TRUE]
    /\ UNCHANGED <<book_roots, verse_accounts>>

\* Mutant: the adopter is part of the account's address.
VerseExistsPerAdopter(book, chapter, verse) == FALSE

\* The account of a verse is found by its address alone.
VerseExists(book, chapter, verse) ==
    \E a \in verse_accounts : a.book = book /\ a.chapter = chapter /\ a.verse = verse

\* Everything register_verse requires before it writes.
MayRegister(book, chapter, verse, text, proof) ==
    /\ config.exists
    /\ book \in Books
    /\ book_roots[book].exists
    /\ ~VerseExists(book, chapter, verse)
    /\ config.sealed
    /\ TextBytes[text] > 0
    /\ TextBytes[text] <= MAX_VERSE_BYTES
    /\ proof.length <= MAX_VERSE_PROOF
    /\ chapter_exists(book, chapter)
    /\ is_loaded(book_roots[book], chapter)
    /\ verify_proof(verse_leaf(book, chapter, verse, text), proof,
                    ChapterTree[book_roots[book].roots[chapter]])

RegisterVerse(adopter, book, chapter, verse, text, proof) ==
    /\ MayRegister(book, chapter, verse, text, proof)
    /\ verse_accounts' = verse_accounts \cup
         {[book |-> book, chapter |-> chapter, verse |-> verse, text |-> text, adopter |-> adopter]}
    /\ UNCHANGED <<config, book_roots>>

\* Callers choose every argument; a proof that opens nothing in the tree at
\* hand verifies for no leaf, so only the proofs of some tree are offered.
LoadAny ==
    \E book \in Books, chapter \in AnyChapter, root \in Roots, proof \in ROOTS_COMMITMENT :
        LoadChapterRoot(book, chapter, root, proof)

RegisterAny ==
    \E adopter \in Wallets, leaf \in VerseLeaf :
        \E proof \in UNION {ChapterTree[r] : r \in Roots} :
            RegisterVerse(adopter, leaf.book, leaf.chapter, leaf.verse, leaf.text, proof)

Next ==
    \/ InitializeConfig
    \/ \E book \in 0..BOOK_COUNT + 1 : InitializeBookRoots(book)
    \/ LoadAny
    \/ \E book \in Books : CompleteBook(book)
    \/ Seal
    \/ RegisterAny

Spec == Init /\ [][Next]_vars

-----------------------------------------------------------------------------
(* Properties *)

\* Every account holds values of its Rust type, and accounts refer to books
\* and chapters of the canon only.
TypeOK ==
    /\ config \in Config
    /\ DOMAIN book_roots = Books
    /\ \A b \in Books : book_roots[b] \in BookRoots(b)
    /\ verse_accounts \subseteq VerseAccount

\* BookRoots::loaded counts the chapters whose root is stored, each once,
\* however often a load is replayed and wherever its bit lies in the bitmap:
\* complete_book compares this counter, not the roots, with the book's size.
LoadedIsHonest ==
    \A b \in Books :
        /\ book_roots[b].loaded_mask \subseteq 0..chapters_in_book(b) - 1
        /\ book_roots[b].loaded = Cardinality(book_roots[b].loaded_mask)

\* A stored root is the one committed at exactly that address, sealed or not;
\* a root in another chapter's slot would make that chapter unregistrable
\* for ever, since nothing rewrites it after the seal.
RootsAreCommitted ==
    \A b \in Books : \A c \in ChaptersOf(b) :
        IF is_loaded(book_roots[b], c)
        THEN book_roots[b].roots[c] = CommittedRoot(b, c)
        ELSE book_roots[b].roots[c] = ZeroRoot

\* Config::books_complete counts the complete books, each once: seal compares
\* this counter, never the 66 accounts.
BooksCountedOnce ==
    config.books_complete = Cardinality({b \in Books : book_roots[b].completed})

\* Once the canon is sealed every chapter of every book is loaded; this is
\* what seal's single comparison has to imply.
SealedIsWhole ==
    config.sealed =>
        \A b \in Books : \A c \in ChaptersOf(b) :
            book_roots[b].exists /\ is_loaded(book_roots[b], c)

\* A verse account exists only under a sealed canon and holds the canonical
\* text of its address.
RegisteredIsCanonical ==
    \A a \in verse_accounts :
        config.sealed /\ verse_leaf(a.book, a.chapter, a.verse, a.text) \in Canon

\* No verse has two accounts, so the adopter of a verse is unique.
OneAccountPerVerse ==
    \A a, b \in verse_accounts :
        (a.book = b.book /\ a.chapter = b.chapter /\ a.verse = b.verse) => a = b

\* Sealing leaves no verse behind: each canonical verse is either registered
\* or passes every check of register_verse.  The program has no way to repair
\* a chapter that fails this.
NoVerseLeftBehind ==
    config.sealed =>
        \A q \in CanonProofs :
            \/ VerseExists(q.leaf.book, q.leaf.chapter, q.leaf.verse)
            \/ MayRegister(q.leaf.book, q.leaf.chapter, q.leaf.verse, q.leaf.text, q)

\* What one book's account satisfies between any two instructions.
BookInv(b, r) ==
    /\ r \in BookRoots(b)
    /\ r.loaded_mask \subseteq 0..chapters_in_book(b) - 1
    /\ r.loaded = Cardinality(r.loaded_mask)
    /\ \A c \in ChaptersOf(b) :
          r.roots[c] = IF is_loaded(r, c) THEN CommittedRoot(b, c) ELSE ZeroRoot
    /\ r.completed => r.exists /\ r.loaded = chapters_in_book(b)
    /\ ~r.exists => r = ZeroedRoots(b, FALSE)

\* The inductive invariant: the two counters together with what they stand
\* for.  Neither SealedIsWhole nor NoVerseLeftBehind is inductive alone: seal
\* compares a counter that complete_book derives from another counter.
BootstrapInv ==
    /\ TypeOK
    /\ \A b \in Books : BookInv(b, book_roots[b])
    /\ BooksCountedOnce
    /\ ~config.exists => ~config.sealed /\ config.books_complete = 0
    /\ config.sealed => config.books_complete = BOOK_COUNT
    /\ RegisteredIsCanonical

\* The program implements the abstract register: adoption opens with the seal
\* and the accounts are its entries.
Abstract == INSTANCE Registry WITH
    open <- config.sealed,
    adopted <- verse_accounts

ImplementsRegistry == Abstract!Spec

\* A sealed canon is final: config and the chapter roots never change again.
SealIsFinal == [][config.sealed => UNCHANGED <<config, book_roots>>]_vars
=============================================================================
