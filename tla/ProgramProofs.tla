---------------------------- MODULE ProgramProofs ---------------------------
(***************************************************************************)
(* Proofs about the on-chain program and the bootstrap script that sets it *)
(* up, for every canon, commitment tree, set of wallets, of operators, and *)
(* any number of loads in a batch, attempts and travelling transactions.   *)
(*                                                                         *)
(*   the program   one instruction touches one book, so BookInv is         *)
(*                 preserved book by book; the set of completed books      *)
(*                 grows by one exactly when books_complete does; hence    *)
(*                 the single comparison in seal implies that every book   *)
(*                 is full;                                                *)
(*   the script    what a run has confirmed, or read, stays true: accounts *)
(*                 are created, chapters loaded, books completed and the   *)
(*                 canon sealed once and for all, and every error taken    *)
(*                 for success says that its effect is there.  So each     *)
(*                 step starts with what it needs on chain already, and    *)
(*                 the last one ends with the seal.                        *)
(***************************************************************************)
EXTENDS Bootstrap, FiniteSetTheorems, TLAPS

\* Rounding up leaves room in the bitmap for the bit of every chapter.
LEMMA MaskHoldsEveryChapter ==
    ASSUME NEW n \in Nat, NEW i \in 0..n - 1, NEW k \in Nat \ {0}
    PROVE  i \div k < (n + k - 1) \div k
<1>1. (i \div k) \in Int /\ k * (i \div k) <= i
  BY Z3
<1>2. ((n + k - 1) \div k) \in Int /\ n + k - 1 < k * ((n + k - 1) \div k) + k
  BY Z3
<1>3. k * (i \div k) < k * ((n + k - 1) \div k)
  BY <1>1, <1>2, Z3
<1> QED BY <1>1, <1>2, <1>3, Z3

\* A bit of the bitmap is set by marking its chapter, and no other is.
LEMMA MarkLoadedAddsTheBit ==
    ASSUME NEW b \in Books, NEW mask \in SUBSET Nat, NEW c \in ChaptersOf(b)
    PROVE  MarkLoaded(b, mask, c) = mask \cup {c - 1}
<1>1. chapters_in_book(b) \in Nat
  BY ConstantsAssumption DEF chapters_in_book
<1>2. c - 1 \in 0..chapters_in_book(b) - 1
  BY <1>1 DEF ChaptersOf
<1>3. (c - 1) \div BYTE < mask_bytes(b)
  BY <1>1, <1>2, MaskHoldsEveryChapter, ConstantsAssumption DEF mask_bytes
<1> QED BY <1>3 DEF MarkLoaded

\* The commitment determines the root of every address it opens.
LEMMA CommitmentIsFunctional ==
    ASSUME NEW p \in ROOTS_COMMITMENT
    PROVE  /\ p.leaf.root = CommittedRoot(p.leaf.book, p.leaf.chapter)
           /\ p.leaf.root \in Roots
<1> DEFINE At(q) == q.leaf.book = p.leaf.book /\ q.leaf.chapter = p.leaf.chapter
           chosen == CHOOSE q \in ROOTS_COMMITMENT : At(q)
<1>1. chosen \in ROOTS_COMMITMENT /\ At(chosen)
  OBVIOUS
<1>2. chosen.leaf.root = p.leaf.root
  BY <1>1, CommitmentAssumption
<1>3. CommittedRoot(p.leaf.book, p.leaf.chapter) = chosen.leaf.root
  BY DEF CommittedRoot
<1>4. p.leaf.root \in Roots
  BY ConstantsAssumption DEF RootLeaf
<1> QED BY <1>2, <1>3, <1>4

\* The account init_book_roots creates satisfies its invariant.
LEMMA ZeroedBookInv ==
    ASSUME NEW b \in Books, NEW e \in BOOLEAN
    PROVE  BookInv(b, ZeroedRoots(b, e))
<1> DEFINE r == ZeroedRoots(b, e)
<1>1. r = [exists |-> e, loaded |-> 0, completed |-> FALSE, loaded_mask |-> {},
           roots |-> [c \in ChaptersOf(b) |-> ZeroRoot]]
  BY DEF ZeroedRoots
<1>2. r \in BookRoots(b)
  BY <1>1 DEF BookRoots
<1>3. r.loaded = Cardinality(r.loaded_mask)
  BY <1>1, FS_EmptySet
<1>4. ~r.exists => r = ZeroedRoots(b, FALSE)
  BY <1>1 DEF ZeroedRoots
<1>5. r.loaded_mask = {} /\ ~r.completed
  BY <1>1
<1>6. \A c \in ChaptersOf(b) :
         r.roots[c] = IF is_loaded(r, c) THEN CommittedRoot(b, c) ELSE ZeroRoot
  BY <1>1 DEF is_loaded
<1>7. r.loaded_mask \subseteq 0..chapters_in_book(b) - 1
  BY <1>5
<1>8. r.completed => r.exists /\ r.loaded = chapters_in_book(b)
  BY <1>5
<1> QED BY <1>2, <1>3, <1>4, <1>6, <1>7, <1>8 DEF BookInv

\* In a complete book every chapter is loaded: the counter equals the number
\* of bits, and the bits are those of the book's chapters.
LEMMA FullBookIsLoaded ==
    ASSUME NEW b \in Books, NEW r, BookInv(b, r), r.loaded = chapters_in_book(b)
    PROVE  \A c \in ChaptersOf(b) : is_loaded(r, c)
<1> DEFINE n == chapters_in_book(b)
<1>1. n \in Nat
  BY ConstantsAssumption DEF chapters_in_book
<1>2. r.loaded_mask \in SUBSET (0..n - 1) /\ Cardinality(r.loaded_mask) = n
  BY DEF BookInv
<1>3. IsFiniteSet(0..n - 1) /\ Cardinality(0..n - 1) = n
  BY <1>1, FS_Interval
<1>4. r.loaded_mask = 0..n - 1
  BY <1>2, <1>3, FS_Subset
<1> QED BY <1>1, <1>4 DEF ChaptersOf, is_loaded

\* Loading a committed root keeps the book's invariant, whether the chapter
\* was loaded before or not.
LEMMA LoadKeepsBookInv ==
    ASSUME NEW b \in Books, NEW r, BookInv(b, r), r.exists,
           NEW c \in ChaptersOf(b), NEW root \in Roots, root = CommittedRoot(b, c)
    PROVE  BookInv(b, WithChapterRoot(b, r, c, root))
<1> DEFINE n == chapters_in_book(b)
           r2 == WithChapterRoot(b, r, c, root)
<1>1. n \in Nat /\ c \in 1..n
  BY ConstantsAssumption DEF chapters_in_book, ChaptersOf
<1>2. r \in BookRoots(b) /\ r.loaded_mask \subseteq 0..n - 1
  BY DEF BookInv
<1>3. IsFiniteSet(r.loaded_mask)
  <2>1. IsFiniteSet(0..n - 1)
    BY <1>1, FS_Interval
  <2>2. r.loaded_mask \in SUBSET (0..n - 1)
    BY <1>2
  <2> QED BY <2>1, <2>2, FS_Subset
<1>4. r2 = [exists |-> TRUE,
            loaded |-> IF is_loaded(r, c) THEN r.loaded ELSE r.loaded + 1,
            completed |-> r.completed,
            loaded_mask |-> r.loaded_mask \cup {c - 1},
            roots |-> [r.roots EXCEPT ![c] = root]]
  BY <1>2, MarkLoadedAddsTheBit DEF WithChapterRoot, BookRoots
<1>5. r2 \in BookRoots(b)
  BY <1>1, <1>2, <1>4 DEF BookRoots
<1>6. r2.loaded_mask \subseteq 0..n - 1
  BY <1>1, <1>2, <1>4
<1>7. r2.loaded = Cardinality(r2.loaded_mask)
  <2>1. r.loaded = Cardinality(r.loaded_mask)
    BY DEF BookInv
  <2>2. Cardinality(r.loaded_mask \cup {c - 1}) =
          IF c - 1 \in r.loaded_mask THEN Cardinality(r.loaded_mask)
          ELSE Cardinality(r.loaded_mask) + 1
    BY <1>3, FS_AddElement
  <2>3. r2.loaded = (IF is_loaded(r, c) THEN r.loaded ELSE r.loaded + 1)
        /\ r2.loaded_mask = r.loaded_mask \cup {c - 1}
    BY <1>4
  <2> HIDE DEF r2
  <2> QED BY <2>1, <2>2, <2>3 DEF is_loaded
<1>8. ASSUME NEW d \in ChaptersOf(b)
      PROVE  r2.roots[d] = IF is_loaded(r2, d) THEN CommittedRoot(b, d) ELSE ZeroRoot
  <2>1. CASE d = c
    BY <1>2, <1>4, <2>1 DEF BookRoots, is_loaded
  <2>2. CASE d # c
    <3>1. r2.roots[d] = r.roots[d]
      BY <1>2, <1>4, <2>2 DEF BookRoots
    <3>2. is_loaded(r2, d) <=> is_loaded(r, d)
      BY <1>1, <1>4, <2>2 DEF is_loaded, ChaptersOf
    <3> QED BY <3>1, <3>2 DEF BookInv
  <2> QED BY <2>1, <2>2
<1>9. r2.completed => r2.exists /\ r2.loaded = n
  <2>1. SUFFICES ASSUME r.completed PROVE r2.loaded = n
    BY <1>4
  <2>2. r.loaded = n
    BY <2>1 DEF BookInv
  <2>3. is_loaded(r, c)
    BY <2>2, FullBookIsLoaded
  <2> QED BY <1>4, <2>2, <2>3
<1>10. r2.exists
  BY <1>4
<1> QED BY <1>5, <1>6, <1>7, <1>8, <1>9, <1>10 DEF BookInv

-----------------------------------------------------------------------------
(* The inductive invariant *)

\* The set books_complete counts; finite because the canon has BOOK_COUNT books.
CompletedBooks == {b \in Books : book_roots[b].completed}

\* The canon has as many books as BOOK_COUNT says; seal compares with it.
LEMMA BooksFinite ==
    /\ IsFiniteSet(Books)
    /\ Cardinality(Books) = BOOK_COUNT
BY ConstantsAssumption, FS_Interval DEF Books

\* Before the first transaction no account exists.
LEMMA InitBootstrapInv == Init => BootstrapInv
<1> SUFFICES ASSUME Init PROVE BootstrapInv
  OBVIOUS
<1>1. \A b \in Books : BookInv(b, book_roots[b])
  BY ZeroedBookInv DEF Init
<1>2. {b \in Books : book_roots[b].completed} = {}
  BY DEF Init, ZeroedRoots
<1>3. BooksCountedOnce
  BY <1>2, FS_EmptySet DEF BooksCountedOnce, Init
<1>4. TypeOK
  <2>1. \A b \in Books : book_roots[b] \in BookRoots(b)
    BY <1>1 DEF BookInv
  <2> QED BY <2>1 DEF TypeOK, Init, Config
<1> QED BY <1>1, <1>3, <1>4 DEF BootstrapInv, Init, RegisteredIsCanonical

\* initialize_config writes the values an absent config is counted with.
LEMMA InitializeConfigKeeps ==
    ASSUME BootstrapInv, InitializeConfig
    PROVE  BootstrapInv'
<1>1. config' = [exists |-> TRUE, books_complete |-> 0, sealed |-> FALSE]
      /\ UNCHANGED <<book_roots, verse_accounts>>
  BY DEF InitializeConfig
<1>2. config.books_complete = 0 /\ ~config.sealed
  BY DEF BootstrapInv, InitializeConfig
<1>3. TypeOK'
  BY <1>1 DEF BootstrapInv, TypeOK, Config
<1>4. BooksCountedOnce'
  BY <1>1, <1>2 DEF BootstrapInv, BooksCountedOnce
<1>5. RegisteredIsCanonical'
  BY <1>1, <1>2 DEF BootstrapInv, RegisteredIsCanonical
<1>6. \A b \in Books : BookInv(b, book_roots'[b])
  BY <1>1 DEF BootstrapInv
<1> QED BY <1>1, <1>3, <1>4, <1>5, <1>6 DEF BootstrapInv

\* A change of one book's account that keeps its invariant and its completed
\* flag keeps everything else too.
LEMMA BookUpdateKeeps ==
    ASSUME BootstrapInv, NEW b \in Books, NEW r, BookInv(b, r),
           r.completed = book_roots[b].completed,
           book_roots' = [book_roots EXCEPT ![b] = r],
           UNCHANGED <<config, verse_accounts>>
    PROVE  BootstrapInv'
<1>1. DOMAIN book_roots = Books
  BY DEF BootstrapInv, TypeOK
<1>2. \A d \in Books : BookInv(d, book_roots'[d])
  BY <1>1 DEF BootstrapInv
<1>3. \A d \in Books : book_roots'[d].completed = book_roots[d].completed
  BY <1>1
<1>4. BooksCountedOnce'
  BY <1>3 DEF BootstrapInv, BooksCountedOnce
<1>5. TypeOK'
  BY <1>1, <1>2 DEF BootstrapInv, TypeOK, BookInv
<1>6. RegisteredIsCanonical'
  BY DEF BootstrapInv, RegisteredIsCanonical
<1> QED BY <1>2, <1>4, <1>5, <1>6 DEF BootstrapInv

\* initialize_book_roots creates an empty book.
LEMMA InitializeBookRootsKeeps ==
    ASSUME BootstrapInv, NEW b \in 0..BOOK_COUNT + 1, InitializeBookRoots(b)
    PROVE  BootstrapInv'
<1>1. b \in Books
  BY ConstantsAssumption DEF InitializeBookRoots, Books
<1>2. book_roots[b] = ZeroedRoots(b, FALSE)
  BY <1>1 DEF BootstrapInv, BookInv, InitializeBookRoots
<1>3. ZeroedRoots(b, TRUE).completed = book_roots[b].completed
  BY <1>2 DEF ZeroedRoots
<1> QED BY <1>1, <1>3, ZeroedBookInv, BookUpdateKeeps DEF InitializeBookRoots

\* load_chapter_root stores a committed root, and counts its chapter once.
LEMMA LoadChapterRootKeeps ==
    ASSUME BootstrapInv, NEW b \in Books, NEW c \in AnyChapter, NEW root \in Roots,
           NEW proof \in ROOTS_COMMITMENT, LoadChapterRoot(b, c, root, proof)
    PROVE  BootstrapInv'
<1> DEFINE r == WithChapterRoot(b, book_roots[b], c, root)
<1>1. BookInv(b, book_roots[b]) /\ book_roots[b].exists
  BY DEF BootstrapInv, LoadChapterRoot
<1>2. chapters_in_book(b) \in Nat /\ AnyChapter \subseteq Nat
  BY ConstantsAssumption DEF chapters_in_book, AnyChapter, ChaptersOf
<1>3. c \in ChaptersOf(b)
  BY <1>2 DEF LoadChapterRoot, chapter_exists, ChaptersOf
<1>4. root = CommittedRoot(b, c)
  BY CommitmentIsFunctional DEF LoadChapterRoot, verify_proof, commitment_leaf
<1>5. BookInv(b, r)
  BY <1>1, <1>3, <1>4, LoadKeepsBookInv
<1>6. r.completed = book_roots[b].completed
  BY DEF WithChapterRoot
<1>7. book_roots' = [book_roots EXCEPT ![b] = r] /\ UNCHANGED <<config, verse_accounts>>
  BY DEF LoadChapterRoot
<1> HIDE DEF r
<1> QED BY <1>5, <1>6, <1>7, BookUpdateKeeps

\* complete_book adds one book to both sides of the count, whatever else is
\* complete: the flag it checks keeps the book from being counted again.
LEMMA CompleteBookKeeps ==
    ASSUME BootstrapInv, NEW b \in Books, CompleteBook(b)
    PROVE  BootstrapInv'
<1> DEFINE r == [book_roots[b] EXCEPT !.completed = TRUE]
<1>1. /\ BookInv(b, book_roots[b])
      /\ DOMAIN book_roots = Books
      /\ config \in Config
  BY DEF BootstrapInv, TypeOK
<1>2. /\ book_roots[b].exists
      /\ book_roots[b].loaded = chapters_in_book(b)
      /\ ~book_roots[b].completed
      /\ config.exists /\ ~config.sealed
      /\ book_roots' = [book_roots EXCEPT ![b].completed = TRUE]
      /\ config' = [config EXCEPT !.books_complete = @ + 1]
      /\ verse_accounts' = verse_accounts
  BY DEF CompleteBook
<1>3. book_roots[b] \in BookRoots(b)
  BY <1>1 DEF BookInv
<1>4. /\ book_roots'[b] \in BookRoots(b)
      /\ book_roots'[b].exists = book_roots[b].exists
      /\ book_roots'[b].loaded = book_roots[b].loaded
      /\ book_roots'[b].completed = TRUE
      /\ book_roots'[b].loaded_mask = book_roots[b].loaded_mask
      /\ book_roots'[b].roots = book_roots[b].roots
  BY <1>1, <1>2, <1>3 DEF BookRoots
<1>5. BookInv(b, book_roots'[b])
  BY <1>1, <1>2, <1>4 DEF BookInv, is_loaded
<1>6. DOMAIN book_roots' = Books /\ \A d \in Books \ {b} : book_roots'[d] = book_roots[d]
  BY <1>1, <1>2
<1>7. \A d \in Books : BookInv(d, book_roots'[d])
  BY <1>5, <1>6 DEF BootstrapInv
<1>8. /\ config' \in Config
      /\ config'.books_complete = config.books_complete + 1
      /\ config'.exists = config.exists
      /\ config'.sealed = config.sealed
  <2>1. /\ config = [exists |-> config.exists, books_complete |-> config.books_complete,
                     sealed |-> config.sealed]
        /\ config.exists \in BOOLEAN /\ config.sealed \in BOOLEAN /\ config.books_complete \in Nat
    BY <1>1 DEF Config
  <2>2. config' = [exists |-> config.exists, books_complete |-> config.books_complete + 1,
                   sealed |-> config.sealed]
    BY <1>2, <2>1
  <2>3. config.books_complete + 1 \in Nat
    BY <2>1
  <2> QED BY <2>1, <2>2, <2>3 DEF Config
<1>9. BooksCountedOnce'
  <2>1. CompletedBooks' = CompletedBooks \cup {b}
    BY <1>4, <1>6 DEF CompletedBooks
  <2>2. b \notin CompletedBooks /\ IsFiniteSet(CompletedBooks)
    BY <1>2, BooksFinite, FS_Subset DEF CompletedBooks
  <2>3. Cardinality(CompletedBooks') = Cardinality(CompletedBooks) + 1
    BY <2>1, <2>2, FS_AddElement
  <2> QED BY <1>8, <2>3 DEF BootstrapInv, BooksCountedOnce, CompletedBooks
<1>10. TypeOK'
  BY <1>2, <1>6, <1>7, <1>8 DEF BootstrapInv, TypeOK, BookInv
<1>11. RegisteredIsCanonical'
  BY <1>2, <1>8 DEF BootstrapInv, RegisteredIsCanonical
<1> QED BY <1>2, <1>7, <1>8, <1>9, <1>10, <1>11 DEF BootstrapInv

\* seal records that the count has reached the size of the canon.
LEMMA SealKeeps ==
    ASSUME BootstrapInv, Seal
    PROVE  BootstrapInv'
<1>1. config \in Config /\ config' = [config EXCEPT !.sealed = TRUE]
      /\ UNCHANGED <<book_roots, verse_accounts>>
      /\ config.books_complete = BOOK_COUNT /\ config.exists
  BY DEF BootstrapInv, TypeOK, Seal
<1>2. config' \in Config /\ config'.books_complete = BOOK_COUNT
      /\ config'.exists /\ config'.sealed
  BY <1>1 DEF Config
<1>3. TypeOK'
  BY <1>1, <1>2 DEF BootstrapInv, TypeOK
<1>4. BooksCountedOnce'
  BY <1>1, <1>2 DEF BootstrapInv, BooksCountedOnce
<1>5. RegisteredIsCanonical'
  BY <1>1, <1>2 DEF BootstrapInv, RegisteredIsCanonical
<1>6. \A b \in Books : BookInv(b, book_roots'[b])
  BY <1>1 DEF BootstrapInv
<1> QED BY <1>2, <1>3, <1>4, <1>5, <1>6 DEF BootstrapInv

\* What register_verse accepts is a leaf of the canon: the chapter is loaded,
\* hence its stored root is the committed one, hence the proof is canonical.
LEMMA AcceptedIsCanonical ==
    ASSUME BootstrapInv, NEW b, NEW c \in Nat, NEW v, NEW t, NEW proof,
           MayRegister(b, c, v, t, proof)
    PROVE  /\ b \in Books /\ c \in ChaptersOf(b)
           /\ proof \in CanonProofs /\ proof.leaf = verse_leaf(b, c, v, t)
           /\ verse_leaf(b, c, v, t) \in Canon
<1> DEFINE root == book_roots[b].roots[c]
<1>1. b \in Books /\ c >= 1 /\ c <= chapters_in_book(b) /\ is_loaded(book_roots[b], c)
  BY DEF MayRegister, chapter_exists
<1>2. c \in ChaptersOf(b)
  BY <1>1, ConstantsAssumption DEF chapters_in_book, ChaptersOf
<1>3. root = CommittedRoot(b, c)
  BY <1>1, <1>2 DEF BootstrapInv, BookInv
<1>4. PICK p \in ROOTS_COMMITMENT : p.leaf.book = b /\ p.leaf.chapter = c
  BY <1>1, <1>2, CommitmentAssumption
<1>5. p.leaf.root = root
  BY <1>3, <1>4, CommitmentIsFunctional
<1>6. proof \in ChapterTree[root] /\ proof.leaf = verse_leaf(b, c, v, t)
  BY DEF MayRegister, verify_proof
<1>7. proof.leaf.book = b /\ proof.leaf.chapter = c
  BY <1>6 DEF verse_leaf
<1>8. proof \in CanonProofs
  BY <1>3, <1>4, <1>5, <1>6, <1>7 DEF CanonProofs
<1> QED BY <1>1, <1>2, <1>6, <1>8 DEF Canon

\* What a successful registration does: one new account, at a free address,
\* with the canonical text of that address.
LEMMA RegistrationAddsOneAccount ==
    ASSUME BootstrapInv, RegisterAny
    PROVE  \E w \in Wallets, leaf \in Canon :
              /\ leaf \in VerseLeaf
              /\ leaf.chapter \in ChaptersOf(leaf.book)
              /\ config.sealed
              /\ ~VerseExists(leaf.book, leaf.chapter, leaf.verse)
              /\ verse_accounts' = verse_accounts \cup
                   {[book |-> leaf.book, chapter |-> leaf.chapter, verse |-> leaf.verse,
                     text |-> leaf.text, adopter |-> w]}
              /\ UNCHANGED <<config, book_roots>>
<1>1. PICK w \in Wallets, leaf \in VerseLeaf :
         \E proof \in UNION {ChapterTree[r] : r \in Roots} :
            RegisterVerse(w, leaf.book, leaf.chapter, leaf.verse, leaf.text, proof)
  BY DEF RegisterAny
<1>2. PICK proof \in UNION {ChapterTree[r] : r \in Roots} :
         RegisterVerse(w, leaf.book, leaf.chapter, leaf.verse, leaf.text, proof)
  BY <1>1
<1>3. leaf.chapter \in Nat
  BY ConstantsAssumption DEF VerseLeaf, AnyChapter, ChaptersOf, chapters_in_book
<1>4. leaf = verse_leaf(leaf.book, leaf.chapter, leaf.verse, leaf.text)
  BY DEF VerseLeaf, verse_leaf
<1>5. MayRegister(leaf.book, leaf.chapter, leaf.verse, leaf.text, proof)
  BY <1>2 DEF RegisterVerse
<1>6. leaf \in Canon /\ leaf.chapter \in ChaptersOf(leaf.book)
  <2>1. /\ leaf.chapter \in ChaptersOf(leaf.book)
        /\ verse_leaf(leaf.book, leaf.chapter, leaf.verse, leaf.text) \in Canon
    BY <1>3, <1>5, AcceptedIsCanonical
  <2> QED BY <1>4, <2>1
<1>7. config.sealed /\ ~VerseExists(leaf.book, leaf.chapter, leaf.verse)
  BY <1>5 DEF MayRegister
<1> QED BY <1>2, <1>6, <1>7 DEF RegisterVerse

\* register_verse adds a canonical account and leaves the roots alone.
LEMMA RegisterVerseKeeps ==
    ASSUME BootstrapInv, RegisterAny
    PROVE  BootstrapInv'
<1>1. PICK w \in Wallets, leaf \in Canon :
         /\ leaf \in VerseLeaf
         /\ config.sealed
         /\ verse_accounts' = verse_accounts \cup
              {[book |-> leaf.book, chapter |-> leaf.chapter, verse |-> leaf.verse,
                text |-> leaf.text, adopter |-> w]}
         /\ UNCHANGED <<config, book_roots>>
  BY RegistrationAddsOneAccount
<1> DEFINE new == [book |-> leaf.book, chapter |-> leaf.chapter, verse |-> leaf.verse,
                   text |-> leaf.text, adopter |-> w]
<1>2. new \in VerseAccount
  BY <1>1 DEF VerseLeaf, VerseAccount
<1>3. verse_leaf(new.book, new.chapter, new.verse, new.text) \in Canon
  <2>1. verse_leaf(new.book, new.chapter, new.verse, new.text) = leaf
    BY <1>1 DEF verse_leaf, VerseLeaf
  <2> QED BY <2>1
<1>4. verse_accounts' = verse_accounts \cup {new} /\ UNCHANGED <<config, book_roots>>
  BY <1>1
<1> HIDE DEF new
<1>5. TypeOK'
  BY <1>2, <1>4 DEF BootstrapInv, TypeOK
<1>6. RegisteredIsCanonical'
  BY <1>1, <1>3, <1>4 DEF BootstrapInv, RegisteredIsCanonical
<1>7. BooksCountedOnce' /\ \A b \in Books : BookInv(b, book_roots'[b])
  BY <1>4 DEF BootstrapInv, BooksCountedOnce
<1> QED BY <1>4, <1>5, <1>6, <1>7 DEF BootstrapInv

\* A failed transaction changes no account.
LEMMA StutterKeeps ==
    ASSUME BootstrapInv, UNCHANGED vars
    PROVE  BootstrapInv'
BY DEF vars, BootstrapInv, TypeOK, BooksCountedOnce, RegisteredIsCanonical

\* No instruction breaks the inductive invariant.
LEMMA NextKeeps == BootstrapInv /\ [Next]_vars => BootstrapInv'
<1> SUFFICES ASSUME BootstrapInv, [Next]_vars PROVE BootstrapInv'
  OBVIOUS
<1>1. CASE InitializeConfig
  BY <1>1, InitializeConfigKeeps
<1>2. CASE \E b \in 0..BOOK_COUNT + 1 : InitializeBookRoots(b)
  BY <1>2, InitializeBookRootsKeeps
<1>3. CASE LoadAny
  BY <1>3, LoadChapterRootKeeps DEF LoadAny
<1>4. CASE \E b \in Books : CompleteBook(b)
  BY <1>4, CompleteBookKeeps
<1>5. CASE Seal
  BY <1>5, SealKeeps
<1>6. CASE RegisterAny
  BY <1>6, RegisterVerseKeeps
<1>7. CASE UNCHANGED vars
  BY <1>7, StutterKeeps
<1> QED BY <1>1, <1>2, <1>3, <1>4, <1>5, <1>6, <1>7 DEF Next

\* The inductive invariant holds of every reachable state of the program.
THEOREM BootstrapInvariant == Spec => []BootstrapInv
<1>1. Init => BootstrapInv
  BY InitBootstrapInv
<1>2. BootstrapInv /\ [Next]_vars => BootstrapInv'
  BY NextKeeps
<1> QED BY <1>1, <1>2, PTL DEF Spec

-----------------------------------------------------------------------------
(* What it implies *)

\* The counter that seal compares stands for every chapter of every book.
LEMMA SealedMeansWhole == BootstrapInv => SealedIsWhole
<1> SUFFICES ASSUME BootstrapInv, config.sealed, NEW b \in Books
             PROVE  book_roots[b].exists /\ \A c \in ChaptersOf(b) : is_loaded(book_roots[b], c)
  BY DEF SealedIsWhole
<1>1. CompletedBooks \in SUBSET Books
  BY DEF CompletedBooks
<1>2. Cardinality(CompletedBooks) = BOOK_COUNT
  BY DEF BootstrapInv, BooksCountedOnce, CompletedBooks
<1>3. CompletedBooks = Books
  BY <1>1, <1>2, BooksFinite, FS_Subset
<1>4. book_roots[b].completed /\ BookInv(b, book_roots[b])
  BY <1>3 DEF CompletedBooks, BootstrapInv
<1>5. book_roots[b].exists /\ book_roots[b].loaded = chapters_in_book(b)
  BY <1>4 DEF BookInv
<1> QED BY <1>4, <1>5, FullBookIsLoaded

\* In a whole canon each check of register_verse is met by each canonical proof.
LEMMA EveryVerseRegistrable == BootstrapInv => NoVerseLeftBehind
<1> SUFFICES ASSUME BootstrapInv, config.sealed, NEW q \in CanonProofs,
                    ~VerseExists(q.leaf.book, q.leaf.chapter, q.leaf.verse)
             PROVE  MayRegister(q.leaf.book, q.leaf.chapter, q.leaf.verse, q.leaf.text, q)
  BY DEF NoVerseLeftBehind
<1> DEFINE b == q.leaf.book
           c == q.leaf.chapter
<1>1. q.leaf \in VerseLeaf
  BY ConstantsAssumption DEF CanonProofs, RootLeaf
<1>2. b \in Books /\ q.leaf = verse_leaf(b, c, q.leaf.verse, q.leaf.text)
  BY <1>1 DEF VerseLeaf, verse_leaf
<1>3. c \in ChaptersOf(b) /\ q.length <= MAX_VERSE_PROOF
      /\ TextBytes[q.leaf.text] \in 1..MAX_VERSE_BYTES
  BY CanonAssumption
<1>4. chapters_in_book(b) \in Nat
  BY <1>2, ConstantsAssumption DEF chapters_in_book
<1>5. chapter_exists(b, c)
  BY <1>3, <1>4 DEF ChaptersOf, chapter_exists
<1>6. book_roots[b].exists /\ is_loaded(book_roots[b], c)
  BY <1>2, <1>3, SealedMeansWhole DEF SealedIsWhole
<1>7. book_roots[b].roots[c] = CommittedRoot(b, c)
  BY <1>2, <1>3, <1>6 DEF BootstrapInv, BookInv
<1>8. q \in ChapterTree[CommittedRoot(b, c)]
  BY DEF CanonProofs
<1>9. verify_proof(verse_leaf(b, c, q.leaf.verse, q.leaf.text), q,
                   ChapterTree[book_roots[b].roots[c]])
  BY <1>2, <1>7, <1>8 DEF verify_proof
<1>10. config.exists
  BY DEF BootstrapInv
<1>11. TextBytes[q.leaf.text] > 0 /\ TextBytes[q.leaf.text] <= MAX_VERSE_BYTES
  BY <1>3, ConstantsAssumption
<1> QED BY <1>2, <1>3, <1>5, <1>6, <1>9, <1>10, <1>11 DEF MayRegister

\* Every account is well formed in every reachable state.
THEOREM TypeCorrect == Spec => []TypeOK
<1>1. BootstrapInv => TypeOK
  BY DEF BootstrapInv
<1> QED BY <1>1, BootstrapInvariant, PTL

\* loaded counts the chapters whose root is stored, for any replay of loads.
THEOREM LoadedCountsChapters == Spec => []LoadedIsHonest
<1>1. BootstrapInv => LoadedIsHonest
  BY DEF BootstrapInv, BookInv, LoadedIsHonest
<1> QED BY <1>1, BootstrapInvariant, PTL

\* No instruction can put a root anywhere but at its committed address.
THEOREM OnlyCommittedRoots == Spec => []RootsAreCommitted
<1>1. BootstrapInv => RootsAreCommitted
  BY DEF BootstrapInv, BookInv, RootsAreCommitted
<1> QED BY <1>1, BootstrapInvariant, PTL

\* books_complete counts each complete book once, in any order of completion.
THEOREM CompleteBooksAreCounted == Spec => []BooksCountedOnce
<1>1. BootstrapInv => BooksCountedOnce
  BY DEF BootstrapInv
<1> QED BY <1>1, BootstrapInvariant, PTL

\* A sealed canon lacks no chapter: the comparison in seal is sufficient.
THEOREM SealedCanonIsWhole == Spec => []SealedIsWhole
BY SealedMeansWhole, BootstrapInvariant, PTL

\* Every account holds canonical text and was created under the seal.
THEOREM OnlyCanonicalText == Spec => []RegisteredIsCanonical
<1>1. BootstrapInv => RegisteredIsCanonical
  BY DEF BootstrapInv
<1> QED BY <1>1, BootstrapInvariant, PTL

\* After the seal every canonical verse is registered or can be.
THEOREM EveryVerseStaysRegistrable == Spec => []NoVerseLeftBehind
BY EveryVerseRegistrable, BootstrapInvariant, PTL

\* No verse ever has two accounts.
THEOREM UniqueAdopter == Spec => []OneAccountPerVerse
<1>1. Init => OneAccountPerVerse
  BY DEF Init, OneAccountPerVerse
<1>2. ASSUME BootstrapInv, OneAccountPerVerse, [Next]_vars
      PROVE  OneAccountPerVerse'
  <2>1. CASE RegisterAny
    <3>1. PICK w \in Wallets, leaf \in Canon :
            /\ ~VerseExists(leaf.book, leaf.chapter, leaf.verse)
            /\ verse_accounts' = verse_accounts \cup
                 {[book |-> leaf.book, chapter |-> leaf.chapter, verse |-> leaf.verse,
                   text |-> leaf.text, adopter |-> w]}
      BY <1>2, <2>1, RegistrationAddsOneAccount
    <3> QED BY <1>2, <3>1 DEF OneAccountPerVerse, VerseExists
  <2>2. CASE UNCHANGED verse_accounts
    BY <1>2, <2>2 DEF OneAccountPerVerse
  <2> QED BY <1>2, <2>1, <2>2 DEF Next, vars, InitializeConfig, InitializeBookRoots,
             LoadAny, LoadChapterRoot, CompleteBook, Seal
<1> QED BY <1>1, <1>2, BootstrapInvariant, PTL DEF Spec

\* Nothing writes config or a chapter root once the canon is sealed.
THEOREM SealedForEver == Spec => SealIsFinal
<1>1. ASSUME BootstrapInv, [Next]_vars, config.sealed
      PROVE  UNCHANGED <<config, book_roots>>
  <2>1. config.exists
    BY <1>1 DEF BootstrapInv
  <2> QED BY <1>1, <2>1 DEF Next, vars, InitializeConfig, InitializeBookRoots, LoadAny,
             LoadChapterRoot, CompleteBook, Seal, RegisterAny, RegisterVerse
<1>2. BootstrapInv /\ [Next]_vars => [config.sealed => UNCHANGED <<config, book_roots>>]_vars
  BY <1>1
<1> QED BY <1>2, BootstrapInvariant, PTL DEF Spec, SealIsFinal

\* The program implements the write-once register of canonical verses.
THEOREM ProgramImplementsRegistry == Spec => ImplementsRegistry
<1>1. Init => Abstract!Init
  BY DEF Init, Abstract!Init
<1>2. ASSUME BootstrapInv, [Next]_vars
      PROVE  [Abstract!Next]_(Abstract!vars)
  <2>1. CASE Seal
    <3>1. config \in Config
      BY <1>2 DEF BootstrapInv, TypeOK
    <3>2. ~config.sealed /\ config'.sealed = TRUE /\ UNCHANGED verse_accounts
      BY <2>1, <3>1 DEF Seal, Config
    <3> QED BY <3>2 DEF Abstract!Next, Abstract!Open
  <2>2. CASE RegisterAny
    <3>1. PICK w \in Wallets, leaf \in Canon :
            /\ config.sealed
            /\ ~VerseExists(leaf.book, leaf.chapter, leaf.verse)
            /\ verse_accounts' = verse_accounts \cup
                 {[book |-> leaf.book, chapter |-> leaf.chapter, verse |-> leaf.verse,
                   text |-> leaf.text, adopter |-> w]}
            /\ UNCHANGED <<config, book_roots>>
      BY <1>2, <2>2, RegistrationAddsOneAccount
    <3>2. Abstract!Adopt(w, leaf)
      BY <3>1 DEF Abstract!Adopt, Abstract!SameVerse, VerseExists
    <3> QED BY <3>2 DEF Abstract!Next
  <2>3. CASE UNCHANGED <<config.sealed, verse_accounts>>
    BY <2>3 DEF Abstract!vars
  <2>4. ASSUME InitializeConfig \/ (\E b \in Books : CompleteBook(b))
        PROVE  UNCHANGED <<config.sealed, verse_accounts>>
    <3>1. CASE InitializeConfig
      BY <1>2, <3>1 DEF InitializeConfig, BootstrapInv, TypeOK, Config
    <3>2. CASE \E b \in Books : CompleteBook(b)
      <4>1. config \in Config
        BY <1>2 DEF BootstrapInv, TypeOK
      <4>2. config' = [config EXCEPT !.books_complete = @ + 1] /\ UNCHANGED verse_accounts
        BY <3>2 DEF CompleteBook
      <4>3. DOMAIN config = {"exists", "books_complete", "sealed"}
        BY <4>1 DEF Config
      <4>4. config'.sealed = config.sealed
        BY <4>2, <4>3
      <4> QED BY <4>2, <4>4
    <3> QED BY <2>4, <3>1, <3>2
  <2>5. ASSUME \/ \E b \in 0..BOOK_COUNT + 1 : InitializeBookRoots(b)
               \/ LoadAny
               \/ UNCHANGED vars
        PROVE  UNCHANGED <<config.sealed, verse_accounts>>
    BY <2>5 DEF InitializeBookRoots, LoadAny, LoadChapterRoot, vars
  <2> QED BY <1>2, <2>1, <2>2, <2>3, <2>4, <2>5 DEF Next
<1> QED BY <1>1, <1>2, BootstrapInvariant, PTL DEF Spec, ImplementsRegistry, Abstract!Spec

-----------------------------------------------------------------------------
(* The script: types *)

Labels == Sending \cup {"start", "fetch", "next", "done", "thrown"}

AboutABook == {"fetch", "initBook", "load", "complete", "next"}

Snapshots == [chapters : SUBSET Nat, completed : BOOLEAN]

\* The errors a run may meet: none that says it came too early.
Errors == {"none", "InUse", "network", "timeout"}

ScriptTypes ==
    /\ pc \in [Operators -> Labels]
    /\ book \in [Operators -> Nat]
    /\ seen \in [Operators -> Snapshots]
    /\ todo \in [Operators -> SUBSET Nat]
    /\ attempt \in [Operators -> Nat]
    /\ sent \in [Operators -> {"no", "waiting", "settled"}]
    /\ error \in [Operators -> Errors]
    /\ \A o \in Operators : sent[o] # "no" => pc[o] \in Sending

\* A transaction names a book of the canon, and chapters of that book.
FlightTypes ==
    \A tx \in flight :
        /\ tx.kind \in Sending
        /\ tx.kind \in {"initBook", "load", "complete"} => tx.book \in Books
        /\ tx.chapters \subseteq ChaptersOf(tx.book)

Loaded(b, chapters) == \A c \in chapters : is_loaded(book_roots[b], c)

AllComplete == \A b \in Books : book_roots[b].completed

\* What a transaction is sent for.
Effect(kind, b, chapters) ==
    /\ kind = "initConfig" => config.exists
    /\ kind = "initBook" => book_roots[b].exists
    /\ kind = "load" => Loaded(b, chapters)
    /\ kind = "complete" => book_roots[b].completed
    /\ kind = "seal" => config.sealed

\* What is on chain already when a run is at a label.
StageAt(label, b, snapshot, pending) ==
    /\ label \in AboutABook \cup {"seal"} => config.exists
    /\ label \in AboutABook => b \in Books /\ \A d \in Books : d < b => book_roots[d].completed
    /\ label \in {"initBook", "load"} => pending \subseteq ChaptersOf(b)
    /\ label \in {"initBook", "load", "complete"} =>
         /\ Loaded(b, ChaptersOf(b) \ pending)
         /\ snapshot.completed => book_roots[b].completed
    /\ label \in {"load", "complete"} => book_roots[b].exists
    /\ label = "complete" => pending = {}
    /\ label = "next" => book_roots[b].completed
    /\ label = "seal" => AllComplete
    /\ label = "done" => config.sealed

Stage(o) == StageAt(pc[o], book[o], seen[o], todo[o])

\* A transaction that settled has its effect, even one that failed on chain.
SettledHolds(o) == sent[o] = "settled" => Effect(pc[o], book[o], Transaction(o).chapters)

ScriptInv ==
    /\ ScriptTypes
    /\ FlightTypes
    /\ \A o \in Operators : Stage(o) /\ SettledHolds(o)

BInv == BootstrapInv /\ ScriptInv

-----------------------------------------------------------------------------
(* A batch of loads *)

\* A batch is its loads one after another, in any order: nothing happens in
\* the empty one, and one chapter more is one load_chapter_root more.
THEOREM BatchIsItsLoads ==
    ASSUME NEW b \in Books, NEW r, BookInv(b, r), NEW S \in SUBSET ChaptersOf(b)
    PROVE  /\ WithChapterRoots(b, r, {}) = r
           /\ \A c \in ChaptersOf(b) \ S :
                 WithChapterRoots(b, r, S \cup {c}) =
                    WithChapterRoot(b, WithChapterRoots(b, r, S), c, CommittedRoot(b, c))
<1> DEFINE n == chapters_in_book(b)
           new(T) == {c \in T : ~is_loaded(r, c)}
           bits(T) == UNION {MarkLoaded(b, {}, c) : c \in T}
           slots(T) == [c \in ChaptersOf(b) |-> IF c \in T THEN CommittedRoot(b, c) ELSE r.roots[c]]
<1>1. n \in Nat /\ ChaptersOf(b) = 1..n /\ IsFiniteSet(ChaptersOf(b))
  BY ConstantsAssumption, FS_Interval DEF chapters_in_book, ChaptersOf
<1>2. /\ r \in BookRoots(b) /\ r.loaded \in Nat
      /\ r = [exists |-> r.exists, loaded |-> r.loaded, completed |-> r.completed,
              loaded_mask |-> r.loaded_mask, roots |-> r.roots]
      /\ r.roots \in [ChaptersOf(b) -> Roots \cup {ZeroRoot}]
  BY DEF BookInv, BookRoots
<1>3. \A c \in ChaptersOf(b) : MarkLoaded(b, {}, c) = {c - 1}
  BY MarkLoadedAddsTheBit
<1>4. WithChapterRoots(b, r, {}) = r
  <2>1. new({}) = {} /\ bits({}) = {} /\ slots({}) = r.roots
    BY <1>2
  <2>2. Cardinality(new({})) = 0
    BY <2>1, FS_EmptySet
  <2>3. WithChapterRoots(b, r, {}) =
           [exists |-> r.exists, loaded |-> r.loaded + Cardinality(new({})), completed |-> r.completed,
            loaded_mask |-> r.loaded_mask \cup bits({}), roots |-> slots({})]
    BY DEF WithChapterRoots
  <2> HIDE DEF new, bits, slots
  <2>4. r.loaded + Cardinality(new({})) = r.loaded /\ r.loaded_mask \cup bits({}) = r.loaded_mask
    BY <1>2, <2>1, <2>2
  <2> QED BY <1>2, <2>1, <2>3, <2>4
<1>5. ASSUME NEW c \in ChaptersOf(b) \ S
      PROVE  WithChapterRoots(b, r, S \cup {c}) =
                WithChapterRoot(b, WithChapterRoots(b, r, S), c, CommittedRoot(b, c))
  <2> DEFINE T == S \cup {c}
             q == WithChapterRoots(b, r, S)
  <2>1. q = [exists |-> r.exists, loaded |-> r.loaded + Cardinality(new(S)),
             completed |-> r.completed, loaded_mask |-> r.loaded_mask \cup bits(S),
             roots |-> slots(S)]
    BY DEF WithChapterRoots
  <2>2. WithChapterRoots(b, r, T) =
           [exists |-> r.exists, loaded |-> r.loaded + Cardinality(new(T)),
            completed |-> r.completed, loaded_mask |-> r.loaded_mask \cup bits(T),
            roots |-> slots(T)]
    BY DEF WithChapterRoots
  <2>3. bits(S) = {d - 1 : d \in S} /\ bits(T) = bits(S) \cup {c - 1}
    BY <1>3
  <2>4. r.loaded_mask \cup bits(S) \in SUBSET Nat
    BY <1>1, <1>2, <2>3 DEF BookRoots
  <2>5. MarkLoaded(b, q.loaded_mask, c) = q.loaded_mask \cup {c - 1}
    BY <2>1, <2>4, MarkLoadedAddsTheBit
  <2>6. is_loaded(q, c) <=> is_loaded(r, c)
    <3>1. c - 1 \notin bits(S)
      BY <1>1, <2>3
    <3> QED BY <2>1, <3>1 DEF is_loaded
  <2>7. /\ Cardinality(new(T)) = IF is_loaded(r, c) THEN Cardinality(new(S)) ELSE Cardinality(new(S)) + 1
        /\ Cardinality(new(S)) \in Nat
    <3>1. IsFiniteSet(new(S))
      BY <1>1, FS_Subset
    <3>2. new(T) = IF is_loaded(r, c) THEN new(S) ELSE new(S) \cup {c}
      OBVIOUS
    <3>3. c \notin new(S)
      OBVIOUS
    <3> HIDE DEF new
    <3> QED BY <3>1, <3>2, <3>3, FS_AddElement, FS_CardinalityType
  <2>8. slots(T) = [slots(S) EXCEPT ![c] = CommittedRoot(b, c)]
    OBVIOUS
  <2>9. WithChapterRoot(b, q, c, CommittedRoot(b, c)) =
           [exists |-> q.exists, loaded |-> IF is_loaded(q, c) THEN q.loaded ELSE q.loaded + 1,
            completed |-> q.completed, loaded_mask |-> MarkLoaded(b, q.loaded_mask, c),
            roots |-> [q.roots EXCEPT ![c] = CommittedRoot(b, c)]]
    BY DEF WithChapterRoot
  <2> HIDE DEF q, T, new, bits, slots
  <2>10. r.loaded + Cardinality(new(T)) = IF is_loaded(q, c) THEN q.loaded ELSE q.loaded + 1
    BY <1>2, <2>1, <2>6, <2>7
  <2>11. r.loaded_mask \cup bits(T) = MarkLoaded(b, q.loaded_mask, c)
    BY <2>1, <2>3, <2>5
  <2>12. q.exists = r.exists /\ q.completed = r.completed /\ q.roots = slots(S)
    BY <2>1
  <2>13. WithChapterRoots(b, r, T) = WithChapterRoot(b, q, c, CommittedRoot(b, c))
    BY <2>2, <2>8, <2>9, <2>10, <2>11, <2>12
  <2> QED BY <2>13 DEF q, T
<1> QED BY <1>4, <1>5

\* Every chapter of the canon has a committed root.
LEMMA CommittedRootIsRoot ==
    ASSUME NEW b \in Books, NEW c \in ChaptersOf(b) PROVE CommittedRoot(b, c) \in Roots
<1>1. PICK p \in ROOTS_COMMITMENT : p.leaf.book = b /\ p.leaf.chapter = c
  BY CommitmentAssumption
<1> QED BY <1>1, CommitmentIsFunctional

LEMMA BatchKeepsBookInv ==
    ASSUME NEW b \in Books, NEW r, BookInv(b, r), r.exists, NEW S \in SUBSET ChaptersOf(b)
    PROVE  LET r2 == WithChapterRoots(b, r, S) IN
           /\ BookInv(b, r2)
           /\ r2.completed = r.completed
           /\ \A c \in ChaptersOf(b) : is_loaded(r2, c) <=> is_loaded(r, c) \/ c \in S
<1> DEFINE n == chapters_in_book(b)
           new == {c \in S : ~is_loaded(r, c)}
           newBits == {c - 1 : c \in new}
           slots == [c \in ChaptersOf(b) |-> IF c \in S THEN CommittedRoot(b, c) ELSE r.roots[c]]
           r2 == WithChapterRoots(b, r, S)
<1>1. n \in Nat /\ ChaptersOf(b) = 1..n /\ IsFiniteSet(ChaptersOf(b)) /\ IsFiniteSet(0..n - 1)
      /\ Cardinality(0..n - 1) = n
  <2>1. n \in Nat
    BY ConstantsAssumption DEF chapters_in_book
  <2>2. IsFiniteSet(1..n)
    BY <2>1, FS_Interval
  <2>3. IsFiniteSet(0..n - 1) /\ Cardinality(0..n - 1) = n
    BY <2>1, FS_Interval
  <2> QED BY <2>1, <2>2, <2>3 DEF ChaptersOf
<1>2. /\ r \in BookRoots(b) /\ r.loaded_mask \subseteq 0..n - 1 /\ r.loaded \in Nat
      /\ r.loaded = Cardinality(r.loaded_mask) /\ r.completed \in BOOLEAN
      /\ r.roots \in [ChaptersOf(b) -> Roots \cup {ZeroRoot}]
      /\ r.completed => r.loaded = n
      /\ \A c \in ChaptersOf(b) :
            r.roots[c] = IF is_loaded(r, c) THEN CommittedRoot(b, c) ELSE ZeroRoot
  BY DEF BookInv, BookRoots
<1>3. UNION {MarkLoaded(b, {}, c) : c \in S} = {c - 1 : c \in S}
  <2>1. \A c \in S : MarkLoaded(b, {}, c) = {c - 1}
    BY MarkLoadedAddsTheBit
  <2> QED BY <2>1
<1>4. r.loaded_mask \cup {c - 1 : c \in S} = r.loaded_mask \cup newBits
  BY DEF is_loaded
<1>5. r2 = [exists |-> TRUE, loaded |-> r.loaded + Cardinality(new), completed |-> r.completed,
            loaded_mask |-> r.loaded_mask \cup newBits, roots |-> slots]
  BY <1>3, <1>4 DEF WithChapterRoots
<1>6. IsFiniteSet(r.loaded_mask) /\ IsFiniteSet(new)
  BY <1>1, <1>2, FS_Subset
<1>7. IsFiniteSet(newBits) /\ Cardinality(newBits) = Cardinality(new) /\ Cardinality(new) \in Nat
  <2> DEFINE f == [c \in new |-> c - 1]
  <2>1. \A c \in new : c \in 1..n
    BY <1>1
  <2>2. f \in Bijection(new, newBits)
    <3>1. f \in [new -> newBits] /\ \A d \in newBits : \E c \in new : f[c] = d
      OBVIOUS
    <3>2. \A c, d \in new : f[c] = f[d] => c = d
      BY <2>1
    <3> HIDE DEF f, new, newBits
    <3> QED BY <3>1, <3>2 DEF Bijection, Injection, Surjection, IsInjective
  <2> HIDE DEF f, new, newBits
  <2>3. IsFiniteSet(newBits) /\ Cardinality(newBits) = Cardinality(new)
    BY <1>6, <2>2, FS_Bijection DEF ExistsBijection
  <2> QED BY <1>6, <2>3, FS_CardinalityType
<1>8. Cardinality(r.loaded_mask \cup newBits) = r.loaded + Cardinality(new)
  <2>1. r.loaded_mask \cap newBits = {}
    BY DEF is_loaded
  <2>2. Cardinality(r.loaded_mask \cap newBits) = 0
    BY <2>1, FS_EmptySet
  <2>3. Cardinality(r.loaded_mask \cup newBits) =
           Cardinality(r.loaded_mask) + Cardinality(newBits) - Cardinality(r.loaded_mask \cap newBits)
    <3> HIDE DEF newBits, new
    <3> QED BY <1>6, <1>7, FS_Union
  <2> DEFINE all == Cardinality(r.loaded_mask \cup newBits)
             old == Cardinality(r.loaded_mask)
             added == Cardinality(newBits)
             both == Cardinality(r.loaded_mask \cap newBits)
  <2>4. all = old + added - both /\ both = 0 /\ old = r.loaded /\ added = Cardinality(new)
    BY <1>2, <1>7, <2>2, <2>3
  <2>5. old \in Nat /\ added \in Nat
    BY <1>2, <1>7
  <2> HIDE DEF all, old, added, both
  <2>6. all = old + added
    BY <2>4, <2>5
  <2>7. all = r.loaded + Cardinality(new)
    BY <2>4, <2>6
  <2> QED BY <2>7 DEF all
<1>9. newBits \subseteq 0..n - 1
  BY <1>1
<1>10. ASSUME NEW c \in ChaptersOf(b) PROVE is_loaded(r2, c) <=> is_loaded(r, c) \/ c \in S
  <2>1. is_loaded(r2, c) <=> c - 1 \in r.loaded_mask \cup newBits
    BY <1>5 DEF is_loaded
  <2>2. c - 1 \in newBits <=> c \in new
    BY <1>1
  <2> QED BY <2>1, <2>2 DEF is_loaded
<1>11. \A c \in ChaptersOf(b) : CommittedRoot(b, c) \in Roots
  BY CommittedRootIsRoot
<1>12. slots \in [ChaptersOf(b) -> Roots \cup {ZeroRoot}]
  BY <1>2, <1>11
<1>13. ASSUME NEW c \in ChaptersOf(b)
       PROVE  r2.roots[c] = IF is_loaded(r2, c) THEN CommittedRoot(b, c) ELSE ZeroRoot
  <2>1. r2.roots[c] = IF c \in S THEN CommittedRoot(b, c) ELSE r.roots[c]
    BY <1>5
  <2> QED BY <1>2, <1>10, <2>1
<1>14. r.completed => Cardinality(new) = 0
  <2>1. r.completed => \A c \in ChaptersOf(b) : is_loaded(r, c)
    BY <1>2, FullBookIsLoaded
  <2>2. r.completed => new = {}
    BY <2>1
  <2> HIDE DEF new
  <2> QED BY <2>2, FS_EmptySet
<1> HIDE DEF new, newBits, slots
<1>15. /\ r2.exists = TRUE /\ r2.loaded = r.loaded + Cardinality(new) /\ r2.completed = r.completed
       /\ r2.loaded_mask = r.loaded_mask \cup newBits /\ r2.roots = slots
  BY <1>5
<1>16. r2 \in BookRoots(b)
  <2>1. 0..n - 1 \subseteq Nat
    BY <1>1
  <2>2. r.loaded_mask \cup newBits \in SUBSET Nat
    BY <1>2, <1>9, <2>1
  <2>3. r.loaded + Cardinality(new) \in Nat
    BY <1>2, <1>7
  <2> QED BY <1>2, <1>5, <1>12, <2>2, <2>3 DEF BookRoots
<1>17. BookInv(b, r2)
  <2>1. r2.loaded_mask \subseteq 0..n - 1 /\ r2.loaded = Cardinality(r2.loaded_mask)
    BY <1>2, <1>8, <1>9, <1>15
  <2>2. r2.completed => r2.exists /\ r2.loaded = n
    BY <1>1, <1>2, <1>14, <1>15
  <2> HIDE DEF r2
  <2> QED BY <1>13, <1>15, <1>16, <2>1, <2>2 DEF BookInv
<1> QED BY <1>10, <1>15, <1>17
\* The converse of FullBookIsLoaded: complete_book's counter is full as soon
\* as every chapter is loaded.
LEMMA LoadedBookIsFull ==
    ASSUME NEW b \in Books, NEW r, BookInv(b, r), \A c \in ChaptersOf(b) : is_loaded(r, c)
    PROVE  r.loaded = chapters_in_book(b)
<1> DEFINE n == chapters_in_book(b)
<1>1. n \in Nat
  BY ConstantsAssumption DEF chapters_in_book
<1>2. r.loaded_mask \subseteq 0..n - 1 /\ r.loaded = Cardinality(r.loaded_mask)
  BY DEF BookInv
<1>3. ASSUME NEW i \in 0..n - 1 PROVE i \in r.loaded_mask
  <2>1. i + 1 \in 1..n /\ (i + 1) - 1 = i
    BY <1>1
  <2> QED BY <2>1 DEF ChaptersOf, is_loaded
<1>4. r.loaded_mask = 0..n - 1
  BY <1>2, <1>3
<1>5. Cardinality(0..n - 1) = n
  BY <1>1, FS_Interval
<1> QED BY <1>2, <1>4, <1>5

-----------------------------------------------------------------------------
(* What is on chain stays there *)

\* Nothing that was created, loaded, completed or sealed is undone.
Grows ==
    /\ config.exists => config'.exists
    /\ config.sealed => config'.sealed
    /\ \A b \in Books :
          /\ book_roots[b].exists => book_roots'[b].exists
          /\ book_roots[b].completed => book_roots'[b].completed
          /\ \A c \in ChaptersOf(b) :
                is_loaded(book_roots[b], c) => is_loaded(book_roots'[b], c)

\* A transaction that succeeds keeps the program's invariant, undoes nothing
\* and has the effect it was sent for.
LEMMA AppliedHasItsEffect ==
    ASSUME BootstrapInv, NEW tx, Answer(tx) = "ok", Apply(tx),
           tx.kind \in {"initBook", "load", "complete"} => tx.book \in Books,
           tx.chapters \subseteq ChaptersOf(tx.book)
    PROVE  BootstrapInv' /\ Grows /\ Effect(tx.kind, tx.book, tx.chapters)'
<1> DEFINE b == tx.book
<1>1. DOMAIN book_roots = Books /\ \A d \in Books : BookInv(d, book_roots[d])
  BY DEF BootstrapInv, TypeOK
<1>2. CASE tx.kind = "initConfig" /\ InitializeConfig
  <2>1. BootstrapInv'
    BY <1>2, InitializeConfigKeeps
  <2>2. config'.exists /\ book_roots' = book_roots /\ ~config.sealed
    BY <1>2 DEF InitializeConfig, BootstrapInv
  <2> QED BY <1>2, <2>1, <2>2 DEF Grows, Effect
<1>3. CASE tx.kind = "initBook" /\ InitializeBookRoots(b)
  <2>1. b \in Books /\ b \in 0..BOOK_COUNT + 1
    BY <1>3, ConstantsAssumption DEF Books
  <2>2. BootstrapInv'
    BY <1>3, <2>1, InitializeBookRootsKeeps
  <2>3. ~book_roots[b].exists /\ config' = config
        /\ book_roots' = [book_roots EXCEPT ![b] = ZeroedRoots(b, TRUE)]
    BY <1>3 DEF InitializeBookRoots
  <2>4. book_roots[b] = ZeroedRoots(b, FALSE)
    BY <1>1, <2>1, <2>3 DEF BookInv
  <2>5. ~book_roots[b].completed /\ \A c \in ChaptersOf(b) : ~is_loaded(book_roots[b], c)
    BY <2>4 DEF ZeroedRoots, is_loaded
  <2>6. book_roots'[b].exists /\ \A d \in Books : d # b => book_roots'[d] = book_roots[d]
    BY <1>1, <2>1, <2>3 DEF ZeroedRoots
  <2> QED BY <1>3, <2>2, <2>3, <2>5, <2>6 DEF Grows, Effect
<1>4. CASE tx.kind = "load" /\ LoadBatch(b, tx.chapters)
  <2> DEFINE r == WithChapterRoots(b, book_roots[b], tx.chapters)
  <2>1. b \in Books /\ tx.chapters \in SUBSET ChaptersOf(b)
    BY <1>4
  <2>2. book_roots[b].exists
    BY <1>4, <2>1 DEF Answer
  <2>3. book_roots' = [book_roots EXCEPT ![b] = r] /\ UNCHANGED <<config, verse_accounts>>
    BY <1>4 DEF LoadBatch
  <2>4. /\ BookInv(b, r) /\ r.completed = book_roots[b].completed
        /\ \A c \in ChaptersOf(b) : is_loaded(r, c) <=> is_loaded(book_roots[b], c) \/ c \in tx.chapters
    BY <1>1, <2>1, <2>2, BatchKeepsBookInv
  <2>5. r.exists
    BY <2>2 DEF WithChapterRoots
  <2> HIDE DEF r
  <2>6. BootstrapInv'
    BY <2>1, <2>3, <2>4, BookUpdateKeeps
  <2>7. book_roots'[b] = r /\ \A d \in Books : d # b => book_roots'[d] = book_roots[d]
    BY <1>1, <2>1, <2>3
  <2>8. Loaded(b, tx.chapters)'
    BY <2>1, <2>4, <2>7 DEF Loaded
  <2> QED BY <1>4, <2>3, <2>4, <2>5, <2>6, <2>7, <2>8 DEF Grows, Effect
<1>5. CASE tx.kind = "complete" /\ CompleteBook(b)
  <2>1. b \in Books /\ BootstrapInv'
    BY <1>5, CompleteBookKeeps
  <2>2. /\ book_roots' = [book_roots EXCEPT ![b].completed = TRUE]
        /\ config' = [config EXCEPT !.books_complete = @ + 1]
    BY <1>5 DEF CompleteBook
  <2>3. config'.exists = config.exists /\ config'.sealed = config.sealed
    BY <2>2 DEF BootstrapInv, TypeOK, Config
  <2>4. book_roots[b] \in BookRoots(b)
    BY <1>1, <2>1 DEF BookInv
  <2>5. /\ book_roots'[b].exists = book_roots[b].exists
        /\ book_roots'[b].loaded_mask = book_roots[b].loaded_mask
        /\ book_roots'[b].completed
        /\ \A d \in Books : d # b => book_roots'[d] = book_roots[d]
    BY <1>1, <2>1, <2>2, <2>4 DEF BookRoots
  <2> QED BY <1>5, <2>1, <2>3, <2>5 DEF Grows, Effect, is_loaded
<1>6. CASE tx.kind = "seal" /\ Seal
  <2>1. BootstrapInv'
    BY <1>6, SealKeeps
  <2>2. config'.sealed /\ config'.exists = config.exists /\ book_roots' = book_roots
    BY <1>6 DEF Seal, BootstrapInv, TypeOK, Config
  <2> QED BY <1>6, <2>1, <2>2 DEF Grows, Effect
<1> QED BY <1>2, <1>3, <1>4, <1>5, <1>6 DEF Apply

-----------------------------------------------------------------------------
(* What the program answers a run *)

\* A sealed canon has every book complete, and so every chapter loaded.
LEMMA SealedBooksAreComplete ==
    ASSUME BootstrapInv, config.sealed
    PROVE  \A b \in Books : /\ book_roots[b].completed
                            /\ book_roots[b].exists
                            /\ \A c \in ChaptersOf(b) : is_loaded(book_roots[b], c)
<1>1. CompletedBooks \in SUBSET Books /\ Cardinality(CompletedBooks) = BOOK_COUNT
  BY DEF CompletedBooks, BootstrapInv, BooksCountedOnce
<1>2. CompletedBooks = Books
  BY <1>1, BooksFinite, FS_Subset
<1>3. \A b \in Books : BookInv(b, book_roots[b]) /\ book_roots[b].completed
  BY <1>2 DEF CompletedBooks, BootstrapInv
<1>4. \A b \in Books : book_roots[b].exists /\ book_roots[b].loaded = chapters_in_book(b)
  BY <1>3 DEF BookInv
<1> QED BY <1>3, <1>4, FullBookIsLoaded

\* The other way round, the counter that seal reads is full when they all are.
LEMMA AllBooksAreCounted ==
    ASSUME BootstrapInv, AllComplete PROVE config.books_complete = BOOK_COUNT
<1>1. {b \in Books : book_roots[b].completed} = Books
  BY DEF AllComplete
<1> QED BY <1>1, BooksFinite DEF BootstrapInv, BooksCountedOnce

\* The program never turns a run away for coming too early: if a transaction
\* fails, the effect it was sent for is there already.
LEMMA AnswersMeanWhatTheySay ==
    ASSUME BInv, NEW o \in Operators, pc[o] \in Sending
    PROVE  LET tx == Transaction(o) IN
           /\ Answer(tx) \in {"ok", "InUse"} \cup ALREADY_DONE
           /\ Answer(tx) # "ok" => Effect(pc[o], book[o], tx.chapters)
<1> DEFINE tx == Transaction(o)
           b == book[o]
<1>1. tx.kind = pc[o] /\ tx.book = b
  BY DEF Transaction
<1>2. Stage(o) /\ BootstrapInv
  BY DEF BInv, ScriptInv
<1>3. pc[o] \in AboutABook => b \in Books /\ BookInv(b, book_roots[b])
  BY <1>2 DEF Stage, StageAt, BootstrapInv
<1>4. pc[o] = "load" => tx.chapters \subseteq ChaptersOf(b)
  <2>1. pc[o] = "load" => todo[o] \subseteq ChaptersOf(b)
    BY <1>2 DEF Stage, StageAt
  <2> QED BY <2>1 DEF Transaction, Batch
<1> SUFFICES /\ Answer(tx) \in {"ok", "InUse"} \cup ALREADY_DONE
             /\ Answer(tx) # "ok" => Effect(pc[o], book[o], tx.chapters)
  OBVIOUS
<1>5. pc[o] # "initConfig" => config.exists
  BY <1>2 DEF Stage, StageAt, Sending, AboutABook
<1>6. config.sealed /\ b \in Books =>
        book_roots[b].completed /\ book_roots[b].exists /\ Loaded(b, ChaptersOf(b))
  BY <1>2, SealedBooksAreComplete DEF Loaded
<1> HIDE DEF tx
<1>7. CASE pc[o] = "initConfig"
  BY <1>1, <1>7 DEF Answer, Effect
<1>8. CASE pc[o] = "initBook"
  BY <1>1, <1>3, <1>5, <1>6, <1>8 DEF Answer, ALREADY_DONE, Effect, AboutABook
<1>9. CASE pc[o] = "load"
  <2>1. book_roots[b].exists
    BY <1>2, <1>9 DEF Stage, StageAt
  <2> QED BY <1>1, <1>3, <1>4, <1>5, <1>6, <1>9, <2>1
          DEF Answer, ALREADY_DONE, Effect, AboutABook, Loaded
<1>10. CASE pc[o] = "complete"
  <2>1. book_roots[b].exists /\ Loaded(b, ChaptersOf(b))
    BY <1>2, <1>10 DEF Stage, StageAt
  <2>2. book_roots[b].loaded = chapters_in_book(b)
    BY <1>3, <1>10, <2>1, LoadedBookIsFull DEF Loaded, AboutABook
  <2> QED BY <1>1, <1>3, <1>5, <1>6, <1>10, <2>1, <2>2
          DEF Answer, ALREADY_DONE, Effect, AboutABook
<1>11. CASE pc[o] = "seal"
  <2>1. config.books_complete = BOOK_COUNT
    BY <1>2, <1>11, AllBooksAreCounted DEF Stage, StageAt
  <2> QED BY <1>1, <1>5, <1>11, <2>1 DEF Answer, ALREADY_DONE, Effect
<1>12. pc[o] \in {"initConfig", "initBook", "load", "complete", "seal"}
  BY DEF Sending
<1> QED BY <1>7, <1>8, <1>9, <1>10, <1>11, <1>12
-----------------------------------------------------------------------------
(* The cluster's steps *)

\* What a run needs stays on chain while the run stands still.
LEMMA GrowthKeepsStage ==
    ASSUME NEW o \in Operators, Stage(o), Grows, UNCHANGED <<pc, book, seen, todo>>
    PROVE  Stage(o)'
<1> DEFINE b == book[o]
<1>1. pc[o] \in AboutABook => b \in Books
  BY DEF Stage, StageAt
<1>2. \A d \in Books : /\ book_roots[d].completed => book_roots'[d].completed
                       /\ book_roots[d].exists => book_roots'[d].exists
  BY DEF Grows
<1>3. /\ pc[o] \in {"initBook", "load", "complete"} =>
            /\ Loaded(b, ChaptersOf(b) \ todo[o])
            /\ b \in Books
      /\ pc[o] \in {"initBook", "load", "complete"} => Loaded(b, ChaptersOf(b) \ todo[o])'
  BY <1>1 DEF Stage, StageAt, Loaded, Grows, AboutABook
<1>4. AllComplete => AllComplete'
  BY <1>2 DEF AllComplete
<1> QED BY <1>1, <1>2, <1>3, <1>4 DEF Stage, StageAt, Grows, AboutABook

\* So does what a transaction has brought about.
LEMMA GrowthKeepsEffect ==
    ASSUME NEW o \in Operators, Stage(o), SettledHolds(o), Grows,
           UNCHANGED <<pc, book, todo, attempt>>, sent'[o] = "settled" => sent[o] = "settled"
    PROVE  SettledHolds(o)'
<1> DEFINE b == book[o]
           S == Transaction(o).chapters
<1>1. S = IF pc[o] = "load" THEN Batch(todo[o]) ELSE {}
  BY DEF Transaction
<1>2. S' = S
  BY <1>1 DEF Transaction, Batch
<1>3. pc[o] \in {"initBook", "load", "complete"} => b \in Books /\ S \subseteq ChaptersOf(b)
  BY <1>1 DEF Stage, StageAt, AboutABook, Batch
<1>4. SUFFICES ASSUME sent'[o] = "settled" PROVE Effect(pc[o], b, S)'
  BY DEF SettledHolds
<1>5. Effect(pc[o], b, S)
  BY <1>4 DEF SettledHolds
<1> HIDE DEF S
<1> QED BY <1>2, <1>3, <1>5 DEF Effect, Loaded, Grows

\* Whether a transaction succeeds or fails as it lands, nothing is undone.
LEMMA LandGrows ==
    ASSUME BInv, NEW tx \in flight, Land(tx)
    PROVE  BootstrapInv' /\ Grows /\ (Answer(tx) = "ok" => Effect(tx.kind, tx.book, tx.chapters)')
<1>1. IF Answer(tx) = "ok" THEN Apply(tx) ELSE UNCHANGED vars
  BY DEF Land
<1>2. BootstrapInv /\ FlightTypes
  BY DEF BInv, ScriptInv
<1>3. /\ tx.kind \in {"initBook", "load", "complete"} => tx.book \in Books
      /\ tx.chapters \subseteq ChaptersOf(tx.book)
  BY <1>2 DEF FlightTypes
<1>4. CASE Answer(tx) = "ok"
  BY <1>1, <1>2, <1>3, <1>4, AppliedHasItsEffect
<1>5. CASE Answer(tx) # "ok"
  BY <1>1, <1>2, <1>5, StutterKeeps DEF Grows, vars
<1> QED BY <1>4, <1>5

\* A transaction that lands leaves every run with what it needs; the run that
\* still waits for it may take its effect for granted, whether it succeeded or
\* failed on chain.
LEMMA LandKeeps ==
    ASSUME BInv, NEW tx \in flight, Land(tx)
    PROVE  BInv'
<1> DEFINE current == sent[tx.by] = "waiting" /\ tx = Transaction(tx.by)
<1>1. /\ flight' = flight \ {tx}
      /\ UNCHANGED <<pc, book, seen, todo, attempt, error>>
      /\ sent' = IF current THEN [sent EXCEPT ![tx.by] = "settled"] ELSE sent
      /\ IF Answer(tx) = "ok" THEN Apply(tx) ELSE UNCHANGED vars
  BY DEF Land
<1>2. BootstrapInv /\ ScriptTypes /\ FlightTypes /\ \A o \in Operators : Stage(o) /\ SettledHolds(o)
  BY DEF BInv, ScriptInv
<1>4. BootstrapInv' /\ Grows /\ (Answer(tx) = "ok" => Effect(tx.kind, tx.book, tx.chapters)')
  BY LandGrows
<1>5. \A o \in Operators : Stage(o)'
  BY <1>1, <1>2, <1>4, GrowthKeepsStage
<1>6. ScriptTypes'
  <2>1. sent' \in [Operators -> {"no", "waiting", "settled"}]
    BY <1>1, <1>2 DEF ScriptTypes
  <2>2. \A o \in Operators : sent'[o] # "no" => sent[o] # "no"
    BY <1>1, <1>2 DEF ScriptTypes
  <2> QED BY <1>1, <1>2, <2>1, <2>2 DEF ScriptTypes
<1>7. FlightTypes'
  BY <1>1, <1>2 DEF FlightTypes
<1>8. ASSUME NEW o \in Operators PROVE SettledHolds(o)'
  <2>1. CASE current /\ o = tx.by
    <3>1. tx = Transaction(o) /\ pc[o] \in Sending
      BY <1>2, <2>1 DEF ScriptTypes
    <3>2. tx.kind = pc[o] /\ tx.book = book[o] /\ tx.chapters = Transaction(o).chapters
      BY <3>1 DEF Transaction
    <3>3. Transaction(o)' = Transaction(o)
      BY <1>1 DEF Transaction, Batch
    <3>4. Answer(tx) # "ok" => Effect(tx.kind, tx.book, tx.chapters)
      BY <3>1, <3>2, AnswersMeanWhatTheySay
    <3>5. Effect(tx.kind, tx.book, tx.chapters)'
      <4>1. CASE Answer(tx) = "ok"
        BY <1>4, <4>1
      <4>2. CASE Answer(tx) # "ok"
        BY <1>1, <3>4, <4>2 DEF Effect, Loaded, vars
      <4> QED BY <4>1, <4>2
    <3> QED BY <1>1, <3>2, <3>3, <3>5 DEF SettledHolds, Effect, Loaded
  <2>2. CASE ~(current /\ o = tx.by)
    <3>1. sent'[o] = sent[o]
      BY <1>1, <1>2, <2>2 DEF ScriptTypes
    <3> QED BY <1>1, <1>2, <1>4, <3>1, GrowthKeepsEffect
  <2> QED BY <2>1, <2>2
<1> QED BY <1>4, <1>5, <1>6, <1>7, <1>8 DEF BInv, ScriptInv

\* A dropped transaction leaves no trace.
LEMMA DropKeeps ==
    ASSUME BInv, NEW tx \in flight, Drop(tx)
    PROVE  BInv'
<1>1. UNCHANGED <<vars, scriptVars>> /\ flight' \subseteq flight
  BY DEF Drop
<1>2. BootstrapInv'
  BY <1>1, StutterKeeps DEF BInv
<1>3. Grows
  BY <1>1 DEF Grows, vars
<1>4. \A o \in Operators : Stage(o)' /\ SettledHolds(o)'
  BY <1>1, <1>3, GrowthKeepsStage, GrowthKeepsEffect DEF BInv, ScriptInv, scriptVars
<1>5. ScriptTypes' /\ FlightTypes'
  BY <1>1 DEF BInv, ScriptInv, ScriptTypes, FlightTypes, scriptVars
<1> QED BY <1>2, <1>4, <1>5 DEF BInv, ScriptInv

-----------------------------------------------------------------------------
(* The script's steps *)

\* A transaction is sent with arguments the program can make sense of.
LEMMA BroadcastKeeps ==
    ASSUME BInv, NEW o \in Operators, Broadcast(o)
    PROVE  BInv'
<1> DEFINE tx == Transaction(o)
<1>1. /\ pc[o] \in Sending /\ flight' = flight \cup {tx}
      /\ sent' = [sent EXCEPT ![o] = "waiting"]
      /\ UNCHANGED <<vars, pc, book, seen, todo, attempt, error>>
  BY DEF Broadcast, Ready
<1>2. BootstrapInv /\ ScriptTypes /\ FlightTypes /\ \A p \in Operators : Stage(p) /\ SettledHolds(p)
  BY DEF BInv, ScriptInv
<1>3. BootstrapInv' /\ Grows
  BY <1>1, <1>2, StutterKeeps DEF Grows, vars
<1>4. ScriptTypes'
  BY <1>1, <1>2 DEF ScriptTypes
<1>5. FlightTypes'
  <2>1. /\ tx.kind = pc[o] /\ tx.book = book[o]
        /\ tx.chapters = IF pc[o] = "load" THEN Batch(todo[o]) ELSE {}
    BY DEF Transaction
  <2>2. tx.kind \in {"initBook", "load", "complete"} => tx.book \in Books
    BY <1>2, <2>1 DEF Stage, StageAt, AboutABook
  <2>3. tx.chapters \subseteq ChaptersOf(tx.book)
    BY <1>2, <2>1 DEF Stage, StageAt, Batch
  <2> HIDE DEF tx
  <2> QED BY <1>1, <1>2, <2>1, <2>2, <2>3 DEF FlightTypes
<1>6. \A p \in Operators : Stage(p)'
  BY <1>1, <1>2, <1>3, GrowthKeepsStage
<1>7. \A p \in Operators : SettledHolds(p)'
  <2>1. \A p \in Operators : sent'[p] = "settled" => sent[p] = "settled"
    BY <1>1, <1>2 DEF ScriptTypes
  <2> QED BY <1>1, <1>2, <1>3, <2>1, GrowthKeepsEffect
<1> QED BY <1>3, <1>4, <1>5, <1>6, <1>7 DEF BInv, ScriptInv

\* A run that moves on its own may go wherever what it needs is on chain.
LEMMA MoveKeeps ==
    ASSUME BInv, NEW o \in Operators,
           NEW label \in Labels, NEW b \in Nat, NEW snapshot \in Snapshots,
           NEW pending \in SUBSET Nat, NEW tries \in Nat, NEW e \in Errors,
           StageAt(label, b, snapshot, pending),
           pc' = [pc EXCEPT ![o] = label],
           book' = [book EXCEPT ![o] = b],
           seen' = [seen EXCEPT ![o] = snapshot],
           todo' = [todo EXCEPT ![o] = pending],
           attempt' = [attempt EXCEPT ![o] = tries],
           sent' = [sent EXCEPT ![o] = "no"],
           error' = [error EXCEPT ![o] = e],
           UNCHANGED <<vars, flight>>
    PROVE  BInv'
<1>1. BootstrapInv /\ ScriptTypes /\ FlightTypes /\ \A p \in Operators : Stage(p) /\ SettledHolds(p)
  BY DEF BInv, ScriptInv
<1>2. BootstrapInv'
  BY <1>1, StutterKeeps
<1>3. ScriptTypes'
  BY <1>1 DEF ScriptTypes
<1>4. FlightTypes'
  BY <1>1 DEF FlightTypes
<1>5. ASSUME NEW p \in Operators PROVE Stage(p)' /\ SettledHolds(p)'
  <2>1. CASE p = o
    <3>1. pc'[o] = label /\ book'[o] = b /\ seen'[o] = snapshot /\ todo'[o] = pending /\ sent'[o] = "no"
      BY <1>1 DEF ScriptTypes
    <3>2. SettledHolds(o)'
      BY <3>1 DEF SettledHolds
    <3>3. Stage(o)'
      BY <3>1 DEF Stage, StageAt, Loaded, AllComplete, vars
    <3> QED BY <2>1, <3>2, <3>3
  <2>2. CASE p # o
    <3>1. /\ pc'[p] = pc[p] /\ book'[p] = book[p] /\ seen'[p] = seen[p] /\ todo'[p] = todo[p]
          /\ attempt'[p] = attempt[p] /\ sent'[p] = sent[p]
      BY <1>1, <2>2 DEF ScriptTypes
    <3>2. Stage(p)'
      BY <1>1, <3>1 DEF Stage, StageAt, Loaded, AllComplete, vars
    <3>3. SettledHolds(p)'
      BY <1>1, <3>1 DEF SettledHolds, Effect, Loaded, Transaction, Batch, vars
    <3> QED BY <3>2, <3>3
  <2> QED BY <2>1, <2>2
<1> QED BY <1>2, <1>3, <1>4, <1>5 DEF BInv, ScriptInv
\* The next book in canonical order, or the seal once none is left: each
\* book before it is complete.
LEMMA FetchNextKeeps ==
    ASSUME BInv, NEW o \in Operators, NEW b \in Nat \ {0}, NEW pending \in SUBSET Nat,
           config.exists, \A d \in Books : d < b => book_roots[d].completed,
           FetchNext(o, b), todo' = [todo EXCEPT ![o] = pending], UNCHANGED <<vars, seen, flight>>
    PROVE  BInv'
<1> DEFINE label == IF b \in Books THEN "fetch" ELSE "seal"
<1>1. ScriptTypes
  BY DEF BInv, ScriptInv
<1>2. /\ pc' = [pc EXCEPT ![o] = label] /\ book' = [book EXCEPT ![o] = b]
      /\ attempt' = [attempt EXCEPT ![o] = 0] /\ sent' = [sent EXCEPT ![o] = "no"]
      /\ error' = [error EXCEPT ![o] = "none"]
  BY DEF FetchNext, Goto
<1>3. seen' = [seen EXCEPT ![o] = seen[o]] /\ seen[o] \in Snapshots
  BY <1>1 DEF ScriptTypes
<1>4. b \notin Books => AllComplete
  <2>1. b \notin Books => \A d \in Books : d < b
    BY ConstantsAssumption DEF Books
  <2> QED BY <2>1 DEF AllComplete
<1>5. StageAt(label, b, seen[o], pending)
  BY <1>4 DEF StageAt, AboutABook
<1>6. label \in Labels /\ 0 \in Nat /\ "none" \in Errors
  BY DEF Labels, Sending, Errors
<1> HIDE DEF label
<1> QED BY <1>2, <1>3, <1>5, <1>6, MoveKeeps

\* The same for a step that keeps to its book.
LEMMA GotoKeeps ==
    ASSUME BInv, NEW o \in Operators, NEW label \in Labels, NEW pending \in SUBSET Nat,
           StageAt(label, book[o], seen[o], pending), Goto(o, label),
           todo' = [todo EXCEPT ![o] = pending], UNCHANGED <<vars, book, seen, flight>>
    PROVE  BInv'
<1>1. ScriptTypes
  BY DEF BInv, ScriptInv
<1>2. /\ pc' = [pc EXCEPT ![o] = label] /\ attempt' = [attempt EXCEPT ![o] = 0]
      /\ sent' = [sent EXCEPT ![o] = "no"] /\ error' = [error EXCEPT ![o] = "none"]
  BY DEF Goto
<1>3. /\ seen' = [seen EXCEPT ![o] = seen[o]] /\ seen[o] \in Snapshots
      /\ book' = [book EXCEPT ![o] = book[o]] /\ book[o] \in Nat
  BY <1>1 DEF ScriptTypes
<1>4. 0 \in Nat /\ "none" \in Errors
  BY DEF Errors
<1> QED BY <1>2, <1>3, <1>4, MoveKeeps

\* Once the effect of a transaction is there, the script is ready for its next
\* step.
LEMMA AdvanceKeeps ==
    ASSUME BInv, NEW o \in Operators, pc[o] \in Sending,
           Effect(pc[o], book[o], Transaction(o).chapters), Advance(o), UNCHANGED <<vars, flight>>
    PROVE  BInv'
<1> DEFINE b == book[o]
           batch == Transaction(o).chapters
           left == todo[o] \ batch
           after == AfterLoads(seen[o])
<1>1. ScriptTypes /\ Stage(o)
  BY DEF BInv, ScriptInv
<1>2. batch = IF pc[o] = "load" THEN Batch(todo[o]) ELSE {}
  BY DEF Transaction
<1>3. left \in SUBSET Nat /\ todo' = [todo EXCEPT ![o] = left] /\ UNCHANGED seen
  BY <1>1 DEF ScriptTypes, Advance
<1>4. CASE pc[o] = "initConfig"
  <2>1. config.exists
    BY <1>4 DEF Effect
  <2>2. FetchNext(o, 1)
    BY <1>4 DEF Advance
  <2>3. \A d \in Books : ~(d < 1)
    BY ConstantsAssumption DEF Books
  <2>4. 1 \in Nat \ {0}
    OBVIOUS
  <2> HIDE DEF left
  <2> QED BY <1>3, <2>1, <2>2, <2>3, <2>4, FetchNextKeeps
<1>5. CASE pc[o] \in {"initBook", "load"}
  <2> DEFINE label == IF left # {} THEN "load" ELSE after
  <2>1. Goto(o, label) /\ UNCHANGED book
    BY <1>5 DEF Advance
  <2>2. /\ b \in Books /\ config.exists /\ \A d \in Books : d < b => book_roots[d].completed
        /\ todo[o] \subseteq ChaptersOf(b) /\ Loaded(b, ChaptersOf(b) \ todo[o])
        /\ seen[o].completed => book_roots[b].completed
    BY <1>1, <1>5 DEF Stage, StageAt, AboutABook
  <2>3. book_roots[b].exists
    BY <1>1, <1>5 DEF Stage, StageAt, Effect
  <2>4. Loaded(b, batch)
    BY <1>2, <1>5 DEF Effect, Loaded
  <2>5. Loaded(b, ChaptersOf(b) \ left) /\ left \subseteq ChaptersOf(b)
    BY <2>2, <2>4 DEF Loaded
  <2>6. label \in {"load", "complete", "next"} /\ (label = "load" \/ left = {})
        /\ (label = "next" => seen[o].completed)
    BY DEF AfterLoads
  <2>7. label \in Labels
    BY <2>6 DEF Labels, Sending
  <2> HIDE DEF left, label
  <2>8. StageAt(label, b, seen[o], left)
    BY <2>2, <2>3, <2>5, <2>6 DEF StageAt, AboutABook
  <2> QED BY <1>3, <2>1, <2>7, <2>8, GotoKeeps
<1>6. CASE pc[o] = "complete"
  <2>1. Goto(o, "next") /\ UNCHANGED book
    BY <1>6 DEF Advance
  <2>2. StageAt("next", b, seen[o], left)
    BY <1>1, <1>6 DEF Stage, StageAt, AboutABook, Effect
  <2>3. "next" \in Labels
    BY DEF Labels
  <2> HIDE DEF left
  <2> QED BY <1>3, <2>1, <2>2, <2>3, GotoKeeps
<1>7. CASE pc[o] = "seal"
  <2>1. Goto(o, "done") /\ UNCHANGED book
    BY <1>7 DEF Advance
  <2>2. StageAt("done", b, seen[o], left)
    BY <1>7 DEF StageAt, AboutABook, Effect
  <2>3. "done" \in Labels
    BY DEF Labels
  <2> HIDE DEF left
  <2> QED BY <1>3, <2>1, <2>2, <2>3, GotoKeeps
<1> QED BY <1>4, <1>5, <1>6, <1>7 DEF Sending

\* The catch branch goes on only over an effect that is there.
LEMMA CatchKeeps ==
    ASSUME BInv, NEW o \in Operators, pc[o] \in Sending, NEW e \in Errors \cup ALREADY_DONE,
           e \in ALREADY_DONE => Effect(pc[o], book[o], Transaction(o).chapters),
           Catch(o, e), UNCHANGED <<vars, flight>>
    PROVE  BInv'
<1>1. CASE e \in ALREADY_DONE
  BY <1>1, AdvanceKeeps DEF Catch
<1>2. CASE e \notin ALREADY_DONE
  <2> DEFINE label == IF LastAttempt(o) THEN "thrown" ELSE pc[o]
  <2>1. ScriptTypes /\ Stage(o) /\ e \in Errors
    BY <1>2 DEF BInv, ScriptInv
  <2>2. /\ pc' = [pc EXCEPT ![o] = label] /\ attempt' = [attempt EXCEPT ![o] = attempt[o] + 1]
        /\ sent' = [sent EXCEPT ![o] = "no"] /\ error' = [error EXCEPT ![o] = e]
        /\ UNCHANGED <<book, seen, todo>>
    BY <1>2, <2>1 DEF Catch, ScriptTypes
  <2>3. /\ seen' = [seen EXCEPT ![o] = seen[o]] /\ seen[o] \in Snapshots
        /\ book' = [book EXCEPT ![o] = book[o]] /\ book[o] \in Nat
        /\ todo' = [todo EXCEPT ![o] = todo[o]] /\ todo[o] \in SUBSET Nat
        /\ attempt[o] + 1 \in Nat
    BY <2>1, <2>2 DEF ScriptTypes
  <2>4. label \in Labels
    BY <2>1 DEF Labels, Sending
  <2>5. StageAt(label, book[o], seen[o], todo[o])
    <3>1. StageAt("thrown", book[o], seen[o], todo[o])
      BY DEF StageAt, AboutABook
    <3> QED BY <2>1, <3>1 DEF Stage
  <2> HIDE DEF label
  <2> QED BY <2>1, <2>2, <2>3, <2>4, <2>5, MoveKeeps
<1> QED BY <1>1, <1>2

\* Each step of a run.
LEMMA RunKeeps ==
    ASSUME BInv, NEW o \in Operators,
           Script(o) \/ Broadcast(o) \/ RpcFails(o) \/ ConfirmTimesOut(o) \/ Rerun(o)
    PROVE  BInv'
<1>1. /\ BootstrapInv /\ ScriptTypes /\ Stage(o) /\ SettledHolds(o)
      /\ todo[o] \in SUBSET Nat /\ seen[o] \in Snapshots /\ book[o] \in Nat
  BY DEF BInv, ScriptInv, ScriptTypes
<1>2. todo = [todo EXCEPT ![o] = todo[o]]
  BY <1>1 DEF ScriptTypes
<1>3. CASE FetchConfig(o)
  <2>1. UNCHANGED <<vars, seen, todo, flight>> /\ todo' = [todo EXCEPT ![o] = todo[o]]
    BY <1>2, <1>3 DEF FetchConfig
  <2>2. CASE ~config.exists
    <3>1. Goto(o, "initConfig") /\ UNCHANGED book
      BY <1>3, <2>2 DEF FetchConfig
    <3>2. StageAt("initConfig", book[o], seen[o], todo[o])
      BY DEF StageAt, AboutABook
    <3>3. "initConfig" \in Labels
      BY DEF Labels, Sending
    <3> QED BY <1>1, <2>1, <3>1, <3>2, <3>3, GotoKeeps
  <2>3. CASE config.exists /\ config.sealed
    <3>1. Goto(o, "done") /\ UNCHANGED book
      BY <1>3, <2>3 DEF FetchConfig
    <3>2. StageAt("done", book[o], seen[o], todo[o])
      BY <2>3 DEF StageAt, AboutABook
    <3>3. "done" \in Labels
      BY DEF Labels
    <3> QED BY <1>1, <2>1, <3>1, <3>2, <3>3, GotoKeeps
  <2>4. CASE config.exists /\ ~config.sealed
    <3>1. FetchNext(o, 1)
      BY <1>3, <2>4 DEF FetchConfig
    <3>2. \A d \in Books : ~(d < 1)
      BY ConstantsAssumption DEF Books
    <3>3. 1 \in Nat \ {0}
      OBVIOUS
    <3> QED BY <1>1, <2>1, <2>4, <3>1, <3>2, <3>3, FetchNextKeeps
  <2> QED BY <2>2, <2>3, <2>4
<1>4. CASE FetchBook(o)
  <2> DEFINE b == book[o]
             r == book_roots[b]
             snapshot == [chapters |-> {c \in ChaptersOf(b) : is_loaded(r, c)},
                          completed |-> r.completed]
             pending == ChaptersOf(b) \ snapshot.chapters
             label == IF ~r.exists THEN "initBook"
                      ELSE IF pending # {} THEN "load" ELSE AfterLoads(snapshot)
  <2>1. /\ seen' = [seen EXCEPT ![o] = snapshot] /\ todo' = [todo EXCEPT ![o] = pending]
        /\ Goto(o, label) /\ UNCHANGED <<vars, book, flight>> /\ pc[o] = "fetch"
    BY <1>4 DEF FetchBook
  <2>2. /\ pc' = [pc EXCEPT ![o] = label] /\ attempt' = [attempt EXCEPT ![o] = 0]
        /\ sent' = [sent EXCEPT ![o] = "no"] /\ error' = [error EXCEPT ![o] = "none"]
        /\ book' = [book EXCEPT ![o] = b]
    BY <1>1, <2>1 DEF Goto, ScriptTypes
  <2>3. config.exists /\ b \in Books /\ \A d \in Books : d < b => book_roots[d].completed
    BY <1>1, <2>1 DEF Stage, StageAt, AboutABook
  <2>4. r.completed \in BOOLEAN /\ ChaptersOf(b) \in SUBSET Nat
    BY <1>1, <2>3 DEF BootstrapInv, TypeOK, BookRoots, ChaptersOf
  <2>5. snapshot \in Snapshots /\ pending \in SUBSET Nat
    BY <2>4 DEF Snapshots
  <2>6. /\ snapshot.completed = r.completed
        /\ pending \subseteq ChaptersOf(b) /\ Loaded(b, ChaptersOf(b) \ pending)
    BY DEF Loaded
  <2>7. /\ label \in {"initBook", "load", "complete", "next"}
        /\ label # "initBook" => r.exists
        /\ label \in {"complete", "next"} => pending = {}
        /\ label = "next" => r.completed
    BY DEF AfterLoads
  <2>8. label \in Labels /\ 0 \in Nat /\ "none" \in Errors
    BY <2>7 DEF Labels, Sending, Errors
  <2> HIDE DEF label, pending, snapshot
  <2>9. StageAt(label, b, snapshot, pending)
    BY <2>3, <2>6, <2>7 DEF StageAt, AboutABook
  <2> QED BY <1>1, <2>1, <2>2, <2>5, <2>8, <2>9, MoveKeeps
<1>5. CASE NextBook(o)
  <2>1. FetchNext(o, book[o] + 1) /\ UNCHANGED <<vars, seen, todo, flight>> /\ pc[o] = "next"
    BY <1>5 DEF NextBook
  <2>2. /\ config.exists /\ book_roots[book[o]].completed
        /\ \A d \in Books : d < book[o] => book_roots[d].completed
    BY <1>1, <2>1 DEF Stage, StageAt, AboutABook
  <2>3. book[o] + 1 \in Nat \ {0}
    BY <1>1
  <2>4. \A d \in Books : d < book[o] + 1 => d < book[o] \/ d = book[o]
    BY <1>1, ConstantsAssumption DEF Books
  <2> QED BY <1>1, <1>2, <2>1, <2>2, <2>3, <2>4, FetchNextKeeps
<1>6. CASE PreflightFails(o)
  <2>1. pc[o] \in Sending
    BY <1>6 DEF PreflightFails, Ready
  <2>2. Answer(Transaction(o)) \in Errors \cup ALREADY_DONE
        /\ Effect(pc[o], book[o], Transaction(o).chapters)
    BY <1>6, <2>1, AnswersMeanWhatTheySay DEF PreflightFails, Errors
  <2> QED BY <1>6, <2>1, <2>2, CatchKeeps DEF PreflightFails
<1>7. CASE Confirmed(o)
  BY <1>1, <1>7, AdvanceKeeps DEF Confirmed, SettledHolds, ScriptTypes
<1>8. CASE Broadcast(o)
  BY <1>8, BroadcastKeeps
<1>9. CASE RpcFails(o)
  BY <1>9, CatchKeeps DEF RpcFails, Ready, Errors, ALREADY_DONE
<1>10. CASE ConfirmTimesOut(o)
  <2>1. pc[o] \in Sending
    BY <1>1, <1>10 DEF ConfirmTimesOut, ScriptTypes
  <2> QED BY <1>10, <2>1, CatchKeeps DEF ConfirmTimesOut, Errors, ALREADY_DONE
<1>11. CASE Rerun(o)
  <2>1. StageAt("start", 0, NotFetched, {})
    BY DEF StageAt, AboutABook
  <2>2. NotFetched \in Snapshots /\ {} \in SUBSET Nat /\ 0 \in Nat /\ "none" \in Errors /\ "start" \in Labels
    BY DEF NotFetched, Snapshots, Errors, Labels
  <2> QED BY <1>11, <2>1, <2>2, MoveKeeps DEF Rerun, Goto
<1> QED BY <1>3, <1>4, <1>5, <1>6, <1>7, <1>8, <1>9, <1>10, <1>11 DEF Script

-----------------------------------------------------------------------------
(* The inductive invariant and what it implies *)

LEMMA BootstrapInitBInv == BootstrapInit => BInv
<1> SUFFICES ASSUME BootstrapInit PROVE BInv
  OBVIOUS
<1>1. BootstrapInv
  BY InitBootstrapInv DEF BootstrapInit
<1>2. ScriptTypes /\ FlightTypes
  BY DEF BootstrapInit, ScriptTypes, FlightTypes, Labels, Errors, Snapshots, NotFetched
<1>3. \A o \in Operators : Stage(o) /\ SettledHolds(o)
  BY DEF BootstrapInit, Stage, StageAt, SettledHolds, AboutABook
<1> QED BY <1>1, <1>2, <1>3 DEF BInv, ScriptInv

\* Whatever order the runs, the cluster and its losses take turns in.
LEMMA BootstrapStepKeeps == BInv /\ [BootstrapNext]_allVars => BInv'
<1> SUFFICES ASSUME BInv, [BootstrapNext]_allVars PROVE BInv'
  OBVIOUS
<1>1. CASE \E o \in Operators :
              Script(o) \/ Broadcast(o) \/ RpcFails(o) \/ ConfirmTimesOut(o) \/ Rerun(o)
  BY <1>1, RunKeeps
<1>2. CASE \E tx \in flight : Land(tx) \/ Drop(tx)
  BY <1>2, LandKeeps, DropKeeps
<1>3. CASE UNCHANGED allVars
  <2>1. UNCHANGED <<vars, pc, book, seen, todo, attempt, sent, error, flight>>
    BY <1>3 DEF allVars, scriptVars
  <2>2. BootstrapInv'
    BY <2>1, StutterKeeps DEF BInv
  <2>3. ScriptInv'
    BY <2>1 DEF BInv, ScriptInv, ScriptTypes, FlightTypes, Stage, StageAt, SettledHolds, Effect,
                Loaded, AllComplete, Transaction, Batch, vars
  <2> QED BY <2>2, <2>3 DEF BInv
<1> QED BY <1>1, <1>2, <1>3 DEF BootstrapNext

THEOREM ScriptInvariant == BootstrapSpec => []BInv
BY BootstrapInitBInv, BootstrapStepKeeps, PTL DEF BootstrapSpec

\* A run that reports the canon sealed is right, for any number of runs at
\* once, any batch size and any schedule of losses, retries and reruns.
THEOREM SealedWhenDone == BootstrapSpec => []DoneMeansSealed
<1>1. BInv => DoneMeansSealed
  BY DEF BInv, ScriptInv, Stage, StageAt, DoneMeansSealed
<1> QED BY <1>1, ScriptInvariant, PTL

\* The program never turns a run away for coming too early.
THEOREM NoRunComesTooEarly == BootstrapSpec => []NeverTooEarly
<1>1. BInv => NeverTooEarly
  BY DEF BInv, ScriptInv, ScriptTypes, Errors, NeverTooEarly
<1> QED BY <1>1, ScriptInvariant, PTL

\* Batches of loads, repeated and late ones included, keep what the program's
\* own transactions keep.
THEOREM BatchesKeepInvariant == BootstrapSpec => []BatchesKeepTheProgramInvariant
<1>1. BInv => BatchesKeepTheProgramInvariant
  BY DEF BInv, BatchesKeepTheProgramInvariant
<1> QED BY <1>1, ScriptInvariant, PTL

\* What a run has read or confirmed is never undone: no account disappears,
\* no chapter is unloaded, no book reopened, no seal broken.  So a run may act
\* on what it read long ago.
THEOREM NothingIsUndone == BootstrapSpec => [][Grows]_allVars
<1>1. BInv /\ [BootstrapNext]_allVars => [Grows]_allVars
  <2> SUFFICES ASSUME BInv, BootstrapNext PROVE Grows
    OBVIOUS
  <2>1. CASE UNCHANGED vars
    BY <2>1 DEF Grows, vars
  <2>2. CASE \E tx \in flight : Land(tx)
    BY <2>2, LandGrows
  <2>3. UNCHANGED vars \/ \E tx \in flight : Land(tx)
    <3>1. ASSUME NEW o \in Operators,
                 Script(o) \/ Broadcast(o) \/ RpcFails(o) \/ ConfirmTimesOut(o) \/ Rerun(o)
          PROVE  UNCHANGED vars
      BY <3>1 DEF Script, FetchConfig, FetchBook, NextBook, PreflightFails, Confirmed,
                  Broadcast, RpcFails, ConfirmTimesOut, Rerun
    <3>2. ASSUME NEW tx \in flight, Drop(tx) PROVE UNCHANGED vars
      BY <3>2 DEF Drop
    <3> QED BY <3>1, <3>2 DEF BootstrapNext
  <2> QED BY <2>1, <2>2, <2>3
<1> QED BY <1>1, ScriptInvariant, PTL DEF BootstrapSpec
=============================================================================
