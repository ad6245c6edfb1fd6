SPECIFICATION Spec
CONSTANTS
    BOOK_COUNT = 2
    CHAPTERS_PER_BOOK <- MCChapters
    MAX_COMMITMENT_PROOF = 2
    MAX_VERSE_PROOF = 2
    MAX_VERSE_BYTES = 3
    BYTE = 2
    Wallets = {alice, bob}
    VerseNumbers = {1, 2}
    Texts = {"empty", "short", "longest", "forged", "toolong"}
    TextBytes <- MCTextBytes
    Roots = {jude1, ps1, ps2, ps3, forged}
    ZeroRoot = zero
    ROOTS_COMMITMENT <- MCCommitment
    ChapterTree <- MCChapterTree
    alice = alice
    bob = bob
    jude1 = jude1
    ps1 = ps1
    ps2 = ps2
    ps3 = ps3
    forged = forged
    zero = zero
INVARIANTS
    TypeOK
    LoadedIsHonest
    RootsAreCommitted
    SealedIsWhole
    NoVerseLeftBehind
PROPERTIES
    ImplementsRegistry
CHECK_DEADLOCK FALSE
