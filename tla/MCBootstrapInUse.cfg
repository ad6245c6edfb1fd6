SPECIFICATION BootstrapSpec
CONSTANTS
    BOOK_COUNT = 2
    CHAPTERS_PER_BOOK <- MCChapters
    MAX_COMMITMENT_PROOF = 2
    MAX_VERSE_PROOF = 2
    MAX_VERSE_BYTES = 3
    BYTE = 2
    Wallets = {}
    VerseNumbers = {}
    Texts = {}
    TextBytes <- MCTextBytes
    Roots = {jude1, ps1, ps2, ps3}
    ZeroRoot = zero
    ROOTS_COMMITMENT <- MCCommitment
    ChapterTree <- MCChapterTree
    Operators = {op1}
    LOADS_PER_TX = 2
    ATTEMPTS = 2
    MAX_FLIGHT = 2
    op1 = op1
    op2 = op2
    jude1 = jude1
    ps1 = ps1
    ps2 = ps2
    ps3 = ps3
    zero = zero
INVARIANTS
    LandedIsSuccess
CHECK_DEADLOCK FALSE
