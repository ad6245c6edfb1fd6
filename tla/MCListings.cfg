SPECIFICATION MCSpec
SYMMETRY WalletsAreAlike
CONSTANTS
    TOTAL = 3
    Times = {1, 2}
    PAGE_SIZE = 3
    MAX_PAGE_SIZE = 2
    Filters = {"recent", "available"}
    Wallets = {w1, w2}
    NoAnswer = NoAnswer
    MAX_CHANGES = 1
    MAX_CLICKS = 2
INVARIANTS
    NothingMissed
    EachOnOnePage
    NoEmptyPage
CHECK_DEADLOCK FALSE
