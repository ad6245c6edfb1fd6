SPECIFICATION FairSpec
CONSTANTS
    Verses = {1, 2}
    Runs = {1, 2}
    NoAnswer = NoAnswer
INVARIANTS
    OneRunAtATime
    RegisteredShownIsReal
PROPERTIES
    PageCatchesUp
CHECK_DEADLOCK FALSE
