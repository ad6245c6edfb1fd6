SPECIFICATION Spec
CONSTANTS
    Keys = {k1, k2}
    CAPACITY = 4
    COST = 2
    MAX_IDLE = 4
    MAX_TIME = 8
INVARIANTS
    GrantsAreBounded
    RetryIsHonest
CHECK_DEADLOCK FALSE
