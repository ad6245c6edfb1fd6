SPECIFICATION Spec
CONSTANTS
    TOTAL = 2
    BATCH_SIZE = 2
    SEND_CONCURRENCY = 2
    SEND_ATTEMPTS = 2
    me = me
    other = other
INVARIANTS
    FailedCanBeRetried
CHECK_DEADLOCK FALSE
