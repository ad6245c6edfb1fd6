SPECIFICATION FairSpec
CONSTANTS
    TOTAL = 3
    BATCH_SIZE = 2
    SEND_CONCURRENCY = 2
    SEND_ATTEMPTS = 2
    me = me
    other = other
INVARIANTS
    SettledOnce
    DuplicateIsNotOurs
PROPERTIES
    ImplementsBulkRun
    RunReturns
CHECK_DEADLOCK FALSE
