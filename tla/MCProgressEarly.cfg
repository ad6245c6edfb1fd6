SPECIFICATION MCSpec
CONSTANTS
    NoPayload = NoPayload
    Omitted = Omitted
    t = t
    u = u
    Texts = {t, u}
    Canons <- MCCanons
    Seeders = {s1}
    CHUNK = 3
    MAX_WRITES = 1
    Payloads = {}
    MAX_LEAVES = 0
    NoAnswer = NoAnswer
    Error = Error
    HEAT_FLOOR <- MCFloor
    MAX_VISITS = 0
INVARIANTS
    ComputedOnce
CHECK_DEADLOCK FALSE
