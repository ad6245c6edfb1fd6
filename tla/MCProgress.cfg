SPECIFICATION MCSpec
CONSTANTS
    NoPayload = NoPayload
    Omitted = Omitted
    t = t
    u = u
    Texts = {t, u}
    Canons <- MCCanons
    Seeders = {s1, s2}
    CHUNK = 3
    MAX_WRITES = 1
    Payloads = {p1, p2, p3}
    MAX_LEAVES = 5
    NoAnswer = NoAnswer
    Error = Error
    HEAT_FLOOR <- MCFloor
    MAX_VISITS = 2
INVARIANTS
    SeededServesTheCanon
    SeededMirrorsTheCanon
    CommitmentBindsAddresses
    EveryLeafHasAShortProof
    OnlyLeavesOpen
    SameRootSameLeaves
    DenominatorsAgree
    DashboardAddsUp
PROPERTIES
    SeedOnlyFillsGaps
    DetailFollowsTile
SYMMETRY Symmetry
CHECK_DEADLOCK FALSE
