SPECIFICATION Spec
CONSTANTS
    Queries = {"light", "ark"}
    Hits <- MCHits
    SEARCH_PAGE_SIZE = 2
    MAX_SEARCH_LIMIT = 3
    NoAnswer = NoAnswer
INVARIANTS
    EveryHitIsReachable
