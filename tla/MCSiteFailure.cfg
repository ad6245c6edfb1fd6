SPECIFICATION SiteSpec
CONSTANTS
    Verses = {here}
    Wallets = {me, other}
    Cycles = {c1}
    None = None
    MAX_TX = 2
    MAX_REORGS = 0
    here = here
    me = me
    MAX_CLICKS = 1
PROPERTIES
    FailureIsTold
CHECK_DEADLOCK FALSE
