SPECIFICATION FairSiteSpec
CONSTANTS
    Verses = {here}
    Wallets = {me, other}
    Cycles = {c1}
    None = None
    MAX_TX = 1
    MAX_REORGS = 0
    here = here
    me = me
    MAX_CLICKS = 2
INVARIANTS
    ShownRegistrationIsReal
PROPERTIES
    PanelSettles
CHECK_DEADLOCK FALSE
