SPECIFICATION FairSpec
CONSTANTS
    Verses = {"gen1_1"}
    Wallets = {ana, ben}
    Cycles = {"cron"}
    None = None
    MAX_TX = 2
    MAX_REORGS = 1
    ana = ana
    ben = ben
INVARIANTS
    TypeOK
    NeverFabricates
PROPERTIES
    StatusFollowsDomain
    BeatMeansSwept
    MirrorConverges
    PendingIsResolved
