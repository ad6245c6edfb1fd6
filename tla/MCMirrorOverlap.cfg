SPECIFICATION Spec
CONSTANTS
    Verses = {"gen1_1"}
    Wallets = {ana, ben}
    Cycles = {"cron", "tick"}
    None = None
    MAX_TX = 3
    MAX_REORGS = 0
    ana = ana
    ben = ben
PROPERTIES
    PendingLeftAlone
