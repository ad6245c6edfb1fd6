SPECIFICATION Spec
CONSTANTS
    Verses = {"gen1_1"}
    Wallets = {ana, ben}
    Cycles = {"cron"}
    None = None
    MAX_TX = 2
    MAX_REORGS = 0
    ana = ana
    ben = ben
PROPERTIES
    NeverWalkedBack
