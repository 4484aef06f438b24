\* Both peers with SFR, one loss.
CONSTANTS
    Ini = Ini
    Res = Res
    None = None
    NoTracker = NoTracker
    Work <- WorkSetup
    Frags <- FragsAuth
    SfrEnabled <- SfrBoth
    Tries = 1
    MaxLoss = 1
    MaxDup = 0
SPECIFICATION FairSpec
PROPERTY ExchangeCompletes
CHECK_DEADLOCK FALSE
