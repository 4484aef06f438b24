\* Both peers with SFR, no loss: the MID-0 ACK channel and the windows.
CONSTANTS
    Ini = Ini
    Res = Res
    None = None
    NoTracker = NoTracker
    Work <- WorkSetup
    Frags <- FragsAuth
    SfrEnabled <- SfrBoth
    Tries = 1
    MaxLoss = 0
    MaxDup = 0
SPECIFICATION Spec
INVARIANT MidCountsExchanges
CHECK_DEADLOCK FALSE
