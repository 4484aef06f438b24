\* A peer with SFR enabled talking to one without: no loss at all.
CONSTANTS
    Ini = Ini
    Res = Res
    None = None
    NoTracker = NoTracker
    Work <- WorkSetup
    Frags <- FragsAuth
    SfrEnabled <- SfrInitiatorOnly
    Tries = 1
    MaxLoss = 0
    MaxDup = 0
SPECIFICATION Spec
INVARIANT GiveUpNeedsLosses
CHECK_DEADLOCK FALSE
