\* SFR on the responder only, one loss.
CONSTANTS
    Ini = Ini
    Res = Res
    None = None
    NoTracker = NoTracker
    Work <- WorkSetup
    Frags <- FragsAuth
    SfrEnabled <- SfrResponderOnly
    Tries = 1
    MaxLoss = 1
    MaxDup = 0
SPECIFICATION Spec
INVARIANT GiveUpNeedsLosses
CHECK_DEADLOCK FALSE
