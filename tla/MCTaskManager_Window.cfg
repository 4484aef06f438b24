\* Refinement of ExchangeWindow, SFR on the initiator only (the responder
\* sends no MID-0 ACKs), with one loss and one duplicate anywhere.
CONSTANTS
    Ini = Ini
    Res = Res
    None = None
    NoTracker = NoTracker
    Work <- WorkChild
    Frags <- FragsAuth
    SfrEnabled <- SfrInitiatorOnly
    Tries = 1
    MaxLoss = 1
    MaxDup = 1
SPECIFICATION FairSpec
PROPERTIES WindowSpec WindowEnds
\* an established SA with every exchange done has nothing left to do
CHECK_DEADLOCK FALSE
