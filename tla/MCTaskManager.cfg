\* Safety of the SFR task managers of both peers, both with SFR enabled,
\* with one loss and one duplicate anywhere.
CONSTANTS
    Ini = Ini
    Res = Res
    None = None
    NoTracker = NoTracker
    Work <- WorkChild
    Frags <- FragsAuth
    SfrEnabled <- SfrBoth
    Tries = 1
    MaxLoss = 1
    MaxDup = 1
SPECIFICATION Spec
INVARIANTS TypeOK AckSound RequestWindow
\* an established SA with every exchange done has nothing left to do
CHECK_DEADLOCK FALSE
