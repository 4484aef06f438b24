\* A fragmented CREATE_CHILD_SA on an established SA, no loss.
CONSTANTS
    Ini = Ini
    Res = Res
    None = None
    NoTracker = NoTracker
    Work <- WorkChild
    Frags <- FragsAuthChild
    SfrEnabled <- SfrBoth
    Tries = 1
    MaxLoss = 0
    MaxDup = 0
SPECIFICATION FairSpec
PROPERTY ExchangeCompletes
CHECK_DEADLOCK FALSE
