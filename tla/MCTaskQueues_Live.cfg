\* Every task waiting on an established IKE_SA leaves the queue, under fair responses and timers.
CONSTANTS
    None = None
    MaxIds = 7
    TaskTypes <- ChainAndDpd
    MaxFail = 1
    MaxReset = 1
    SplitStates = {}
SPECIFICATION FairSpec
PROPERTIES QueuedTaskRuns
\* a destroyed IKE_SA, or one whose clients stopped, has nothing left to do
CHECK_DEADLOCK FALSE
