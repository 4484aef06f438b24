\* Task ownership across every queue operation, with one failure, one reset.
CONSTANTS
    None = None
    MaxIds = 6
    TaskTypes <- ChainAndRekey
    MaxFail = 1
    MaxReset = 1
    SplitStates <- BeforeAndAfterInit
SPECIFICATION Spec
INVARIANTS TypeOK TaskOwnership
\* a destroyed IKE_SA, or one whose clients stopped, has nothing left to do
CHECK_DEADLOCK FALSE
