\* Two lost IKE_AUTH packets between two SFR peers, retransmit.tries = 2.
CONSTANTS
    NFrags = 3
    PeerSfr = TRUE
    Tries = 2
    HalfOpenTimeout <- HalfOpenDefault
    RetxBaseMs = 4000
    RetxFactor <- BackoffFactor
    MaxLoss = 2
    NoJob = NoJob
SPECIFICATION Spec
INVARIANT LossesRecovered
CHECK_DEADLOCK FALSE
