SPECIFICATION FairSpec
CONSTANTS
    Workers = {w1, w2}
    NoWorker = NoWorker
    Jobs <- CheckoutJobs
    RemoteStates <- CheckoutStates
    Onboarded = FALSE
    Burst = 2
    NoTime = NoTime
    Named = TRUE
    Extensions = {1}
    MaxVersions = 2
    MaxTime = 1
    MaxAborts = 1
INVARIANTS OnlyOursRecorded
PROPERTIES FirstCheckoutLands
CHECK_DEADLOCK FALSE
