SPECIFICATION FairSpec
CONSTANTS
    Workers = {w1, w2}
    NoWorker = NoWorker
    Jobs <- WebhookJobs
    RemoteStates <- DunningStates
    Onboarded = TRUE
    Burst = 0
    NoTime = NoTime
    Named = TRUE
    Extensions = {1}
    MaxVersions = 3
    MaxTime = 2
    MaxAborts = 1
INVARIANTS ClockOnlyInDunning
PROPERTIES GraceNotRestarted EveryTransitionAudited MirrorPromise EventuallyMirrored
CHECK_DEADLOCK FALSE
