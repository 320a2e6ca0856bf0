SPECIFICATION Spec
CONSTANTS
    Workers = {w1, w2}
    NoWorker = NoWorker
    Jobs <- OperatorJobs
    RemoteStates <- DunningStates
    Onboarded = TRUE
    Burst = 0
    NoTime = NoTime
    Named = TRUE
    Extensions = {1}
    MaxVersions = 3
    MaxTime = 2
    MaxAborts = 0
SYMMETRY WorkerSymmetry
PROPERTIES GraceNotRestarted
CHECK_DEADLOCK FALSE
