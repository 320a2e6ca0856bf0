SPECIFICATION Spec
CONSTANTS
    Workers = {w1, w2}
    NoWorker = NoWorker
    Jobs <- AllJobs
    RemoteStates <- DunningStates
    Onboarded = TRUE
    Burst = 0
    NoTime = NoTime
    Named = TRUE
    Extensions <- Moves
    MaxVersions = 3
    MaxTime = 1
    MaxAborts = 1
SYMMETRY WorkerSymmetry
INVARIANTS TypeOK QuiescentMirror
PROPERTIES MonotonicMirror
CHECK_DEADLOCK FALSE
