SPECIFICATION FairSpec
CONSTANTS
    Grace = 3
    Unset = Unset
    Extensions <- Moves
    Patience = 1
    MaxTime = 9
    MaxChanges = 3
    MaxExtensions = 2
    MaxFailures = 1
INVARIANTS TypeOK ReportedOnce LapseReported
PROPERTIES EventuallyReported
CHECK_DEADLOCK FALSE
