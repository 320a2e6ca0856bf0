SPECIFICATION Spec
CONSTANTS
    Grace = 3
    Unset = Unset
    Extensions = {3}
    Patience = 1
    MaxTime = 9
    MaxChanges = 1
    MaxExtensions = 1
    MaxFailures = 0
INVARIANTS EveryLapseReported
CHECK_DEADLOCK FALSE
