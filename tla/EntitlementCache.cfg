SPECIFICATION Spec
CONSTANTS
    Readers = {r1, r2}
    Writers = {w1}
    Subs <- MCSubs
    Grants <- MCGrants
    Second = 2
    TTL = 2
    StaleTTL = 3
    Grace = 3
    NoTime = NoTime
    Extensions <- Moves
    MaxFill = 1
    MaxTime = 5
    MaxCommits = 2
    MaxFailures = 1
SYMMETRY ReaderSymmetry
INVARIANTS TypeOK StalenessBounded NoCopyFromBefore GraceCapped MarksDrained
PROPERTIES NoLockout
CHECK_DEADLOCK FALSE
