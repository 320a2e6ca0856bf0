SPECIFICATION Spec
CONSTANTS
    Workers = {w1, w2}
    Callers = {"free", "enterprise"}
    Cap <- MCCap
    HourCap = 1
    DayCap = 1
    Second = 2
    Hour = 3
    Day = 6
    Floor = 2
    MaxTime = 6
    MaxRequests = 3
    MaxFailures = 1
SYMMETRY WorkerSymmetry
INVARIANTS TypeOK QuotaHolds CounterExpires DaySpared MirrorCounts
CHECK_DEADLOCK FALSE
