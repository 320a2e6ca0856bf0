SPECIFICATION Spec
CONSTANTS
    Workers = {w1, w2}
    Events = {e1}
    NoEvent = NoEvent
    Overlapping = {e1}
    MaxFailures = 1
INVARIANTS DuplicateMeansProcessed
