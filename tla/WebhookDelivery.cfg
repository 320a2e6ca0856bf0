SPECIFICATION FairSpec
CONSTANTS
    Workers = {w1, w2, w3}
    Events = {e1, e2}
    NoEvent = NoEvent
    Overlapping = {e2}
    MaxFailures = 2
INVARIANTS TypeOK AcceptedMeansApplied AcceptedMeansOwned ProcessedMeansApplied
PROPERTIES EventuallyHandled
