SPECIFICATION Spec
CONSTANTS
    Ids = {x, y}
    MaxGen = 3
    Data = {d1}
    MaxPrepares = 2
    MaxCrashes = 1
    StallThreshold = 2
    Flusher = Flusher
SYMMETRY IdSymmetry
INVARIANTS
    AckedKept
    DecisionsKept
    PreparesKept
    NoPhantomPrepare
    NothingResurrected
    NothingWithheld
CHECK_DEADLOCK FALSE
