SPECIFICATION Spec
CONSTANTS
    Ids = {x}
    MaxGen = 3
    Data = {}
    MaxPrepares = 2
    MaxCrashes = 1
    StallThreshold = 2
    Flusher = Flusher
INVARIANT PrepareIdsUnique
CHECK_DEADLOCK FALSE
