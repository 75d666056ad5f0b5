SPECIFICATION Spec
CONSTANTS
    Ids = {x}
    MaxGen = 3
    Data = {d1}
    MaxPrepares = 1
    MaxCrashes = 0
    StallThreshold = 3
    Flusher = Flusher
INVARIANT PrepareOnDisk
CHECK_DEADLOCK FALSE
