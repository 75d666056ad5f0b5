SPECIFICATION Spec
CONSTANTS
    Ids = {x}
    MaxGen = 3
    Data = {d1, d2}
    MaxPrepares = 1
    MaxCrashes = 0
    StallThreshold = 3
    Flusher = Flusher
INVARIANT FloorMeansTabled
CHECK_DEADLOCK FALSE
