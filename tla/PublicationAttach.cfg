CONSTANTS
    Threads = {t1}
    Pins = {p1}
    MaxBatch = 1
    MaxSeq = 3
    NoPin = NoPin
SPECIFICATION SpecWithAttach
INVARIANT SnapshotStable
