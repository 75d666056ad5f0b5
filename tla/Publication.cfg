CONSTANTS
    Threads = {t1, t2}
    Pins = {p1, p2}
    MaxBatch = 2
    MaxSeq = 3
    NoPin = NoPin
SPECIFICATION Spec
INVARIANTS
    InFlightInvisible
    SnapshotStable
    ReadFloorKept
PROPERTIES
    OwnCommitBecomesVisible
