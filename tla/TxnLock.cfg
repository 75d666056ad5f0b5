CONSTANTS
    Txns = {1, 2, 3}
    Keys = {k1, k2}
    Refreshing = {1, 3}
    Serializable = {3}
    Preparing = {2}
    NoKey = NoKey
    SweepAt = 1
    MaxSeq = 1
SPECIFICATION Spec
CHECK_DEADLOCK FALSE
INVARIANTS
    GrantedMeansOwned
    WaitersOlder
    FreeStampedExact
    ShutdownParksNobody
    GrantSeesPredecessor
PROPERTIES
    WaiterReturns
