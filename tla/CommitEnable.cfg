CONSTANTS
    Keys = {1, 2}
    Spans <- MCSpans
    Capacity = 2
    Unpinned = {a}
    Snapshot = {b}
    Serializable = {c}
    Pessimistic = {c}
    MaxWrites = 1
    Retrying = {}
    NoTxn = NoTxn
SPECIFICATION Spec
CHECK_DEADLOCK FALSE
INVARIANT RangeCommitsSafe
