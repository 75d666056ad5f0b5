SPECIFICATION ReadPathSpec
CONSTANTS
    KeyTop = 3
    BlockEntries = 2
    RestartInterval = 1
    TargetEntries = 1
    PartitionStart = 2
    Compactors = {1, 2}
    l1_file_count_trigger = 1
    LsmScenarios <- MCScenarios
    CurTop = 4
    CurStores <- MCStores
    MaxLate = 1
    TxnTop = 3
    TxnModes <- MCTxnModes
    WRITE_INDEX_MIN = 2
    CacheModes <- MCCacheModes
    CacheThreads = {1, 2}
    CacheDbs = {1, 2}
    CLOCK_SWEEP_BUDGET = 1
INVARIANTS ScansAgree GetsAgree InputsStay CursorExact OwnReadsExact CommitOrderExact ReadsAreOwn 
CHECK_DEADLOCK FALSE
