SPECIFICATION DurabilitySpec
CONSTANTS
    Workers = {k1, k2}
    Flushers = {f1}
    Threshold = 1
    BufSize = 1
    MaxCommits = 2
    MaxInc = 2
    MaxMishaps = 1
    Committers = {0, 1}
    WAL_STRIPES = 2
    WalBatches <- MCBatches
    WalBufferCap = 2
    MaxWalFaults = 1
    CatJobs = {1, 2}
    CatKinds = {"flush", "compact", "move", "create", "drop", "clear", "mark", "enable"}
    MAX_EDITS_BEFORE_SNAPSHOT = 1
    MaxCatJobs = 3
    MaxCatCrashes = 1
    MaxCatFaults = 1
    MaxCatIds = 3
    TierCallers = {1, 2}
    TierScenarios <- MCTierScenarios
    MaxTableId = 6
    UpOpeners = {1, 2}
    UpBudgets <- MCBudgets
    MaxRebuilds = 2
INVARIANTS AppendsSurvive SealOrder OwnRecordsOnly CallsProceed  HandoffsHold EveryCrashOpens TablesHold ArtifactsHold UpgradeKeepsData
PROPERTIES CatalogImplements
CHECK_DEADLOCK FALSE
