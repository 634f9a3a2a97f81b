SPECIFICATION FairSpec
CONSTANTS
    MaxOps = 2
    Limits <- AnyLimit
    MaxRetries = 2
    FaultKinds = {"get", "crash"}
    MaxFaults = 1
    SyncTimeout = TRUE
    RollingSync = FALSE
INVARIANTS
    NoOrphanedProgress
    ProgressBelongsToOperation
PROPERTIES
    RetryBudgetHonoured
    ImplementsSlot
    OperationCompletes
