SPECIFICATION Spec
CONSTANTS
    MaxOps = 2
    Limits <- OneRetry
    MaxRetries = 2
    FaultKinds = {"lost", "crash"}
    MaxFaults = 1
    SyncTimeout = FALSE
    RollingSync = TRUE
PROPERTY
    SeenTerminationIsKept
