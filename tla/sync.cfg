SPECIFICATION FairSpec
CONSTANT
    Plans <- SyncPlans
INVARIANTS
    SuccessMeansDone
    FailureRunsSyncFail
    HooksAreReleased
PROPERTIES
    EarlierWavesAreHealthy
    PrunesAreReversed
    DryRunSparesResources
    SyncEnds
