SPECIFICATION FairSpec
CONSTANTS
    Resources = {"db", "web", "crd"}
    PreHooks = {"dump"}
    PostHooks = {"notify"}
    Wave <- TwoWaves
    Kept = {"crd"}
    Confirm = {"db"}
    Policies <- SucceededPolicies
    HookOutcomes = {"healthy", "degraded"}
    Plans <- DeletionPlans
INVARIANTS
    NothingOutlivesTheApplication
    HooksRanByTheEnd
    HooksAreCleanedUp
    StatusImpliesFinalizers
PROPERTIES
    DeletionInOrder
    DeletionCompletes
CHECK_DEADLOCK FALSE
