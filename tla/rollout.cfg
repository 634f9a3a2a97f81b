SPECIFICATION FairSpec
CONSTANTS
    Apps = {"a", "b", "c"}
    NameOrder <- ABC
    Plans <- RolloutPlans
    NoApp = NoApp
    NoEntry = NoEntry
INVARIANT AtMostMaxUpdate
INVARIANT PolicyKeepsApplications
PROPERTY WavesInOrder
 
PROPERTY RolloutCompletes
PROPERTY SetIsDeleted
CHECK_DEADLOCK FALSE
