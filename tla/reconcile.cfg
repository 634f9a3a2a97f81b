SPECIFICATION FairSpec
CONSTANTS
    Resources = {"a", "b"}
    Sources = {1, 2}
    MaxRev = 3
    Manifests <- TwoSources
    Drifted = 9
    Plans <- RefreshPlans
INVARIANTS
    QuietStatusIsRight
    RefreshNotLost
    FailureIsNotRepeated
PROPERTIES
    NoRollback
    ImplementsSlot
    Settles
