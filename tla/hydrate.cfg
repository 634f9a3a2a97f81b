SPECIFICATION FairSpec
CONSTANTS
    Keys = {"env", "tools"}
    DryRepo <- OneRepo
    Groups <- TwoGroups
    Manifests <- SomeManifests
    Annotated = {"b"}
    Processors = 2
    Plans <- MCPlans
INVARIANTS
    HydratedIsCommitted
    RevisionsAreNotMixed
PROPERTIES
    NotesAreKept
    BranchCatchesUp
CHECK_DEADLOCK FALSE
