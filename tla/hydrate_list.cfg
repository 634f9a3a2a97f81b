SPECIFICATION FairSpec
CONSTANTS
    Keys = {"env", "tools"}
    DryRepo <- OneRepo
    Groups <- TwoGroups
    Manifests <- SomeManifests
    Annotated = {"b"}
    Processors = 2
    Plans <- ListPlans
PROPERTIES
    ListFailureIsRetried
CHECK_DEADLOCK FALSE
