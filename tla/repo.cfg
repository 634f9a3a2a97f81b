SPECIFICATION FairSpec
CONSTANTS
    Reqs = {"p", "q", "r"}
    MaxRefs = 2
    Paths = {"A", "B"}
    Revisions = {1, 2, 3}
    Calls <- MCCalls
    Plans <- ServerPlans
INVARIANT CloneIsTheirs
INVARIANT ManifestsAreRight
INVARIANT PauseIsEarned
INVARIANT DeadlockNeedsCrossing
PROPERTY EveryRequestFinishes
CHECK_DEADLOCK FALSE
