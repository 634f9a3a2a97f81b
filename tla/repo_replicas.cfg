SPECIFICATION Spec
CONSTANTS
    Reqs = {"p", "q", "r"}
    MaxRefs = 2
    Paths = {"A", "B"}
    Revisions = {1, 2, 3}
    Calls <- MCCalls
    Plans <- ReplicasPlans
INVARIANT EditorsAreAlone
CHECK_DEADLOCK FALSE
