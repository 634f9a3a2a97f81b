SPECIFICATION Spec
CONSTANT
    Plans <- GuardedPlans
INVARIANT
    InvalidIsRefused
