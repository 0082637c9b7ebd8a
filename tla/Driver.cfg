SPECIFICATION Spec
CONSTANTS
    j = j
    k = k
    Jobs = {j, k}
    Plans <- MCPlans
INVARIANT TypeOK
PROPERTIES
    SuccessDelivers
    OnlyIntermediates
    DllIntact
    RunEnds
CHECK_DEADLOCK FALSE
