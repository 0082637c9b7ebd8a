SPECIFICATION Spec
CONSTANTS
    j = j
    k = k
    Jobs = {j, k}
    Plans <- LinkPlans
INVARIANT LinksStartup
CHECK_DEADLOCK FALSE
