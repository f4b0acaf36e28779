SPECIFICATION Spec
CONSTANTS
    N = 2
    Parallel = 0
    Workers = 2
INVARIANTS
    RefusedIsSeen
CHECK_DEADLOCK FALSE
