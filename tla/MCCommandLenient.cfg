SPECIFICATION Spec
CONSTANTS
    N = 2
    Parallel = 0
    Workers = 2
INVARIANTS
    LenientIgnoresFailures
CHECK_DEADLOCK FALSE
