SPECIFICATION ScanSpec
CONSTANTS
    N = 3
    Parallel = 1
    Workers = 3
INVARIANTS
    Capped
CHECK_DEADLOCK FALSE
