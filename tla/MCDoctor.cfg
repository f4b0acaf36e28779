SPECIFICATION DoctorSpec
CONSTANTS
    Repos = {r1, r2}
    Digests = {d1}
    Sizes = {s1, s2}
    None = None
    NoKey = NoKey
    Batch = 2
    Retry = 1
    MaxWrites = 1
    MaxFailures = 1
INVARIANTS
    DoctorTypeOK
    OneRunRemovesFailures
    OneRunLeavesSharedC2
    TwoRunsConverge
PROPERTIES
    EventuallyConverges
CHECK_DEADLOCK FALSE
