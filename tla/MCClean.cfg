SPECIFICATION MCSpec
CONSTANTS
    r1 = r1
    r2 = r2
    d1 = d1
    s1 = s1
    s2 = s2
    Repos = {r1, r2}
    Digests = {d1}
    Sizes = {s1, s2}
    None = None
    NoKey = NoKey
    Batch = 2
    Retry = 1
    MaxWrites = 1
INVARIANTS
    TypeOK
    ReportAddsUp
    AppliedIsGone
    HalfAppliedDegrades
PROPERTIES
    NoCollateral
    EvictionOnly
    Terminates
CHECK_DEADLOCK FALSE
