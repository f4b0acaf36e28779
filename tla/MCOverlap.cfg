SPECIFICATION OverlapSpec
CONSTANTS
    Repos = {r1, r2}
    Digests = {d1}
    Sizes = {s1, s2}
    None = None
    NoKey = NoKey
    Batch = 2
    Retry = 0
    MaxWrites = 0
SYMMETRY Symmetry
INVARIANTS
    OverlapTypeOK
    BothAppliedAreGone
    OverlapDegrades
    OverlapLeavesSharedC2
PROPERTIES
    OverlapEvictsOnly
CHECK_DEADLOCK FALSE
