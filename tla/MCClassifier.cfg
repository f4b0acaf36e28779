SPECIFICATION Spec
CONSTANTS
    Repos = {r1, r2}
    Digests = {d1, d2}
    Sizes = {s1, s2}
    None = None
    NoKey = NoKey
SYMMETRY Symmetry
INVARIANTS
    TypeOK
    VerdictMatchesPull
    NothingUnaccounted
CHECK_DEADLOCK FALSE
