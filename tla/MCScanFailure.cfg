SPECIFICATION Spec
CONSTANTS
    r1 = r1
    d1 = d1
    s1 = s1
    Repos = {r1}
    Digests = {d1}
    Sizes = {s1, s2}
    None = None
    NoKey = NoKey
    MaxFaults = 1
CONSTANT BlobSize <- MCBlobSize
INVARIANTS
    RealFailureIsReal
CHECK_DEADLOCK FALSE
