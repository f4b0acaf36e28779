SPECIFICATION InspectSpec
CONSTANTS
    r1 = r1
    d1 = d1
    s1 = s1
    Repos = {r1}
    Digests = {d1}
    Sizes = {s1, s2}
    None = None
    NoKey = NoKey
    MaxFaults = 1
CONSTANT BlobSize <- MCBlobSize
INVARIANTS
    InspectTypeOK
    NothingMissed
    NothingInvented
    UndisturbedIsExact
    StandingFailureIsFound
    RefsDisagreeOnlyOnChange
    StandingFailureIsListed
PROPERTIES
    InspectReturns
CHECK_DEADLOCK FALSE
