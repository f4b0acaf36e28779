SPECIFICATION Spec
CONSTANTS
    N = 2
    Parallel = 1
    Workers = 2
INVARIANTS
    TypeOK
    FailuresAreContained
    CapUpToFailures
    CleanNeverOverlapsScan
    EveryWholeScanIsCleaned
    OutputIsComplete
    CronSeesStrictFailures
PROPERTIES
    CommandReturns
CHECK_DEADLOCK FALSE
