CONSTANTS
    c1 = c1
    c2 = c2
    Covers <- TwoCovers
    Guide = guide
    Stopper = stopper
    Bounds <- RunBounds
SPECIFICATION RunsSpec
INVARIANTS
    RunsTypeOK
    AbortedRunsAreStopped
    OneDriver
    OneModelPerRun
    UnsettledIsBusy
PROPERTIES
    RunsEnd
CHECK_DEADLOCK FALSE
