SPECIFICATION FairSpec
CONSTANTS
    Caller = {a, b, c, d}
    Concurrency = 2
    MinInterval = 2
    MaxCalls = 4
    MaxTime = 1
INVARIANTS
    GateSafety
PROPERTIES
    WaitersServed
CHECK_DEADLOCK FALSE
