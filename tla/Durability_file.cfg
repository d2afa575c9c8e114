SPECIFICATION Spec
CONSTANTS
    Adapters = {TRUE, FALSE}
    SaveEvery = 1
    SaveMayFail = TRUE
    BarrierRejects = TRUE
    Rewinding = {TRUE}
    HooksMayThrow = TRUE
    SpawnsMayThrow = TRUE
    TraceKeep = 2
    MaxStep = 3
    MaxContent = 6
INVARIANTS
    TypeOK
    
    TraceIsOneTimeline
PROPERTIES
    
    RestartLosesNothingAcked
