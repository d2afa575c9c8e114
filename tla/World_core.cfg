SPECIFICATION FairSpec
CONSTANTS
    System <- mcSystem
    UserComponent <- mcUser
    MaxId = 1
    Index <- mcIndex
    Include <- mcInclude
    Exclude <- mcExclude
    Reducer <- mcReducer
    Initial <- mcSystem
    Guarded = {"plan"}
    Timed = {"plan", "act"}
    Menu <- mcMenu
    SpawnItems <- mcSpawnItems
    ExternalWrites = {"Task"}
    UserCodeThrows = FALSE
    ExternalMayThrow = FALSE
    HasAdapter = TRUE
    SaveEvery = 1
    SaveMayFail = TRUE
    Limit = 2
    MaxOps = 1
    MaxRuns = 2
INVARIANTS
    TypeOK
    NoMissedInput
    StatusIsTrue
PROPERTIES
    CancelStopsScheduling
    FailureRecorded
    RunTerminates
