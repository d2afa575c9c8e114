SPECIFICATION Spec
CONSTANTS
    System <- spSystem
    UserComponent <- mcUser
    MaxId = 3
    Index <- spIndex
    Include <- spInclude
    Exclude <- spExclude
    Reducer <- mcReducer
    Initial = {"boss"}
    Guarded = {}
    Timed = {}
    Menu <- spMenu
    SpawnItems <- mcSpawnItems
    ExternalWrites = {}
    UserCodeThrows = FALSE
    ExternalMayThrow = TRUE
    HasAdapter = FALSE
    SaveEvery = 0
    SaveMayFail = FALSE
    Limit = 2
    MaxOps = 2
    MaxRuns = 1
INVARIANTS
    NoPhantomDirt
    FreshSpawns
