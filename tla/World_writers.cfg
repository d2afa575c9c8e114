SPECIFICATION Spec
CONSTANTS
    System <- twSystem
    UserComponent <- mcUser
    MaxId = 1
    Index <- twIndex
    Include <- twInclude
    Exclude <- twExclude
    Reducer <- mcReducer
    Initial <- twInitial
    Guarded = {}
    Timed = {"right"}
    Menu <- twMenu
    SpawnItems <- mcSpawnItems
    ExternalWrites = {}
    UserCodeThrows = TRUE
    ExternalMayThrow = FALSE
    HasAdapter = FALSE
    SaveEvery = 0
    SaveMayFail = FALSE
    Limit = 1
    MaxOps = 2
    MaxRuns = 2
INVARIANTS
    NoDiscardedEffect
    NoStaleError
PROPERTIES
    MergesAllLand
