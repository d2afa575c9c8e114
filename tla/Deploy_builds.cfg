SPECIFICATION Spec
CONSTANTS
    Build <- mcBuild
    Component <- mcComponent
    Value = {1, 2}
    Defines <- mcDefines
    Uses <- mcUses
    Reads <- mcReads
    Recipe <- mcRecipe
    CalledAt <- mcCalledAt
    RunAt <- mcRunAt
    Broken <- mcBroken
    MaxRecipe = 3
    MaxId = 2
INVARIANTS
    NothingForgotten
    GateTellsTruth
PROPERTIES
    RecipesAscend
    RetiredNamesGone
