CONSTANTS
    MaxFailures = 4
    MaxSends = 2
SPECIFICATION Spec
INVARIANTS
    StagesHold
    RestIsAnswered
PROPERTIES
    ComesToRest
CHECK_DEADLOCK FALSE
