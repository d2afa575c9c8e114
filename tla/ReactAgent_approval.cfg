SPECIFICATION Spec
CONSTANTS
    HasPolicy = TRUE
    RetryMax = 1
    Limit = 4
    Careful = FALSE
    MayCrash = FALSE
    MaxReplies = 3
    MaxSends = 2
    MaxFailures = 0
INVARIANTS
    OnlyApprovedRun
CHECK_DEADLOCK FALSE
