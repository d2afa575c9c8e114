SPECIFICATION Spec
CONSTANTS
    HasPolicy = TRUE
    RetryMax = 1
    Limit = 5
    Careful = TRUE
    MayCrash = TRUE
    MaxReplies = 2
    MaxSends = 2
    MaxFailures = 3
    Estimate <- Cost
    Windows <- SmallWindows
INVARIANTS
    ChatSafety
    TurnsAreAccountedFor
    WindowIsValid
CHECK_DEADLOCK FALSE
