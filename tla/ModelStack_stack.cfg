SPECIFICATION FairSpec
CONSTANTS
    Caller = {"ask1", "ask2"}
    Streams = {"ask1"}
    Prompts <- mcPrompts
    Opaque = {"opaque"}
    Window = 3
    MaxRetry = 1
    MaxEntries = 1
    Turns = 1
    MaxTime = 1
INVARIANTS
    AnswersAreTrue
    BooksBalance
PROPERTIES
    NoAttemptAfterStop
    ChainDeadlineEnds
CHECK_DEADLOCK FALSE
