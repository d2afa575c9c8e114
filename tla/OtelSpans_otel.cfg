SPECIFICATION Spec
CONSTANTS
    Instrument = {1, 2}
    Pair = {11}
    MaxSteps = 2
    Reader = {1}
    Event <- EventValue
INVARIANTS
    SpansAreTrue
    TimelineShowsAll
PROPERTIES
    StreamIsLog
    ReadersEnd
CHECK_DEADLOCK FALSE
