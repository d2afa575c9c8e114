SPECIFICATION Spec
CONSTANTS
    MaxContent = 2
    MaxRuns = 1
    Span = {s1, s2}
    MaxExports = 2
    SpanBuffer = 1
    MaxConns = 2
    MaxRequests = 2
    MaxUnread = 1
    EventCap = 2
    SpanCap = 2
INVARIANTS
    PageSafety
    SpansShownOnce
    RequestsSettle
SYMMETRY Symmetry
CHECK_DEADLOCK FALSE
