CONSTANTS
    c1 = c1
    c2 = c2
    a = a
    b = b
    None = None
    Callers = {c1, c2}
    Names = {a, b}
    Paths <- MCPaths
    Start <- MCStart
    RetryMax = 1
    MaxResults = 2
    MaxItems = 8
    MaxCalls = 2
    MaxFaults = 1
SPECIFICATION Spec
SYMMETRY Sessions
CHECK_DEADLOCK FALSE
INVARIANTS
    AnsweredIsDone
PROPERTIES
    WholeStaysWhole
    ChunksAreRemoved
