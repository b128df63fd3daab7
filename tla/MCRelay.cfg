CONSTANTS
    r1 = r1
    Requests = {r1}
    None = None
    MaxChunks = 2
    MaxSockets = 5
    MaxFaults = 2
SPECIFICATION Spec
CHECK_DEADLOCK FALSE
INVARIANTS
    HeldAtBothEnds
    CompleteIsWhole
PROPERTIES
    EveryRequestAnswered
    GivenUpIsAborted
    BridgeReturns
