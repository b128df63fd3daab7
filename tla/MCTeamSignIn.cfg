CONSTANTS
    k1 = k1
    k2 = k2
    ann = ann
    bob = bob
    Clients = {k1, k2}
    People = {ann, bob}
    Restricted = TRUE
    None = None
    PendingTtl = 1
    CodeTtl = 1
    MaxLookups = 2
    MaxPending = 1
    MaxUsers = 1
    MaxFlows = 2
    MaxCallbacks = 2
    MaxRequests = 3
    MaxTime = 1
    MaxFaults = 1
SPECIFICATION Spec
CHECK_DEADLOCK FALSE
INVARIANTS
    MembersCapped
    CodesAreGuarded
    NoGrantLeftBehind
PROPERTIES
    RefusalSparesMembers
    EverySignInAnswered
    ImplementsSignInFlow
