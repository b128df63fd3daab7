CONSTANTS
    c1 = c1
    c2 = c2
    Calls = {c1, c2}
    MaxGrants = 2
    MaxTokens = 3
    MaxObjects = 3
    MaxFaults = 1
SPECIFICATION Spec
CHECK_DEADLOCK FALSE
INVARIANTS
    SignInTakesEffect
    WaitersAreServed
PROPERTIES
    DeadGrantSignsOut
