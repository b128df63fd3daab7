CONSTANTS
    alice = alice
    bob = bob
    home = home
    work = work
    Absent = Absent
    Listed = Listed
    Users = {alice, bob}
    Calls <- MCCalls
    OnFile <- MCTables
    IdleTime = 2
    MaxRequests = 3
    MaxChanges = 1
SPECIFICATION FairSpec
CHECK_DEADLOCK FALSE
INVARIANTS
    NothingOutlivesItsSession
PROPERTIES
    ClosedForCause
    OnlyTheOpenerReaches
    CallsHitTheirAccount
    ComesToRest
