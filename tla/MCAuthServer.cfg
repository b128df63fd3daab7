CONSTANTS
    first = first
    home = home
    work = work
    Flows = {first, home, work}
    FirstTime = {first}
    Ports = 2
    ErrorReachesListener = TRUE
    Other = Other
    None = None
    MaxOthers = 1
SPECIFICATION Spec
CHECK_DEADLOCK FALSE
INVARIANT
    ListensAtItsPort
