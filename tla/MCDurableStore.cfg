CONSTANTS
    p1 = p1
    p2 = p2
    Procs = {p1, p2}
    None = None
    FileDamage = TRUE
    MaxWrites = 2
    MaxFaults = 2
SPECIFICATION Spec
INVARIANTS
    ResolvedIsDurable
    RejectedStaysOut
PROPERTIES
    ExitAnswersTheQueue
    EveryCallSettles
