CONSTANTS
    p1 = p1
    p2 = p2
    Procs = {p1}
    None = None
    FileDamage = FALSE
    MaxWrites = 4
    MaxFaults = 3
SPECIFICATION Spec
PROPERTY ImplementsAtomicStore
