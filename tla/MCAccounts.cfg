CONSTANTS
    p1 = p1
    p2 = p2
    default = default
    work = work
    Procs = {p1, p2}
    Serving = {p1}
    Aliases = {default, work}
    DefaultAlias = default
    None = None
    MaxGrants = 2
    MaxOps = 1
    MaxFaults = 2
SPECIFICATION Spec
CHECK_DEADLOCK FALSE
INVARIANTS
    CredentialsKept
    SettledAccountStands
PROPERTY
    ConsentsAreAnswered
