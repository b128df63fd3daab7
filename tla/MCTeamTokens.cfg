CONSTANTS
    k1 = k1
    k2 = k2
    k3 = k3
    c1 = c1
    c2 = c2
    c3 = c3
    s1 = s1
    s2 = s2
    read = read
    write = write
    None = None
    Sweeper = Sweeper
    Subs = {s1, s2}
    Clients = {k1, k2, k3}
    Scopes = {read, write}
    Codes = {c1, c2, c3}
    CodeGrant <- MCGrant
    BootTokens <- MCBootTokens
    BootPairs = 3
    BootLastUsed <- MCBoot
    BootTick = 2
    Requests = {r1, r2}
    TokenTtl = 1
    RefreshTtl = 3
    RefreshGrace = 0
    TombstoneTtl = 2
    MaxClients = 2
    MaxTokensPerSub = 2
    MaxTombstonesPerSub = 1
    MaxPairs = 5
    MaxTime = 1
    MaxRequests = 3
SPECIFICATION Spec
CHECK_DEADLOCK FALSE
INVARIANTS
    TokensKeepTheirGrant
    TokensCapped
    CleanRevocationIsFinal
    SuccessorStoredFirst
    ActiveClientSurvives
PROPERTIES
    NeverReactivated
    ExpiredTokensSwept
