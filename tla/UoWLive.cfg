CONSTANTS
    w1 = w1
    w2 = w2
    w3 = w3
    A = A
    B = B
    NoAccount = NoAccount
    Instance <- MCInstance
    TrialDays = 1
    MaxDay = 0
    Users = {u1}
    Workers = {w1, w2, w3}
    Ops = {"upgrade", "login"}
    DbKind = "sqlite"
    SeedAccounts <- MCTrialSeed
SPECIFICATION FairSpec
INVARIANTS
    WaitsEnd
PROPERTIES
    RequestsAnswered
