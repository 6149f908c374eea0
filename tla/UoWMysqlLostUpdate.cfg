CONSTANTS
    w1 = w1
    w2 = w2
    w3 = w3
    A = A
    B = B
    NoAccount = NoAccount
    Instance <- MCInstance
    TrialDays = 1
    MaxDay = 1
    Users = {u1}
    Workers = {w1, w2}
    Ops = {"status", "upgrade", "downgrade", "suspend"}
    DbKind = "mysql"
    SeedAccounts <- MCTrialSeed
SPECIFICATION Spec
PROPERTIES
    QueryKeepsPlan
