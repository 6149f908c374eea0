CONSTANTS
    PerSecond = 2
    TTL = 1
    Ahead <- MCAhead
    Users = {1, 2}
    probe = probe
    Consumers = {probe}
    Asks <- MCAsks
    NoUser = NoUser
    NoExp = NoExp
    NoToken = NoToken
    BadToken = BadToken
    Conns = {c1, c2}
    NoConn = NoConn
    Requests <- MCRequests
    Backlog = 2
    Start = 2
    MaxNow = 4
SPECIFICATION FairSpec
INVARIANTS
    TypeOK
    AllowIsTrue
    UnavailableMeansUnsigned
PROPERTIES
    ActsOnSignedToken
    TokenLastsTTL
    LoginsEnd
