CONSTANTS
    p1 = p1
    p2 = p2
    NoPort = NoPort
    Candidates <- MCTwo
    Handlers = {h1}
    Bodies = {TRUE, FALSE}
    RunAs = "module"
SPECIFICATION HFairSpec
PROPERTIES
    DropsOnlyErrors
    ImplementsPromise
    UnavailableMeansNone
    RequestsEnd
    LiveListed
    DeadForgotten
