CONSTANTS
    p1 = p1
    p2 = p2
    p3 = p3
    NoPort = NoPort
    Candidates <- MCTwo
    Handlers = {h1}
    Bodies = {FALSE}
    RunAs = "module"
SPECIFICATION Spec
PROPERTIES
    UnavailableMeansAllTried
