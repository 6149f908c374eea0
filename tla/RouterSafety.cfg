CONSTANTS
    p1 = p1
    p2 = p2
    p3 = p3
    NoPort = NoPort
    Candidates <- MCThree
    Handlers = {h1, h2}
    Bodies = {TRUE, FALSE}
    RunAs = "module"
SPECIFICATION Spec
SYMMETRY MCSymmetry
CONSTRAINT MCOneOrTwo
INVARIANTS
    TypeOK
    PoolOK
    OncePerBackend
PROPERTIES
    TurnKept
