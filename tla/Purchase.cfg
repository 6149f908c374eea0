CONSTANTS
    Ids = {r1}
    Workers = {w1, w2, w3}
    Notes = {n1}
    NoRow = NoRow
    Enabled = TRUE
SPECIFICATION Spec
SYMMETRY MCSymmetry
INVARIANTS
    TypeOK
    StatusFollowsDecision
PROPERTIES
    ManualKeepsDecision
    ByHandOnlyStale
