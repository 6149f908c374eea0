CONSTANTS
    Ids = {r1}
    Workers = {w1, w2}
    Notes = {n1}
    NoRow = NoRow
    Enabled = TRUE
SPECIFICATION Spec
PROPERTIES
    ConfirmedNotRejected
