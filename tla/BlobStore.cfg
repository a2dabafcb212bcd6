SPECIFICATION Spec
CONSTANTS
    a1 = a1
    a2 = a2
    a3 = a3
    k1 = k1
    k2 = k2
    k3 = k3
    k4 = k4
    m1 = m1
    m2 = m2
    Actors = {a1, a2, a3}
    Keys = {k1, k2, k3, k4}
    Refs = {m1, m2}
    MaxLosses = 1
    TxLoss = FALSE
    LostReply = FALSE
INVARIANTS
    RowHasItsFile
    RefcountExact
    RecordedIsCounted
SYMMETRY Symmetry
CHECK_DEADLOCK FALSE
