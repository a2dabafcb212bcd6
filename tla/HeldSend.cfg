SPECIFICATION Spec
CONSTANTS
    h1 = h1
    h2 = h2
    w1 = w1
    w2 = w2
    u1 = u1
    u2 = u2
    Holds = {h1, h2}
    Workers = {w1, w2}
    Requests = {u1}
    NoOne = NoOne
    Copies = 2
    Reminded = {h1}
    MaxAsks = 3
    MaxFaults = 1
INVARIANTS
    TakenBack
    ReleasedAsOne
    HoldsItsBlobs
    DraftIsKept
    SurfacedOnce
CHECK_DEADLOCK FALSE
PROPERTIES
    DueIsSettled
    RequestsEnd
