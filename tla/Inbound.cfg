SPECIFICATION Spec
CONSTANTS
    a1 = a1
    w1 = w1
    w2 = w2
    Accounts = {a1}
    Targets <- OneAccount
    Vacation = {a1}
    Workers = {w1, w2}
    Original = "inbound"
    ReplayFrom <- ReplayClassify
    MaxAttempts = 2
    Lease = 0
    BackoffBase = 0
    BackoffCap = 0
    MaxLate = 0
    MaxFaults = 1
    MaxOthers = 1
INVARIANTS
    FiledOnce
    CountsItsCopies
    FiledIsTrue
    OneReply
CHECK_DEADLOCK FALSE
PROPERTIES
    SpoolSettles
    CopiesThreaded
