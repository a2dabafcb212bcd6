SPECIFICATION FairSpec
CONSTANTS
    j1 = j1
    j2 = j2
    w1 = w1
    w2 = w2
    Jobs = {j1, j2}
    Workers = {w1, w2}
    NumQueues = 2
    QueueOf <- TwoQueues
    MaxAttempts = 2
    Delays <- AtOnceOrLater
    StalledRead = FALSE
    Lease = 1
    BackoffBase = 1
    BackoffCap = 2
    MaxLate = 0
    MaxFaults = 1
    MaxReplays = 1
INVARIANTS
    TypeOK
    HolderOrLapsed
    BudgetRespected
    DoneMeansRan
CHECK_DEADLOCK FALSE
PROPERTY
    EveryJobSettles
