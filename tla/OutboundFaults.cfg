SPECIFICATION Spec
CONSTANTS
    r1 = r1
    r2 = r2
    p1 = p1
    p2 = p2
    a1 = a1
    a2 = a2
    Recipients = {r1}
    Procs = {p1, p2}
    Admins = {a1}
    Lease = 2
    BackoffBase = 1
    BackoffCap = 1
    MaxLate = 0
    AttemptTimeout = 1
    RetrySchedule <- Retries
    Jitter = 0
    MaxQueueAge = 2
    DelayDsnAfter = 1
    Notify <- AllNotify
    NullSender = FALSE
    SesConfigured = FALSE
    SesClaims = FALSE
    AdminOps = {}
    OwnerCancels = FALSE
    SesNotifies = FALSE
    MaxAdmin = 0
    MaxFreezes = 0
    MaxFaults = 1
    MaxGen = 7
    MaxExtra = 3
INVARIANTS
    DeliveredHasCopy
    BounceIsLast
PROPERTIES
    FinalIsFinal
CHECK_DEADLOCK FALSE
