SPECIFICATION FairSpec
CONSTANTS
    r1 = r1
    r2 = r2
    p1 = p1
    p2 = p2
    a1 = a1
    a2 = a2
    Recipients = {r1}
    Procs = {p1}
    Admins = {a1}
    Lease = 2
    BackoffBase = 1
    BackoffCap = 1
    MaxLate = 0
    AttemptTimeout = 1
    RetrySchedule <- Retries
    Jitter = 0
    MaxQueueAge = 1
    DelayDsnAfter = 0
    Notify <- AllNotify
    NullSender = FALSE
    SesConfigured = TRUE
    SesClaims = TRUE
    AdminOps = {}
    OwnerCancels = FALSE
    SesNotifies = TRUE
    MaxAdmin = 0
    MaxFreezes = 1
    MaxFaults = 1
    MaxGen = 4
    MaxExtra = 3
PROPERTIES
    Settles
    BouncesReported
CHECK_DEADLOCK FALSE
