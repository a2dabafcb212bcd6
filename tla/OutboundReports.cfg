SPECIFICATION Spec
CONSTANTS
    r1 = r1
    r2 = r2
    p1 = p1
    p2 = p2
    a1 = a1
    a2 = a2
    Recipients = {r1}
    Procs = {p1, p2}
    Admins = {a1, a2}
    Lease = 2
    BackoffBase = 1
    BackoffCap = 1
    MaxLate = 0
    AttemptTimeout = 1
    RetrySchedule <- Retries
    Jitter = 0
    MaxQueueAge = 1
    DelayDsnAfter = 1
    Notify <- AllNotify
    NullSender = FALSE
    SesConfigured = TRUE
    SesClaims = TRUE
    AdminOps = {"delete", "bounce"}
    OwnerCancels = TRUE
    SesNotifies = FALSE
    MaxAdmin = 2
    MaxFreezes = 0
    MaxFaults = 1
    MaxGen = 8
    MaxExtra = 5
INVARIANTS
    OneFailureDsn
PROPERTIES
    CancelledStays
SYMMETRY Symmetry
CHECK_DEADLOCK FALSE
