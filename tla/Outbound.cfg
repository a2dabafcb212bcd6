SPECIFICATION Spec
CONSTANTS
    r1 = r1
    r2 = r2
    p1 = p1
    p2 = p2
    a1 = a1
    a2 = a2
    Recipients = {r1, r2}
    Procs = {p1, p2}
    Admins = {a1}
    Lease = 2
    BackoffBase = 1
    BackoffCap = 1
    MaxLate = 0
    AttemptTimeout = 1
    RetrySchedule <- Retries
    Jitter = 0
    MaxQueueAge = 1
    DelayDsnAfter = 1
    Notify = {"failure"}
    NullSender = FALSE
    SesConfigured = FALSE
    SesClaims = FALSE
    AdminOps = {"retry"}
    OwnerCancels = FALSE
    SesNotifies = FALSE
    MaxAdmin = 1
    MaxFreezes = 0
    MaxFaults = 0
    MaxGen = 4
    MaxExtra = 4
INVARIANTS
    TypeOK
    InFlightKept
PROPERTIES
    ImplementsLifecycle
SYMMETRY Symmetry
CHECK_DEADLOCK FALSE
