SPECIFICATION Spec
CONSTANTS
    m1 = m1
    m2 = m2
    r1 = r1
    r2 = r2
    Messages <- OneMessage
    Readers <- OneReader
    Prefetches = {}
    InitialPrefetch = 1
    Operations = {"acked"}
    CanCancel = FALSE
    MaxStarts = 1
    MaxSessions = 2
    MaxDeliveries = 1
    MaxAttempts = 1
    MaxFaults = 1
CHECK_DEADLOCK FALSE
PROPERTY FailureReachesStart
