SPECIFICATION FairSpec
CONSTANTS
    m1 = m1
    m2 = m2
    r1 = r1
    r2 = r2
    Messages <- OneMessage
    Readers <- OneReader
    Prefetches = {}
    InitialPrefetch = 1
    Operations = {"acked"}
    CanCancel = TRUE
    MaxStarts = 2
    MaxSessions = 3
    MaxDeliveries = 1
    MaxAttempts = 1
    MaxFaults = 1
CHECK_DEADLOCK FALSE
INVARIANTS NoOrphanedFuture EndIsVisible
PROPERTIES CallsReturn Reconnects
