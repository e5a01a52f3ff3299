SPECIFICATION Spec
SYMMETRY MessageSymmetry
CONSTANTS
    m1 = m1
    m2 = m2
    r1 = r1
    r2 = r2
    Messages <- TwoMessages
    Readers <- OneReader
    Prefetches = {2}
    InitialPrefetch = 1
    Operations = {"acked"}
    CanCancel = TRUE
    MaxStarts = 1
    MaxSessions = 2
    MaxDeliveries = 2
    MaxAttempts = 2
    MaxFaults = 1
CHECK_DEADLOCK FALSE
INVARIANTS TypeOK SessionIsolation OutcomeIsTrue PrefetchNotLost
PROPERTY ImplementsQueue
