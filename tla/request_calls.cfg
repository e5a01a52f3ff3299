SPECIFICATION FairSpec
CONSTANTS
    p1 = p1
    p2 = p2
    Callers = {p1, p2}
    Backends = {"none", "memory", "redis"}
    Terminal = {"SUCCESS"}
    Progress = {"STARTED"}
    Threads = 2
    Suspends = TRUE
    MaxConnects = 2
    MaxCalls = 2
    MaxReports = 2
CHECK_DEADLOCK FALSE
INVARIANTS TypeOK OneWriter
PROPERTIES ImplementsRequest InTimeIsReturned CallsReturn
