SPECIFICATION Spec
CONSTANTS
    p1 = p1
    p2 = p2
    Callers = {p1, p2}
    Backends = {"memory"}
    Terminal = {"SUCCESS"}
    Progress = {"STARTED"}
    Threads = 2
    Suspends = FALSE
    MaxConnects = 1
    MaxCalls = 2
    MaxReports = 0
CHECK_DEADLOCK FALSE
INVARIANTS OneThreadAtATime
