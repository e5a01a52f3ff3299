SPECIFICATION Spec
CONSTANTS
    e1 = e1
    e2 = e2
    Size = 2
    Executors = {e1, e2}
    Outcomes = {"ok"}
    MaySave = FALSE
    MaySkip = {}
    OnError = "rejected"
    MaxFaults = 0
    MaxLosses = 1
INVARIANTS BodyIsWhole
CHECK_DEADLOCK FALSE
