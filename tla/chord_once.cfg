SPECIFICATION Spec
CONSTANTS
    e1 = e1
    e2 = e2
    Size = 3
    Executors = {e1, e2}
    Outcomes = {"ok", "bad"}
    MaySave = FALSE
    MaySkip = {}
    OnError = "rejected"
    MaxFaults = 1
    MaxLosses = 0
INVARIANTS TypeOK
PROPERTIES ImplementsBarrier
CHECK_DEADLOCK FALSE
