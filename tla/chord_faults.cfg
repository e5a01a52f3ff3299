SPECIFICATION FairSpec
CONSTANTS
    e1 = e1
    e2 = e2
    Size = 2
    Executors = {e1, e2}
    Outcomes = {"ok", "bad"}
    MaySave = TRUE
    MaySkip = {1}
    OnError = "requeued"
    MaxFaults = 2
    MaxLosses = 1
INVARIANTS SavedBodyIsWhole
PROPERTIES ChordEnds
CHECK_DEADLOCK FALSE
