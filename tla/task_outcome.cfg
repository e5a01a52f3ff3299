SPECIFICATION FairSpec
CONSTANTS
    Workers = {w1, w2}
    Tasks <- ManyTasks
    Policies <- AllPolicies
    Fates <- SomeFates
    MaxFaults = 1
    MaxLosses = 1
INVARIANTS
    TypeOK
    FailureIsFinal
    NoOutcomeForInstruction
    AckedMeansDone
    OneVerdict
PROPERTIES
    NothingRepeats
    DeliveriesEnd
    RetryCompletes
CHECK_DEADLOCK FALSE
