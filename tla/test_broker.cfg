SPECIFICATION Spec
SYMMETRY CallerSymmetry
CONSTANTS
    None = None
    Frozen1 = Frozen1
    CanvasSteps <- AllSteps
    Callers = {c1, c2}
    MaxCalls = 2
    MaxRequests = 2
    Applications <- Apps
    Orders <- AllOrders
INVARIANTS TypeOK EndedMeansAnswered RunsInOrder FakeDeliversTheSame WorkersAreFed
PROPERTIES ImplementsRequest NothingRunsAfterExit
CHECK_DEADLOCK FALSE
