SPECIFICATION FairSpec
CONSTANTS
    a = a
    b = b
    p = p
    any = any
    t1 = t1
    t2 = t2
    x = x
    y = y
    z = z
    Subscribers = {a, p}
    Handlers = {a}
    Tasks = {t1, t2}
    Claim <- ClaimXAny
    Name <- NamesXX
    AnyTask = any
    Fates <- DueOrLater
    OnError = "rejected"
    Window = 1
    HandlersHang = TRUE
    Overlap = TRUE
    MaxConsumers = 3
    MaxStarts = 4
    MaxDeaths = 0
INVARIANTS HandlersAreServed
PROPERTIES StopFinishes
CHECK_DEADLOCK FALSE
