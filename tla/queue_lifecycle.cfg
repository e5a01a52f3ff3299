SPECIFICATION FairSpec
CONSTANTS
    a = a
    b = b
    p = p
    any = any
    t1 = t1
    t2 = t2
    x = x
    y = y
    z = z
    Subscribers = {a, b, p}
    Handlers = {a, b}
    Tasks = {t1, t2}
    Claim <- ClaimXAny
    Name <- NamesXY
    AnyTask = any
    Fates <- AnyFate
    OnError = "rejected"
    Window = 1
    HandlersHang = TRUE
    Overlap = FALSE
    MaxConsumers = 2
    MaxStarts = 3
    MaxDeaths = 1
INVARIANTS TypeOK ConsumerOutlivesItsUsers NothingStranded HandlersAreServed OneConsumerReads
PROPERTIES StopFinishes WindowDrains
CHECK_DEADLOCK FALSE
