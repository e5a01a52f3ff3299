SPECIFICATION Spec
CONSTANTS
    a = a
    b = b
    p = p
    any = any
    t1 = t1
    t2 = t2
    x = x
    y = y
    z = z
    Subscribers = {a, p}
    Handlers = {a}
    Tasks = {t1, t2}
    Claim <- ClaimXY
    Name <- NamesXX
    AnyTask = any
    Fates <- Due
    OnError = "rejected"
    Window = 0
    HandlersHang = FALSE
    Overlap = TRUE
    MaxConsumers = 3
    MaxStarts = 4
    MaxDeaths = 0
INVARIANTS OneConsumerReads
CHECK_DEADLOCK FALSE
