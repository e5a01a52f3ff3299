SPECIFICATION Spec
CONSTANTS
    a = a
    b = b
    p = p
    any = any
    t1 = t1
    t2 = t2
    x = x
    y = y
    z = z
    Subscribers = {a, p}
    Handlers = {a}
    Tasks = {t1, t2}
    Claim <- ClaimXY
    Name <- NamesXX
    AnyTask = any
    Fates <- Due
    OnError = "rejected"
    Window = 0
    HandlersHang = FALSE
    Overlap = FALSE
    MaxConsumers = 1
    MaxStarts = 2
    MaxDeaths = 0
INVARIANTS StopsReturn
CHECK_DEADLOCK FALSE
