SPECIFICATION FairSpec
CONSTANTS
    a = a
    b = b
    p = p
    any = any
    t1 = t1
    t2 = t2
    x = x
    y = y
    z = z
    Subscribers = {a, b}
    Handlers = {a, b}
    Tasks = {t1, t2}
    Claim <- ClaimXY
    Name <- NamesXX
    AnyTask = any
    Fates <- DueOrLater
    OnError = "rejected"
    Window = 0
    HandlersHang = FALSE
    Overlap = FALSE
    MaxConsumers = 1
    MaxStarts = 2
    MaxDeaths = 0
PROPERTIES DeferredComesBack
CHECK_DEADLOCK FALSE
