SPECIFICATION Spec
CONSTANTS
    a = a
    b = b
    p = p
    any = any
    t1 = t1
    t2 = t2
    x = x
    y = y
    z = z
    Subscribers = {a}
    Handlers = {a}
    Tasks = {t1, t2}
    Claim <- ClaimXY
    Name <- NamesXX
    AnyTask = any
    Fates <- DueOrLater
    OnError = "rejected"
    Window = 0
    HandlersHang = FALSE
    Overlap = FALSE
    MaxConsumers = 1
    MaxStarts = 1
    MaxDeaths = 0
INVARIANTS DeferredSurvivesStop
CHECK_DEADLOCK FALSE
