SPECIFICATION FairSpec
CONSTANTS
    e1 = e1  e2 = e2  u1 = u1  p1 = p1  p2 = p2
    c1 = c1  c2 = c2  r1 = r1  r2 = r2
    NoEvent = NoEvent
    Users = {u1}
    Events = {e1, e2}
    Consumers = {c2}
    Relays = {r1}
    Pods = {p1, p2}
    PodOf <- TwoPods
    UserOf <- SameUser
    Delta <- IncomeAndSpend
    InitBalance <- AllOne
    Slots = 1
    RelayLimit = 2
    MaxFaults = 1
    MaxLost = 0
    MaxTimeouts = 1
    MaxAbandons = 1
    MaxCrashes = 1
PROPERTIES LedgerSpec EventuallyAppliedOrStranded
