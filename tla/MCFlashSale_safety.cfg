SPECIFICATION Spec
CONSTANTS
    q1 = q1  q2 = q2  q3 = q3  u1 = u1  u2 = u2  p1 = p1  p2 = p2
    Clients = {q1, q2, q3}
    Keys = {u1, u2}
    KeyOf <- TwoUsers
    Pods = {p1, p2}
    PodOf <- TwoPods
    NoClient = NoClient
    Limit = 2
    NewLimits = {1, 3}
    PerUser = 1
    L2 = L2
    NoValue = NoValue
    MaxFaults = 1
    MaxExpiries = 1
    MaxLosses = 1
    MaxAborts = 1
    MaxUpdates = 1
    MaxAdverse = 1
INVARIANTS PerUserLimitWithRedis CounterCoversQuota
PROPERTIES NeverSoldPastLimit
