SPECIFICATION Spec
CONSTANTS
    q1 = q1  q2 = q2  q3 = q3  u1 = u1  u2 = u2  p1 = p1  p2 = p2
    Clients = {q1, q2}
    Keys = {u1}
    KeyOf <- TwoUsers
    Pods = {p1, p2}
    PodOf <- TwoPods
    NoClient = NoClient
    Limit = 2
    NewLimits = {2}
    PerUser = 1
    L2 = L2
    NoValue = NoValue
    MaxFaults = 1
    MaxExpiries = 0
    MaxLosses = 0
    MaxAborts = 0
    MaxUpdates = 0
    MaxAdverse = 1
INVARIANTS PerUserLimitAlways
