SPECIFICATION Spec
CONSTANTS
    q1 = q1  q2 = q2  q3 = q3  u1 = u1  u2 = u2  p1 = p1  p2 = p2
    Clients = {q1, q2}
    Keys = {u1, u2}
    KeyOf <- OwnUser
    Pods = {p1, p2}
    PodOf <- TwoPods
    NoClient = NoClient
    N = 3
    Total = 4
    Qty <- AllTwo
    Home <- Apart
    KeepsExamined = FALSE
    NoValue = NoValue
    MaxFaults = 0
    MaxExpiries = 0
    MaxAborts = 0
    MaxEvents = 2
INVARIANTS CounterZeroMeansSoldOut
