SPECIFICATION FairSpec
CONSTANTS
    q1 = q1  q2 = q2  q3 = q3  u1 = u1  u2 = u2  p1 = p1  p2 = p2
    Clients = {q1, q2, q3}
    Keys = {u1, u2}
    KeyOf <- TwoUsers
    Pods = {p1, p2}
    PodOf <- TwoPods
    NoClient = NoClient
    N = 2
    Total = 3
    Qty <- AllTwo
    Home <- Apart
    KeepsExamined = TRUE
    NoValue = NoValue
    MaxFaults = 1
    MaxExpiries = 1
    MaxAborts = 1
    MaxEvents = 2
INVARIANTS NoOversell SoldOutMeansNoBucketFits
           OneRedeemPerUser CounterCoversStock
PROPERTIES EveryRequestEnds
