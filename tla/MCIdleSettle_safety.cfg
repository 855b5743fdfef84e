SPECIFICATION Spec
CONSTANTS
    c1 = c1  c2 = c2  c3 = c3  s1 = s1  s2 = s2
    Sessions = {s1, s2}
    Settlers = {c1, c2, c3}
    SessionOf <- TwoOnOne
    Points <- TwoPoints
    CreatedOn <- Today
    Limit = 3
    NoValue = NoValue
    LastDay = 1
    MaxAdverse = 1
INVARIANTS PaidOnce CapUnlessDisturbed CounterIsTaken SummaryIsPaid
CHECK_DEADLOCK FALSE
