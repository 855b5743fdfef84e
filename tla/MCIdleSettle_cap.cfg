SPECIFICATION Spec
CONSTANTS
    c1 = c1  c2 = c2  c3 = c3  s1 = s1  s2 = s2
    Sessions = {s1, s2}
    Settlers = {c1, c3}
    SessionOf <- TwoOnOne
    Points <- TwoPoints
    CreatedOn <- Today
    Limit = 3
    NoValue = NoValue
    LastDay = 0
    MaxAdverse = 0
INVARIANTS CapAlways
CHECK_DEADLOCK FALSE
