SPECIFICATION GatewaySpec
CONSTANTS
    p1 = p1  p2 = p2
    q1 = q1  q2 = q2  q3 = q3  q4 = q4
    h1 = h1  h2 = h2  h3 = h3  h4 = h4
    ra = ra  rb = rb  rc = rc
    Pods = {p1, p2}
    Requests = {q1, q2, q3, q4}
    Routes = {ra, rb, rc}
    Nobody = Nobody
    HashOf <- HashOfRequest
    Limit = 2
    MinRequests = 1
    HalfOpenMax = 1
    MaxReloads = 1
    MaxFailures = 1
    Cpus = 1
    MaxFaults = 3
    Deployments <- Scenarios
INVARIANTS ReadsOwnPodsWrites UndoneOnlyByStaleSaves PasswordsAreCurrent DegradeFollowsBreakers
PROPERTIES EveryCallEnds
CHECK_DEADLOCK FALSE
