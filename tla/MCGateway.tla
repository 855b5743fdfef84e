----------------------------- MODULE MCGateway -----------------------------
(* The deployments and requests TLC checks Gateway on.                      *)
EXTENDS Gateway

CONSTANTS p1, p2,             \* pods
          q1, q2, q3, q4,     \* requests
          h1, h2, h3, h4,     \* the hashes of the passwords they set
          ra, rb, rc          \* routes

HashOfRequest == [r \in Requests |-> CASE r = q1 -> h1 [] r = q2 -> h2 [] r = q3 -> h3 [] r = q4 -> h4]

User == {"row", "pw"}         \* a registered user's row

\* The first two requests reach the first pod.
TwoAndTwo == [r \in Requests |-> IF r \in {q1, q2} THEN p1 ELSE p2]
ThreeAndOne == [r \in Requests |-> IF r = q4 THEN p2 ELSE p1]
OnePod == [r \in Requests |-> p1]

\* The route of a request is that of the first with its path.
RouteOf(op) ==
    [r \in Requests |->
        CASE Path(op[r]) = Path(op[q1]) -> ra
          [] Path(op[r]) # Path(op[q1]) /\ Path(op[r]) = Path(op[q2]) -> rb
          [] OTHER -> rc]

\* Four requests, in no particular order, on the given row.
Plan(o1, o2, o3, o4, key, init, pods, budget) ==
    LET op == [r \in Requests |-> CASE r = q1 -> o1 [] r = q2 -> o2 [] r = q3 -> o3 [] r = q4 -> o4]
    IN [op |-> op, pod |-> pods, route |-> RouteOf(op), key |-> key, row |-> init, budget |-> budget,
        l2 |-> TRUE, sender |-> TRUE, readSkipL2 |-> FALSE, writeAsync |-> FALSE, slaves |-> FALSE]

ScenarioSeq == <<
    \* points of the worker and readers of two pods
    Plan("points", "read", "read", "none", "uid", User, TwoAndTwo, 0),
    Plan("points", "read", "none", "none", "uid", User, TwoAndTwo, 1),
    \* a miss on both pods, with one outage or a lease that runs out
    Plan("read", "none", "read", "none", "uid", User, TwoAndTwo, 1),
    \* a change of password, and reads after it
    Plan("password", "read", "none", "none", "uid", User, ThreeAndOne, 1),
    \* a profile is saved while points arrive, or a password is changed
    Plan("profile", "points", "read", "none", "uid", User, ThreeAndOne, 0),
    Plan("profile", "password", "none", "none", "uid", User, TwoAndTwo, 1),
    Plan("profile", "login", "password", "none", "email", User, ThreeAndOne, 0),
    \* the first login fills the cache for the second
    Plan("login", "login", "points", "none", "email", User, TwoAndTwo, 0),
    \* logins with the old and the new password, on either pod
    Plan("password", "none", "login", "none", "email", User, TwoAndTwo, 1),
    Plan("password", "login", "none", "none", "email", User, TwoAndTwo, 1),
    \* without Redis every pod locks the account for itself
    [Plan("login", "login", "login", "none", "email", User, ThreeAndOne, 0) EXCEPT !.l2 = FALSE],
    \* two registrations, or one and a login, of one email
    Plan("register", "login", "none", "none", "email", Absent, TwoAndTwo, 0),
    Plan("register", "none", "register", "none", "email", Absent, TwoAndTwo, 0),
    \* a Google account is bound while points arrive, or a password is changed
    Plan("bind", "points", "login", "none", "email", User, TwoAndTwo, 0),
    Plan("bind", "password", "login", "none", "email", User, ThreeAndOne, 0),
    Plan("bind", "register", "none", "none", "email", Absent, ThreeAndOne, 0),
    Plan("bind", "login", "none", "none", "email", Absent, TwoAndTwo, 0),
    \* a flash-sale activity is created, read and edited
    Plan("publish", "browse", "none", "none", "activity", Absent, TwoAndTwo, 1),
    [Plan("publish", "browse", "edit", "none", "activity", Absent, ThreeAndOne, 0)
        EXCEPT !.writeAsync = TRUE, !.sender = FALSE],
    [Plan("publish", "none", "browse", "none", "activity", Absent, TwoAndTwo, 0)
        EXCEPT !.writeAsync = TRUE, !.slaves = TRUE],
    \* it is edited while its status flips, and read from a replica
    [Plan("edit", "flip", "browse", "none", "activity", {"row"}, ThreeAndOne, 0) EXCEPT !.slaves = TRUE],
    [Plan("edit", "browse", "none", "none", "activity", {"row"}, ThreeAndOne, 1) EXCEPT !.slaves = TRUE],
    \* no Redis at all; reads that skip it
    [Plan("points", "read", "read", "none", "uid", User, ThreeAndOne, 1) EXCEPT !.l2 = FALSE],
    [Plan("edit", "browse", "none", "none", "activity", {"row"}, ThreeAndOne, 1)
        EXCEPT !.l2 = FALSE, !.slaves = TRUE],
    [Plan("password", "read", "read", "none", "uid", User, TwoAndTwo, 0) EXCEPT !.readSkipL2 = TRUE],
    \* breakers of two routes trip, are tried again and reloaded
    [Plan("password", "password", "password", "none", "email", User, OnePod, 0) EXCEPT !.l2 = FALSE],
    [Plan("password", "password", "read", "none", "email", User, OnePod, 1) EXCEPT !.l2 = FALSE],
    [Plan("browse", "browse", "browse", "none", "activity", {"row"}, OnePod, 2) EXCEPT !.l2 = FALSE],
    \* a tripped breaker makes the next read skip Redis
    Plan("password", "password", "read", "none", "uid", User, ThreeAndOne, 0) >>

Scenarios == {ScenarioSeq[i] : i \in DOMAIN ScenarioSeq}
=============================================================================
