------------------------------ MODULE Degrade ------------------------------
(***************************************************************************)
(* internal/degrade: the process-wide flag that makes the cache skip Redis   *)
(* while a circuit breaker is open.  The counter and the flag are two        *)
(* atomics, written one after the other: the breaker that calls is locked    *)
(* in between, the other breakers of the pod are not.                        *)
(***************************************************************************)
EXTENDS Integers, FiniteSets, FaultBudget

CONSTANTS Pods, Routes,
          MaxReloads      \* bound: configuration reloads

Breakers == Routes \X (0..MaxReloads)    \* a reload starts a new set of breakers

VARIABLES openCount,      \* [Pods -> Int]
          active,         \* [Pods -> BOOLEAN]
          storing         \* [Pods -> SUBSET (Breakers \X BOOLEAN)]: counted, flag not yet written

degradeVars == <<openCount, active, storing>>

DegradeInit ==
    /\ openCount = [p \in Pods |-> 0]
    /\ active = [p \in Pods |-> FALSE]
    /\ storing = [p \in Pods |-> {}]

Counted(p, b, by, turn, flag) ==
    /\ openCount' = [openCount EXCEPT ![p] = @ + by]
    /\ storing' = IF openCount[p] + by = turn
                  THEN [storing EXCEPT ![p] = @ \cup {<<b, flag>>}]
                  ELSE storing
    /\ UNCHANGED active

OnBreakerOpen(p, b) == Counted(p, b, 1, 1, TRUE)

\* Slip: the flag is cleared one breaker too late.
OnBreakerClosedLate(p, b) == Counted(p, b, -1, -1, FALSE)

OnBreakerClosed(p, b) == Counted(p, b, -1, 0, FALSE)

\* The second atomic of a callback.
StoreActive(p) ==
    \E s \in storing[p] :
        /\ active' = [active EXCEPT ![p] = s[2]]
        /\ storing' = [storing EXCEPT ![p] = @ \ {s}]
        /\ UNCHANGED openCount

Busy(p, b) == \E s \in storing[p] : s[1] = b

IsActive(p) == active[p]
=============================================================================
