---------------------------- MODULE HttpBreakers ----------------------------
(***************************************************************************)
(* What a request passes before its handler: the bounded number of requests  *)
(* in flight (middleware/concurrency.go) and the breaker of its route        *)
(* (middleware/circuitbreaker.go over the gobreaker library).                *)
(***************************************************************************)
EXTENDS Degrade

CONSTANTS Requests,
          Limit,          \* server.concurrency_limit
          MinRequests,    \* requests before a breaker may trip: 5 in the code
          HalfOpenMax     \* half_open_max_requests

ASSUME BreakerAssumption ==
    /\ Limit \in Nat \ {0} /\ MinRequests \in Nat \ {0} /\ HalfOpenMax \in Nat \ {0}
    /\ MaxReloads \in Nat /\ IsFiniteSet(Routes)

VARIABLES breakers,       \* [Pods -> [Breakers -> state, generation and counts]]
          epoch,          \* [Pods -> 0..MaxReloads]: the breakers in use
          slots,          \* [Pods -> Nat]: semaphore, taken
          ticket,         \* [Requests -> breaker and generation of its Execute]
          odd             \* what made flag and breakers disagree

breakerVars == <<breakers, epoch, slots, ticket, odd>>

Turned(b, st) == [st |-> st, gen |-> b.gen + 1, requests |-> 0, failures |-> 0, wins |-> 0]

NewBreaker == [st |-> "closed", gen |-> 0, requests |-> 0, failures |-> 0, wins |-> 0]

BreakerInit ==
    /\ breakers = [p \in Pods |-> [b \in Breakers |-> NewBreaker]]
    /\ epoch = [p \in Pods |-> 0]
    /\ slots = [p \in Pods |-> 0]
    /\ ticket = [r \in Requests |-> [b |-> CHOOSE b \in Breakers : TRUE, gen |-> 0]]
    /\ odd = {}

TryAcquire(p) == slots[p] < Limit /\ slots' = [slots EXCEPT ![p] = @ + 1]

Release(p) == slots' = [slots EXCEPT ![p] = @ - 1]

\* State() and the start of Execute.  An open breaker whose timeout has passed
\* turns half-open, which is no callback of the flag.
Admit(p, r, route) ==
    LET b == <<route, epoch[p]>>
        now == breakers[p][b]
    IN \E cb \in IF now.st = "open" THEN {Turned(now, "half")} ELSE {now} :
        /\ ~ Busy(p, b)
        /\ ~ (cb.st = "half" /\ cb.requests >= HalfOpenMax)
        /\ breakers' = [breakers EXCEPT ![p][b] = [cb EXCEPT !.requests = @ + 1]]
        /\ ticket' = [ticket EXCEPT ![r] = [b |-> b, gen |-> cb.gen]]

Refuses(p, route) ==
    LET b == <<route, epoch[p]>>
        cb == breakers[p][b]
    IN /\ ~ Busy(p, b)
       /\ cb.st = "open" \/ (cb.st = "half" /\ cb.requests >= HalfOpenMax)

\* ReadyToTrip: the failure threshold is a half.
ReadyToTrip(cb) == cb.requests >= MinRequests /\ 2 * cb.failures >= cb.requests

\* The breaker after the answer of a call of its own generation.
AfterCall(cb, ok) ==
    LET counted == IF ok THEN [cb EXCEPT !.wins = @ + 1] ELSE [cb EXCEPT !.failures = @ + 1]
    IN IF cb.st = "closed" /\ ~ ok /\ ReadyToTrip(counted) THEN Turned(cb, "open")
       ELSE IF cb.st = "half" /\ ~ ok THEN Turned(cb, "open")
       ELSE IF cb.st = "half" /\ counted.wins >= HalfOpenMax THEN Turned(cb, "closed")
       ELSE counted

\* OnStateChange calls the flag for every change to open, from half-open too.
OnStateChange(p, b, from, to) ==
    IF from = to \/ to = "half" THEN UNCHANGED degradeVars
    ELSE IF to = "open" THEN OnBreakerOpen(p, b)
    ELSE OnBreakerClosed(p, b)

\* The end of Execute, and the slot given back.
Report(p, r, ok) ==
    LET b == ticket[r].b
        cb == breakers[p][b]
        new == IF cb.gen = ticket[r].gen THEN AfterCall(cb, ok) ELSE cb
    IN /\ ~ Busy(p, b)
       /\ breakers' = [breakers EXCEPT ![p][b] = new]
       /\ OnStateChange(p, b, cb.st, new.st)
       /\ Release(p)
       /\ odd' = odd \cup (IF cb.st = "half" /\ new.st = "open" THEN {"retrip"} ELSE {})
                     \cup (IF new.st = "open" /\ cb.st # "open" /\ \E s \in storing[p] : ~ s[2]
                           THEN {"stores crossed"} ELSE {})
       /\ UNCHANGED <<epoch, ticket>>

\* sync: after a reload of the configuration the breakers are made anew; a
\* request in flight still reports to the one it was admitted by.
Reload(p) ==
    /\ epoch[p] < MaxReloads
    /\ Harm("reload")
    /\ epoch' = [epoch EXCEPT ![p] = @ + 1]
    /\ UNCHANGED <<breakers, slots, ticket, odd, degradeVars>>

(* The degraded mode is on exactly while a breaker of the pod is open or on  *)
(* trial, once the callback has written the flag -- except after a half-open *)
(* breaker tripped again (it is counted twice), after a reload (the breaker  *)
(* that should count down is dropped) and when a closing breaker writes the  *)
(* flag after the one that opened (degrade.go, circuitbreaker.go:94-107).    *)
DegradeFollowsBreakers ==
    \A p \in Pods :
        (storing[p] = {} /\ odd = {} /\ "reload" \notin harm) =>
            (active[p] <=> \E b \in Breakers : breakers[p][b].st # "closed")
=============================================================================
