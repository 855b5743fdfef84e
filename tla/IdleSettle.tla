----------------------------- MODULE IdleSettle -----------------------------
(***************************************************************************)
(* Settling idle sessions of one user: settleSession of idle_service.go    *)
(* with the daily points cap (idle_repo.go AcquireDailyPoints and          *)
(* GetDailyPoints, the script of cache/manager.go) and the summary row     *)
(* idle_daily_points with its backfill job.                                *)
(*                                                                         *)
(* A call holds a record it read earlier, while the session was active.    *)
(* Stop requests, evictions by Start, scanner workers of all pods and      *)
(* keyspace events call it at the same time, for the same session too.     *)
(* One action is one Redis command, one SQL statement or one transaction.  *)
(* A cap of zero or less switches the cap off and is not modelled; what    *)
(* happens to the outbox row afterwards is module PointsOutbox.            *)
(***************************************************************************)
EXTENDS Integers, FiniteSets, Functions

CONSTANTS Sessions,    \* idle_records of the user
          Settlers,    \* calls of settleSession
          SessionOf,   \* the record a call holds
          Points,      \* minutes times rate, as each call computes it
          CreatedOn,   \* the day a session was created
          Limit,       \* DailyPointsLimit
          NoValue,     \* no such key, no such row
          LastDay,     \* bound: days 0 .. LastDay
          MaxAdverse   \* bound: failed or cut-off calls and lost counters, together

Days == 0 .. LastDay

ASSUME SettleAssumption ==
    /\ IsFiniteSet(Sessions)
    /\ SessionOf \in [Settlers -> Sessions]
    /\ Points \in [Settlers -> Nat \ {0}]
    /\ LastDay \in Nat
    /\ CreatedOn \in [Sessions -> Days]
    /\ Limit \in Nat \ {0}
    /\ NoValue \notin Int
    /\ MaxAdverse \in Nat

VARIABLES
    status,    \* "active", or "settled" for completed and timeout
    earned,    \* points_earned of a record
    paid,      \* calls whose transaction committed a points record and an outbox row
    summary,   \* idle_daily_points of each day, on the primary
    replica,   \* the same rows as the replica shows them
    counter,   \* idle:dailypts:<user>:<day>
    today,
    pc,        \* where a call is inside settleSession
    loaded,    \* the total a call read from the summary, and when
    granted,   \* what the script granted a call
    grantDay,  \* the day it did so
    failures,  \* calls so far that failed, lost their reply or were cut off
    losses,    \* counters Redis has lost so far
    disturbed, \* ghost: days whose counter stopped to stand for what was granted
    backfilled \* ghost: days whose summary row the backfill job made

dbVars == <<status, earned, paid, summary, replica>>
callVars == <<pc, loaded, granted, grantDay>>
bounds == <<failures, losses>>
ghosts == <<disturbed, backfilled>>
vars == <<dbVars, counter, today, callVars, bounds, ghosts>>

Pc == {"start", "warm", "load", "fill", "acquire", "close", "tx", "release",
       "upsert", "end"}

Init ==
    /\ status = [s \in Sessions |-> "active"]
    /\ earned = [s \in Sessions |-> 0]
    /\ paid = {}
    /\ summary = [d \in Days |-> NoValue]
    /\ replica = summary
    /\ counter = [d \in Days |-> NoValue]
    /\ today = 0
    /\ pc = [c \in Settlers |-> "start"]
    /\ loaded = [c \in Settlers |-> [day |-> 0, total |-> 0]]
    /\ granted = [c \in Settlers |-> 0]
    /\ grantDay = [c \in Settlers |-> 0]
    /\ failures = 0 /\ losses = 0
    /\ disturbed = {}
    /\ backfilled = {}

Goto(c, to) == pc' = [pc EXCEPT ![c] = to]

AdverseLeft == failures + losses < MaxAdverse

\* A command or transaction fails, or its reply does not arrive.
Fault == AdverseLeft /\ failures' = failures + 1 /\ UNCHANGED losses

\* A missing key or row counts as zero.
ValueOf(v) == IF v = NoValue THEN 0 ELSE v

Disturb(D) == disturbed' = disturbed \cup D /\ UNCHANGED backfilled

-----------------------------------------------------------------------------
(* The daily cap.                                                          *)

\* The call computes its points; the session exists by then.
Begin(c) ==
    /\ pc[c] = "start"
    /\ CreatedOn[SessionOf[c]] <= today
    /\ Goto(c, "warm")
    /\ UNCHANGED <<dbVars, counter, today, loaded, granted, grantDay, bounds, ghosts>>

\* GetDailyPoints looks for the counter; an error is a miss.
GetDailyPoints(c) ==
    /\ pc[c] = "warm"
    /\ \/ /\ Goto(c, IF counter[today] = NoValue THEN "load" ELSE "acquire")
          /\ UNCHANGED bounds
       \/ Fault /\ Goto(c, "load")
    /\ UNCHANGED <<dbVars, counter, today, loaded, granted, grantDay, ghosts>>

\* getDailyPointsDB: today's summary row on the replica; no row or an error is 0.
GetDailyPointsDB(c) ==
    /\ pc[c] = "load"
    /\ \/ /\ loaded' = [loaded EXCEPT ![c] = [day |-> today, total |-> ValueOf(replica[today])]]
          /\ UNCHANGED bounds
       \/ /\ Fault
          /\ loaded' = [loaded EXCEPT ![c] = [day |-> today, total |-> 0]]
    /\ Goto(c, "fill")
    /\ UNCHANGED <<dbVars, counter, today, granted, grantDay, ghosts>>

\* The total is SET into the counter of the day it is by now, over whatever the
\* counter holds.  The error is dropped.
FillCounter(c) ==
    /\ pc[c] = "fill"
    /\ \/ /\ counter' = [counter EXCEPT ![today] = loaded[c].total]
          /\ Disturb(IF counter[today] = NoValue /\ loaded[c].day = today THEN {} ELSE {today})
          /\ UNCHANGED bounds
       \/ Fault /\ UNCHANGED <<counter, ghosts>>
    /\ Goto(c, "acquire")
    /\ UNCHANGED <<dbVars, today, loaded, granted, grantDay>>

\* Slip: the script grants what is wanted while anything is left.
GrantableWhole(c) == IF ValueOf(counter[today]) < Limit THEN Points[c] ELSE 0

\* Slip: a day over its limit grants a negative amount.
GrantableBelowZero(c) ==
    LET left == Limit - ValueOf(counter[today]) - 1
    IN  IF Points[c] <= left THEN Points[c] ELSE left

\* What the script grants: all that is wanted, or what is left, or nothing.
Grantable(c) ==
    LET left == Limit - ValueOf(counter[today])
    IN  IF Points[c] <= left THEN Points[c] ELSE IF left > 0 THEN left ELSE 0

\* TryAcquireDailyPoints.  Nothing granted: the key is not touched.  On an error,
\* the script run or not, settleSession returns it.
AcquireDailyPoints(c) ==
    /\ pc[c] = "acquire"
    /\ LET g == Grantable(c)
           taken == IF g = 0 THEN counter
                    ELSE [counter EXCEPT ![today] = ValueOf(@) + g]
       IN  \/ /\ granted' = [granted EXCEPT ![c] = g]
              /\ grantDay' = [grantDay EXCEPT ![c] = today]
              /\ counter' = taken
              /\ Goto(c, IF g = 0 THEN "close" ELSE "tx")
              /\ UNCHANGED bounds
           \/ /\ Fault
              /\ counter' \in {counter, taken}
              /\ Goto(c, "end")
              /\ UNCHANGED <<granted, grantDay>>
    /\ UNCHANGED <<dbVars, today, loaded, ghosts>>

-----------------------------------------------------------------------------
(* Marking the session.                                                    *)

\* Slip: the mark without its status condition.
StillActiveAlways(c) == TRUE

\* WHERE id = ? AND status = 'active'.
StillActive(c) == status[SessionOf[c]] = "active"

\* markSettled.
MarkSettled(c, points) ==
    /\ status' = [status EXCEPT ![SessionOf[c]] = "settled"]
    /\ earned' = [earned EXCEPT ![SessionOf[c]] = points]

\* No points: the session is closed by a single UPDATE, nothing is paid.
CloseSession(c) ==
    /\ pc[c] = "close"
    /\ \/ StillActive(c) /\ MarkSettled(c, 0) /\ UNCHANGED bounds
       \/ ~StillActive(c) /\ UNCHANGED <<status, earned, bounds>>
       \/ Fault /\ UNCHANGED <<status, earned>>
    /\ Goto(c, "end")
    /\ UNCHANGED <<paid, summary, replica, counter, today, loaded, granted, grantDay, ghosts>>

\* The transaction marks the session, writes the points record and the outbox
\* row: it commits; finds the session settled; is rolled back; or commits while
\* its reply is lost, after which the code gives the points back to the counter.
SettleTx(c) ==
    /\ pc[c] = "tx"
    /\ \/ /\ StillActive(c)
          /\ MarkSettled(c, granted[c])
          /\ paid' = paid \cup {c}
          /\ Goto(c, "upsert")
          /\ UNCHANGED <<bounds, ghosts>>
       \/ /\ ~StillActive(c)
          /\ Goto(c, "release")
          /\ UNCHANGED <<status, earned, paid, bounds, ghosts>>
       \/ /\ Fault
          /\ Goto(c, "release")
          /\ UNCHANGED <<status, earned, paid, ghosts>>
       \/ /\ Fault
          /\ StillActive(c)
          /\ MarkSettled(c, granted[c])
          /\ paid' = paid \cup {c}
          /\ Disturb({today, grantDay[c]})
          /\ Goto(c, "release")
    /\ UNCHANGED <<summary, replica, counter, today, loaded, granted, grantDay>>

\* Slip: a call that lost the race keeps what it reserved.
ReleasedNot(c) == counter

\* DECRBY on the counter of the day it is by now.
Released(c) == [counter EXCEPT ![today] = ValueOf(@) - granted[c]]

\* ReleaseDailyPoints; its error is dropped.
ReleaseDailyPoints(c) ==
    /\ pc[c] = "release"
    /\ \/ /\ counter' = Released(c)
          /\ Disturb(IF grantDay[c] = today THEN {} ELSE {today, grantDay[c]})
          /\ UNCHANGED bounds
       \/ Fault /\ UNCHANGED <<counter, ghosts>>
    /\ Goto(c, "end")
    /\ UNCHANGED <<dbVars, today, loaded, granted, grantDay>>

\* Slip: the summary counts what was wanted instead of what was granted.
SummarisedWanted(c) == ValueOf(summary[today]) + Points[c]

\* total = total + delta, in the row of the day it is by now.
Summarised(c) == ValueOf(summary[today]) + granted[c]

\* UpsertDailyPoints, best effort and outside the transaction; then
\* finalizeSettlement, which hands the outbox row to ApplyAsync.
UpsertDailyPoints(c) ==
    /\ pc[c] = "upsert"
    /\ \/ /\ summary' = [summary EXCEPT ![today] = Summarised(c)]
          /\ Disturb(IF grantDay[c] = today THEN {} ELSE {today})
          /\ UNCHANGED bounds
       \/ Fault /\ UNCHANGED <<summary, ghosts>>
    /\ Goto(c, "end")
    /\ UNCHANGED <<status, earned, paid, replica, counter, today, loaded, granted, grantDay>>

-----------------------------------------------------------------------------
(* The surroundings.                                                       *)

\* BackfillDailyPoints, one INSERT ... SELECT: if today's row is missing and the
\* user has sessions created today, insert the sum of their points_earned.
BackfillDailyPoints ==
    LET new == {s \in Sessions : CreatedOn[s] = today}
    IN  /\ summary[today] = NoValue
        /\ new # {}
        /\ summary' = [summary EXCEPT ![today] = SumFunctionOnSet(earned, new)]
        /\ backfilled' = backfilled \cup {today}
        /\ UNCHANGED <<status, earned, paid, replica, counter, today, callVars,
                       bounds, disturbed>>

Replicate ==
    /\ replica # summary
    /\ replica' = summary
    /\ UNCHANGED <<status, earned, paid, summary, counter, today, callVars, bounds, ghosts>>

Midnight ==
    /\ today < LastDay
    /\ today' = today + 1
    /\ UNCHANGED <<dbVars, counter, callVars, bounds, ghosts>>

\* Redis restarts or evicts the counter of today.
LoseCounter ==
    /\ AdverseLeft
    /\ counter[today] # NoValue
    /\ losses' = losses + 1
    /\ counter' = [counter EXCEPT ![today] = NoValue]
    /\ Disturb({today})
    /\ UNCHANGED <<dbVars, today, callVars, failures>>

\* The pod dies or the request's context is cancelled: what the call reserved
\* stays reserved.
Abort(c) ==
    /\ Fault
    /\ pc[c] \notin {"start", "end"}
    /\ Goto(c, "end")
    /\ UNCHANGED <<dbVars, counter, today, loaded, granted, grantDay, ghosts>>

-----------------------------------------------------------------------------
SettleSession(c) ==
    \/ Begin(c) \/ GetDailyPoints(c) \/ GetDailyPointsDB(c) \/ FillCounter(c)
    \/ AcquireDailyPoints(c) \/ CloseSession(c) \/ SettleTx(c)
    \/ ReleaseDailyPoints(c) \/ UpsertDailyPoints(c)

Next ==
    \/ \E c \in Settlers : SettleSession(c) \/ Abort(c)
    \/ BackfillDailyPoints \/ Replicate \/ Midnight \/ LoseCounter

Spec == Init /\ [][Next]_vars

-----------------------------------------------------------------------------
(* Properties.                                                             *)

TypeOK ==
    /\ status \in [Sessions -> {"active", "settled"}]
    /\ earned \in [Sessions -> Nat]
    /\ paid \subseteq Settlers
    /\ summary \in [Days -> Nat \cup {NoValue}]
    /\ replica \in [Days -> Nat \cup {NoValue}]
    /\ counter \in [Days -> Int \cup {NoValue}]
    /\ today \in Days
    /\ pc \in [Settlers -> Pc]
    /\ loaded \in [Settlers -> [day : Days, total : Nat]]
    /\ granted \in [Settlers -> Nat]
    /\ grantDay \in [Settlers -> Days]
    /\ failures \in Nat /\ losses \in Nat
    /\ disturbed \subseteq Days
    /\ backfilled \subseteq Days

\* However many calls settle a session at once, one of them pays, and it pays
\* what the record says was earned; a session closed without points, or not
\* settled at all, is never paid.
PaidOnce ==
    \A c \in paid :
        /\ status[SessionOf[c]] = "settled"
        /\ earned[SessionOf[c]] = granted[c]
        /\ \A b \in paid : SessionOf[b] = SessionOf[c] => b = c

\* Points granted on a day: paid, or reserved by a call that is still running.
Taken(d) ==
    SumFunctionOnSet(granted,
        {c \in Settlers : grantDay[c] = d /\ (c \in paid \/ pc[c] \in {"tx", "release"})})

\* Concurrent settlements stay within the daily limit, except on a day whose
\* counter was overwritten by a late warm-up, was lost, was released under a
\* lost reply, or was used across midnight.
CapUnlessDisturbed == \A d \in Days \ disturbed : Taken(d) <= Limit

\* Reservations are given back: on such a day, without failed or cut-off calls,
\* the counter is exactly what was paid and what running calls hold, so no quota
\* is lost to calls that settle a session somebody else settled first.
CounterIsTaken ==
    failures = 0 =>
        \A d \in Days \ disturbed : ValueOf(counter[d]) = Taken(d)

\* The summary row, from which a lost counter is rebuilt, counts every payment
\* once: without failures, backfills and midnight, row and payments still to be
\* added make up what was paid.
SummaryIsPaid ==
    failures = 0 /\ backfilled = {} /\ today = 0 =>
        SumFunctionOnSet(granted, paid)
            = ValueOf(summary[0]) + SumFunctionOnSet(granted, {c \in paid : pc[c] = "upsert"})

\* What the comments on AcquireDailyPoints say: the warm-up makes the cap hold
\* from a cold start too, a user is never paid more than the daily limit.
CapAlways ==
    \A d \in Days : SumFunctionOnSet(granted, {c \in paid : grantDay[c] = d}) <= Limit
=============================================================================
