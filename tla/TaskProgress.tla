---------------------------- MODULE TaskProgress ----------------------------
(***************************************************************************)
(* Task progress and rewards of one user (internal/service/task with        *)
(* task_repo.go and event_dedup_repo.go).  Events arrive through a consumer *)
(* (module MqConsumers), at least once and in any order; the event_dedup    *)
(* table makes each count once.  A request claims a completed task's reward *)
(* by reading the progress from a replica and then claiming and writing the *)
(* points outbox in one transaction.  Scheduled jobs delete the progress of *)
(* past periods and old dedup rows.                                         *)
(***************************************************************************)
EXTENDS FaultBudget, FiniteSets, FiniteSetsExt

CONSTANTS Events,     \* event ids
          Gain,       \* minutes of an idle event, 1 of a redeem event; 0 is ignored
          Tasks,      \* the tasks an event feeds, numbered in the order of the loop
          TaskType,   \* daily, weekly or achievement
          Target,     \* Task.TargetValue
          Claimers,   \* concurrent Claim requests
          Retention,  \* days a dedup row is kept (7 in the code)
          MaxDay      \* bound: days

ASSUME TaskAssumption ==
    /\ Gain \in [Events -> Nat]
    /\ Tasks \subseteq Nat
    /\ TaskType \in [Tasks -> {"daily", "weekly", "achievement"}]
    /\ Target \in [Tasks -> Nat \ {0}]
    /\ Retention \in Nat \ {0} /\ MaxDay \in Nat \ {0}

VARIABLES day,        \* today; day 1 is a Monday
          rows,       \* user_task_progress, by task and period
          marked,     \* event_dedup: the day of the row, 0 without one
          times,      \* how often an event was added to a task
          credit,     \* the events added to a row's progress
          paid,       \* points_outbox rows written for a task and period
          claim,      \* the Claim requests
          resetOn,    \* the day ResetPeriod last ran for a type
          slaves,     \* whether RWDB has a replica to read from
          replica     \* rows and resetOn as the replica has them

taskVars == <<day, rows, marked, times, credit, paid, claim, resetOn, slaves, replica>>

\* GetCurrentPeriod on day d: the day, the Monday of the week, or 0 for "lifetime".
GetCurrentPeriod(type, d) ==
    CASE type = "daily" -> d
      [] type = "weekly" -> d - ((d - 1) % 7)
      [] OTHER -> 0

PeriodOn(t, d) == GetCurrentPeriod(TaskType[t], d)
Period(t) == PeriodOn(t, day)
Periods == 0 .. MaxDay

NoRow == [there |-> FALSE, current |-> 0, completed |-> FALSE, claimed |-> FALSE]
NoClaim == [at |-> "idle", task |-> 0, period |-> 0]

\* On the last day considered the reset jobs have run; requesters is who will claim.
TaskInit(today, requesters, replicated) ==
    /\ day = today
    /\ rows = [t \in Tasks |-> [p \in Periods |-> NoRow]]
    /\ marked = [e \in Events |-> 0]
    /\ times = [e \in Events |-> [t \in Tasks |-> 0]]
    /\ credit = [t \in Tasks |-> [p \in Periods |-> {}]]
    /\ paid = [t \in Tasks |-> [p \in Periods |-> 0]]
    /\ claim = [c \in Claimers |-> [NoClaim EXCEPT !.at = IF c \in requesters THEN "idle" ELSE "done"]]
    /\ resetOn = [type \in {"daily", "weekly"} |-> IF today = MaxDay THEN today ELSE 0]
    /\ slaves = replicated
    /\ replica = [rows |-> rows, resetOn |-> resetOn]

-----------------------------------------------------------------------------
(* ApplyEventProgress: one transaction marks the event and adds it to every *)
(* task it feeds.  It takes effect when it commits; the day of the mark and *)
(* the period of each task are read from the clock on the way, and the day  *)
(* may have changed since.                                                  *)

\* Slip in Incremented: completed one short of the target.
IncrementedEarly(row, gain, target) ==
    IF row.claimed THEN row
    ELSE [there |-> TRUE, current |-> row.current + gain,
          completed |-> row.completed \/ row.current + gain + 1 >= target, claimed |-> FALSE]

\* incrProgressOnce: the row is created if need be; a claimed one is left alone.
Incremented(row, gain, target) ==
    IF row.claimed THEN row
    ELSE [there |-> TRUE, current |-> row.current + gain,
          completed |-> row.completed \/ row.current + gain >= target, claimed |-> FALSE]

\* IncrProgress of e for the tasks ts, in the period each had on the day at[t].
IncrProgress(e, ts, at) ==
    /\ rows' = [t \in Tasks |-> IF t \notin ts THEN rows[t]
                  ELSE [rows[t] EXCEPT ![PeriodOn(t, at[t])] = Incremented(@, Gain[e], Target[t])]]
    /\ times' = [times EXCEPT ![e] = [t \in Tasks |-> @[t] + IF t \in ts THEN 1 ELSE 0]]
    /\ credit' = [t \in Tasks |-> IF t \notin ts THEN credit[t]
                    ELSE [credit[t] EXCEPT ![PeriodOn(t, at[t])] = @ \cup {e}]]

\* The days on which the loop, running since then, can have asked for the period of each task.
ClockReadings(then) ==
    {at \in [Tasks -> then .. day] : \A t, u \in Tasks : t <= u => at[t] <= at[u]}

\* A row is written of a period that is over.
Straddles(ts, at) == \E t \in ts : PeriodOn(t, at[t]) # Period(t)
LateRow(ts, at) == IF Straddles(ts, at) THEN {"midnight"} ELSE {}

\* Nothing to add, or EventDedupRepository.Mark finds the row of an earlier delivery.
ApplySkips(e) ==
    /\ Gain[e] = 0 \/ marked[e] # 0
    /\ UNCHANGED <<taskVars, faultVars>>

\* Slip in ApplyCommits: the event is not marked.
ApplyCommitsUnmarked(e, since) ==
    /\ Gain[e] > 0 /\ marked[e] = 0
    /\ \E at \in ClockReadings(since) :
          IncrProgress(e, Tasks, at) /\ harm' = harm \cup LateRow(Tasks, at)
    /\ UNCHANGED <<day, marked, paid, claim, resetOn, slaves, replica, faults>>

ApplyCommits(e, since) ==
    /\ Gain[e] > 0 /\ marked[e] = 0
    /\ \E created \in since .. day :
          /\ marked' = [marked EXCEPT ![e] = created]
          /\ \E at \in ClockReadings(created) :
                IncrProgress(e, Tasks, at) /\ harm' = harm \cup LateRow(Tasks, at)
    /\ UNCHANGED <<day, paid, claim, resetOn, slaves, replica, faults>>

\* MySQL answers a statement of IncrProgress with a deadlock: the server has rolled back the
\* mark and the tasks before it.  IncrProgress retries on the same connection, where the
\* statements now commit one by one, and the transaction ends without an error.
ApplyDeadlocked(e, since) ==
    /\ Gain[e] > 0 /\ marked[e] = 0
    /\ faults < MaxFaults /\ faults' = faults + 1
    /\ \E first \in Tasks, at \in ClockReadings(since) :
          LET rest == {t \in Tasks : t >= first}
          IN  IncrProgress(e, rest, at) /\ harm' = harm \cup {"deadlock"} \cup LateRow(rest, at)
    /\ UNCHANGED <<day, marked, paid, claim, resetOn, slaves, replica>>

\* The handler, called on the day since, returns nil to the consumer.
ApplyEventProgress(e, since) ==
    ApplySkips(e) \/ ApplyCommits(e, since) \/ ApplyDeadlocked(e, since)

-----------------------------------------------------------------------------
(* Claim. *)

\* RWDB.Read: a replica if there is one.  It has the master's rows as of some earlier moment.
ReadRows == IF slaves THEN replica.rows ELSE rows

\* FindProgress: the row of the task's current period.
FindProgress(t) == ReadRows[t][Period(t)]

ClaimFind(c, t) ==
    /\ claim[c].at = "idle"
    /\ LET progress == FindProgress(t)
       IN  progress.there /\ progress.completed /\ ~progress.claimed
    /\ claim' = [claim EXCEPT ![c] = [at |-> "found", task |-> t, period |-> Period(t)]]
    /\ UNCHANGED <<day, rows, marked, times, credit, paid, resetOn, slaves, replica, faultVars>>

\* ClaimReward affects this row, or nothing and fails.
ClaimReward(row) == row.completed /\ ~row.claimed

\* The transaction; the outbox row's event id is unique for user, task and period.
ClaimTx(c) ==
    /\ claim[c].at = "found"
    /\ LET t == claim[c].task
           p == claim[c].period
       IN  IF ClaimReward(rows[t][p]) /\ paid[t][p] = 0
           THEN /\ rows' = [rows EXCEPT ![t][p].claimed = TRUE]
                /\ paid' = [paid EXCEPT ![t][p] = @ + 1]
           ELSE UNCHANGED <<rows, paid>>
    /\ claim' = [claim EXCEPT ![c] = [NoClaim EXCEPT !.at = "done"]]
    /\ UNCHANGED <<day, marked, times, credit, resetOn, slaves, replica, faultVars>>

-----------------------------------------------------------------------------
(* The scheduled jobs and the passage of time. *)

NextDay ==
    /\ day < MaxDay
    /\ day' = day + 1
    /\ UNCHANGED <<rows, marked, times, credit, paid, claim, resetOn, slaves, replica, faultVars>>

\* Slip in ResetProgressByType: the rows of the period before are kept.
ResetProgressKeepsLast(type, current) ==
    [t \in Tasks |-> [p \in Periods |->
        IF TaskType[t] = type /\ p + 1 < current THEN NoRow ELSE rows[t][p]]]

\* ResetProgressByType deletes the rows of every other period.
ResetProgressByType(type, current) ==
    [t \in Tasks |-> [p \in Periods |->
        IF TaskType[t] = type /\ p # current THEN NoRow ELSE rows[t][p]]]

ResetPeriod(type) ==
    /\ resetOn[type] # day
    /\ resetOn' = [resetOn EXCEPT ![type] = day]
    /\ rows' = ResetProgressByType(type, GetCurrentPeriod(type, day))
    /\ UNCHANGED <<day, marked, times, credit, paid, claim, slaves, replica, faultVars>>

\* DeleteBefore: the dedup rows older than the retention.
DeleteBefore == {e \in Events : marked[e] # 0 /\ day - marked[e] >= Retention}

\* An event whose dedup row is gone counts again if it is delivered again.
CleanupDedup ==
    /\ DeleteBefore # {}
    /\ marked' = [e \in Events |-> IF e \in DeleteBefore THEN 0 ELSE marked[e]]
    /\ harm' = harm \cup {"cleanup"}
    /\ UNCHANGED <<day, rows, times, credit, paid, claim, resetOn, slaves, replica, faults>>

\* The replica catches up.
Replicate ==
    /\ slaves /\ replica # [rows |-> rows, resetOn |-> resetOn]
    /\ replica' = [rows |-> rows, resetOn |-> resetOn]
    /\ UNCHANGED <<day, rows, marked, times, credit, paid, claim, resetOn, slaves, faultVars>>

TaskOwnStep ==
    \/ \E c \in Claimers : ClaimTx(c) \/ \E t \in Tasks : ClaimFind(c, t)
    \/ \E type \in {"daily", "weekly"} : ResetPeriod(type)
    \/ NextDay
    \/ CleanupDedup
    \/ Replicate

-----------------------------------------------------------------------------
RowType == [Tasks -> [Periods -> [there : BOOLEAN, current : Nat,
                                  completed : BOOLEAN, claimed : BOOLEAN]]]
ResetType == [{"daily", "weekly"} -> 0 .. MaxDay]

TaskTypeOK ==
    /\ day \in 1 .. MaxDay
    /\ rows \in RowType
    /\ marked \in [Events -> 0 .. MaxDay]
    /\ times \in [Events -> [Tasks -> Nat]]
    /\ credit \in [Tasks -> [Periods -> SUBSET Events]]
    /\ paid \in [Tasks -> [Periods -> Nat]]
    /\ claim \in [Claimers -> [at : {"idle", "found", "done"}, task : Tasks \cup {0}, period : Periods]]
    /\ resetOn \in ResetType
    /\ slaves \in BOOLEAN
    /\ replica \in [rows : RowType, resetOn : ResetType]

\* task_service.go 238-244 ("effectively-once"): however often and in whatever order an event
\* is delivered, it is added to all the tasks it feeds or to none, and once, as long as MySQL
\* reported no deadlock and no dedup row has been cleaned up.
ProgressOncePerEvent ==
    harm \cap {"deadlock", "cleanup"} = {} =>
        \A e \in Events, t \in Tasks :
            times[e][t] = IF marked[e] # 0 THEN 1 ELSE 0

\* The reward of a task and period is paid once at most, and only when distinct events counted
\* for that period reach the target, over redelivery, concurrent claims on stale reads, the
\* change of the day and the reset jobs (same two exceptions).
RewardIsEarned ==
    \A t \in Tasks, p \in Periods :
        /\ paid[t][p] <= 1
        /\ paid[t][p] = 1 /\ harm \cap {"deadlock", "cleanup"} = {} =>
              MapThenSumSet(LAMBDA e : Gain[e], credit[t][p]) >= Target[t]

\* FindUserProgress of a period, for one task.
FindUserProgress(t, p) == IF ReadRows[t][p].there THEN {ReadRows[t][p]} ELSE {}

\* List and Progress collect the rows of every current period and index them by task, in the
\* order of a Go map.
ListedRows(t) == UNION {FindUserProgress(t, p) : p \in {Period(u) : u \in Tasks}}

\* The day of the last daily reset the rows read show.
ReadReset == IF slaves THEN replica.resetOn["daily"] ELSE resetOn["daily"]

\* What they show for a task belongs to its current period once the daily reset of the day has
\* run and has reached the replica they read, over any replication lag.  Before that, a daily
\* row of Monday is also a row of the weekly tasks' period; and an event handled across
\* midnight may add such a row after the reset, its period having been computed before.
ListShowsThisPeriod ==
    ReadReset = day /\ "midnight" \notin harm =>
        \A t \in Tasks : ListedRows(t) \subseteq {ReadRows[t][Period(t)]}
=============================================================================
