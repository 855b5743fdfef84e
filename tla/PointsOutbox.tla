---------------------------- MODULE PointsOutbox ----------------------------
(***************************************************************************)
(* The transactional outbox that carries points adjustments from           *)
(* businessDB to userDB (service/common/points_outbox.go,                  *)
(* repository/points_outbox_repo.go, userRepo.UpdatePoints).               *)
(*                                                                         *)
(* A business transaction (redeem, flash redeem, idle settlement, task     *)
(* claim) commits an outbox row.  Three kinds of process then compete for  *)
(* it: the goroutine ApplyAsync starts, the MQ consumer, and the relay     *)
(* loop that every pod runs.  All of them run tryApply: Claim the row in   *)
(* businessDB, UpdatePoints in userDB, then MarkDone or Requeue.  The two  *)
(* databases share no transaction, so each call is a step of its own and   *)
(* a pod may stop between any two of them.                                 *)
(***************************************************************************)
EXTENDS Integers, FiniteSets

CONSTANTS Users,        \* user accounts
          Events,       \* event_id values, one per business transaction
          Consumers,    \* MQ consumer handlers (ApplyPointsAdjust)
          Relays,       \* RelayLoop goroutines, one per pod
          Pods,         \* application processes
          PodOf,        \* the pod of each request, consumer and relay
          UserOf,       \* the account an event adjusts
          Delta,        \* the signed amount of an event
          InitBalance,  \* balances when the system starts
          NoEvent,      \* "no row in hand"
          Slots,        \* capacity of the async worker pool of a pod (sem)
          RelayLimit,   \* LIMIT of PendingOlderThan
          MaxFaults,    \* bound: calls that fail and had no effect
          MaxLost,      \* bound, per event: UpdatePoints that took effect but returned an error
          MaxTimeouts,  \* bound: async workers that run into outboxWriteTimeout
          MaxAbandons,  \* bound: businessDB calls that fail and strand the row
          MaxCrashes    \* bound: pod crashes

\* The goroutine ApplyAsync starts for an event is named by the event:
\* ApplyAsync is called once, by the request that committed the row.
Procs == Events \cup Consumers \cup Relays

ASSUME OutboxAssumption ==
    /\ UserOf \in [Events -> Users]
    /\ Delta \in [Events -> Int]
    /\ InitBalance \in [Users -> Nat]
    /\ PodOf \in [Procs -> Pods]
    /\ NoEvent \notin Events
    /\ Events \cap Consumers = {}
    /\ Events \cap Relays = {}
    /\ Consumers \cap Relays = {}
    /\ Slots \in Nat \ {0}
    /\ RelayLimit \in Nat \ {0}
    /\ MaxFaults \in Nat
    /\ MaxLost \in Nat
    /\ MaxTimeouts \in Nat
    /\ MaxAbandons \in Nat
    /\ MaxCrashes \in Nat

VARIABLES
    status,    \* state of the request and of its outbox row
    id,        \* auto-increment id of the event's row, 0 before the commit
    lastId,    \* the last id given out
    aged,      \* rows with id <= aged are past the relay's grace
    balance,   \* users.points_balance
    sent,      \* user.points.adjust messages in the topic
    pc,        \* where each process is inside tryApply
    cur,       \* the event each process works on
    batch,     \* rows a relay has read and not yet tried
    faults, timeouts, abandons, crashes,  \* used so far, against the bounds
    applied,   \* ghost: how often UpdatePoints took effect for the event
    lost       \* ghost: how often that effect was reported as an error

vars == <<status, id, lastId, aged, balance, sent, pc, cur, batch,
          faults, timeouts, abandons, crashes, applied, lost>>

\* "new" and "checked" are a request before its transaction commits; the other
\* three are the values of the status column.
Status == {"new", "checked", "pending", "processing", "done"}
Pc == {"idle", "dispatch", "claim", "update", "requeue", "markdone", "publish"}

Init ==
    /\ status = [e \in Events |-> "new"]
    /\ id = [e \in Events |-> 0]
    /\ lastId = 0
    /\ aged = 0
    /\ balance = InitBalance
    /\ sent = {}
    /\ pc = [x \in Procs |-> "idle"]
    /\ cur = [x \in Procs |-> NoEvent]
    /\ batch = [r \in Relays |-> {}]
    /\ faults = 0 /\ timeouts = 0 /\ abandons = 0 /\ crashes = 0
    /\ applied = [e \in Events |-> 0]
    /\ lost = [e \in Events |-> 0]

-----------------------------------------------------------------------------
(* The request: check the balance, commit the transaction, ApplyAsync.     *)

\* userRepo.FindByID and the balance comparison.  The row may come from a
\* cache, which is a read that happened early: any number of steps may pass
\* before the transaction commits.  Incomes (Delta >= 0) always pass.
CheckBalance(e) ==
    /\ status[e] = "new"
    /\ balance[UserOf[e]] + Delta[e] >= 0
    /\ status' = [status EXCEPT ![e] = "checked"]
    /\ UNCHANGED <<id, lastId, aged, balance, sent, pc, cur, batch,
                   faults, timeouts, abandons, crashes, applied, lost>>

\* The business transaction commits with the outbox row in it.
AppendOutboxInTx(e) ==
    /\ status[e] = "checked"
    /\ status' = [status EXCEPT ![e] = "pending"]
    /\ lastId' = lastId + 1
    /\ id' = [id EXCEPT ![e] = lastId + 1]
    /\ pc' = [pc EXCEPT ![e] = "dispatch"]
    /\ cur' = [cur EXCEPT ![e] = e]
    /\ UNCHANGED <<aged, balance, sent, batch,
                   faults, timeouts, abandons, crashes, applied, lost>>

\* Goroutines of a pod that hold a slot of sem.
Running(p) ==
    {e \in Events : PodOf[e] = p /\ pc[e] \notin {"idle", "dispatch"}}

\* ApplyAsync: start a worker if the pool has a slot, else only publish.  Send
\* ignores its error, so the message may or may not reach the topic.
ApplyAsync(e) ==
    /\ pc[e] = "dispatch"
    /\ \/ /\ Cardinality(Running(PodOf[e])) < Slots
          /\ pc' = [pc EXCEPT ![e] = "claim"]
          /\ UNCHANGED <<sent, cur>>
       \/ /\ Cardinality(Running(PodOf[e])) >= Slots
          /\ pc' = [pc EXCEPT ![e] = "idle"]
          /\ cur' = [cur EXCEPT ![e] = NoEvent]
          /\ sent' \in {sent, sent \cup {e}}
    /\ UNCHANGED <<status, id, lastId, aged, balance, batch,
                   faults, timeouts, abandons, crashes, applied, lost>>

-----------------------------------------------------------------------------
(* tryApply, step by step, for every kind of process.                      *)

\* Where a process goes when tryApply returns: the async worker publishes
\* after a failure; consumer and relay drop the result.
Return(x, ok) ==
    IF x \in Events /\ ~ok
    THEN /\ pc' = [pc EXCEPT ![x] = "publish"]
         /\ UNCHANGED cur
    ELSE /\ pc' = [pc EXCEPT ![x] = "idle"]
         /\ cur' = [cur EXCEPT ![x] = NoEvent]

\* Slip: a claim that retakes rows in processing.
ClaimableTwice(e) == status[e] \in {"pending", "processing"}

\* The WHERE clause of Claim.
Claimable(e) == status[e] = "pending"

\* Claim: UPDATE ... SET status='processing' WHERE status='pending'.
\* Third branch: businessDB returned an error without effect.  Fourth: the
\* update committed but its reply was lost, nobody owns the row.
Claim(x) ==
    /\ pc[x] = "claim"
    /\ \/ /\ Claimable(cur[x])
          /\ status' = [status EXCEPT ![cur[x]] = "processing"]
          /\ pc' = [pc EXCEPT ![x] = "update"]
          /\ UNCHANGED <<cur, faults, abandons>>
       \/ /\ ~Claimable(cur[x])
          /\ Return(x, FALSE)
          /\ UNCHANGED <<status, faults, abandons>>
       \/ /\ faults < MaxFaults
          /\ faults' = faults + 1
          /\ Return(x, FALSE)
          /\ UNCHANGED <<status, abandons>>
       \/ /\ Claimable(cur[x])
          /\ abandons < MaxAbandons
          /\ abandons' = abandons + 1
          /\ status' = [status EXCEPT ![cur[x]] = "processing"]
          /\ Return(x, FALSE)
          /\ UNCHANGED faults
    /\ UNCHANGED <<id, lastId, aged, balance, sent, batch, timeouts, crashes, applied, lost>>

\* Slip: the update without its balance condition.
AffordableAlways(e) == TRUE

\* UPDATE users SET points_balance = points_balance + delta
\* WHERE points_balance >= -delta.
Affordable(e) == balance[UserOf[e]] >= -Delta[e]

\* UpdatePoints takes effect and says so; is refused because the balance is
\* too low; fails without effect; or takes effect and reports an error.
UpdatePoints(x) ==
    /\ pc[x] = "update"
    /\ LET e == cur[x]
           Effect == /\ Affordable(e)
                     /\ balance' = [balance EXCEPT ![UserOf[e]] = @ + Delta[e]]
                     /\ applied' = [applied EXCEPT ![e] = @ + 1]
       IN  \/ /\ Effect
              /\ pc' = [pc EXCEPT ![x] = "markdone"]
              /\ UNCHANGED <<faults, lost>>
           \/ /\ ~Affordable(e)
              /\ pc' = [pc EXCEPT ![x] = "requeue"]
              /\ UNCHANGED <<balance, applied, faults, lost>>
           \/ /\ faults < MaxFaults
              /\ faults' = faults + 1
              /\ pc' = [pc EXCEPT ![x] = "requeue"]
              /\ UNCHANGED <<balance, applied, lost>>
           \/ /\ lost[e] < MaxLost
              /\ Effect
              /\ lost' = [lost EXCEPT ![e] = @ + 1]
              /\ pc' = [pc EXCEPT ![x] = "requeue"]
              /\ UNCHANGED faults
    /\ UNCHANGED <<status, id, lastId, aged, sent, cur, batch, timeouts, abandons, crashes>>

\* Slip: a failed update closes the row as if it had been applied.
RequeueAsDone(x) ==
    /\ pc[x] = "requeue"
    /\ status' = [status EXCEPT ![cur[x]] = "done"]
    /\ Return(x, FALSE)
    /\ UNCHANGED <<id, lastId, aged, balance, sent, batch,
                   faults, timeouts, abandons, crashes, applied, lost>>

\* Slip: a failed update parks the row in a status nobody knows.
RequeueAsFailed(x) ==
    /\ pc[x] = "requeue"
    /\ status' = [status EXCEPT ![cur[x]] = "failed"]
    /\ Return(x, FALSE)
    /\ UNCHANGED <<id, lastId, aged, balance, sent, batch,
                   faults, timeouts, abandons, crashes, applied, lost>>

\* Requeue: back to pending, only from processing.
Requeue(x) ==
    /\ pc[x] = "requeue"
    /\ status' = [status EXCEPT ![cur[x]] = IF @ = "processing" THEN "pending" ELSE @]
    /\ Return(x, FALSE)
    /\ UNCHANGED <<id, lastId, aged, balance, sent, batch,
                   faults, timeouts, abandons, crashes, applied, lost>>

\* MarkDone: to done, only from processing.
MarkDone(x) ==
    /\ pc[x] = "markdone"
    /\ status' = [status EXCEPT ![cur[x]] = IF @ = "processing" THEN "done" ELSE @]
    /\ Return(x, TRUE)
    /\ UNCHANGED <<id, lastId, aged, balance, sent, batch,
                   faults, timeouts, abandons, crashes, applied, lost>>

\* A process between a successful Claim and the write that closes tryApply.
Holds(x) == pc[x] \in {"update", "requeue", "markdone"}

\* wctx of the async worker expires (outboxWriteTimeout): the call it is in
\* fails without effect, and so does every later call, Requeue included.
WriteTimeout(e) ==
    /\ Holds(e)
    /\ timeouts < MaxTimeouts
    /\ timeouts' = timeouts + 1
    /\ Return(e, pc[e] = "markdone")
    /\ UNCHANGED <<status, id, lastId, aged, balance, sent, batch,
                   faults, abandons, crashes, applied, lost>>

\* The write that should close tryApply fails: businessDB is down, or bgCtx of a
\* relay or consumer was cancelled by a graceful shutdown.  The error is
\* dropped.
Abandon(x) ==
    /\ pc[x] \in {"requeue", "markdone"}
    /\ abandons < MaxAbandons
    /\ abandons' = abandons + 1
    /\ Return(x, pc[x] = "markdone")
    /\ UNCHANGED <<status, id, lastId, aged, balance, sent, batch,
                   faults, timeouts, crashes, applied, lost>>

\* publish, after a failed tryApply of the async worker.
Publish(e) ==
    /\ pc[e] = "publish"
    /\ sent' \in {sent, sent \cup {e}}
    /\ pc' = [pc EXCEPT ![e] = "idle"]
    /\ cur' = [cur EXCEPT ![e] = NoEvent]
    /\ UNCHANGED <<status, id, lastId, aged, balance, batch,
                   faults, timeouts, abandons, crashes, applied, lost>>

-----------------------------------------------------------------------------
(* Consumer and relay.                                                     *)

\* ApplyPointsAdjust.  A message stays in the topic: it may be delivered
\* late, again, or to several consumers.
ApplyPointsAdjust(c, e) ==
    /\ pc[c] = "idle"
    /\ e \in sent
    /\ pc' = [pc EXCEPT ![c] = "claim"]
    /\ cur' = [cur EXCEPT ![c] = e]
    /\ UNCHANGED <<status, id, lastId, aged, balance, sent, batch,
                   faults, timeouts, abandons, crashes, applied, lost>>

\* The next row becomes older than the relay's grace period.
Age ==
    /\ aged < lastId
    /\ aged' = aged + 1
    /\ UNCHANGED <<status, id, lastId, balance, sent, pc, cur, batch,
                   faults, timeouts, abandons, crashes, applied, lost>>

\* Slip: the newest row past the grace is left out.
PendingButNewest == {e \in Events : status[e] = "pending" /\ id[e] < aged}

\* PendingOlderThan: pending rows older than the grace, by id, at most
\* RelayLimit of them.
PendingOlderThan ==
    LET old == {e \in Events : status[e] = "pending" /\ id[e] <= aged}
    IN  {e \in old : Cardinality({f \in old : id[f] < id[e]}) < RelayLimit}

\* A tick of RelayLoop reads its rows...
RelayScan(r) ==
    /\ pc[r] = "idle"
    /\ batch[r] = {}
    /\ batch' = [batch EXCEPT ![r] = PendingOlderThan]
    /\ UNCHANGED <<status, id, lastId, aged, balance, sent, pc, cur,
                   faults, timeouts, abandons, crashes, applied, lost>>

\* ... and tries them one after the other in id order, as it read them.
RelayNext(r) ==
    /\ pc[r] = "idle"
    /\ \E e \in batch[r] :
          /\ \A f \in batch[r] : id[e] <= id[f]
          /\ cur' = [cur EXCEPT ![r] = e]
          /\ batch' = [batch EXCEPT ![r] = @ \ {e}]
    /\ pc' = [pc EXCEPT ![r] = "claim"]
    /\ UNCHANGED <<status, id, lastId, aged, balance, sent,
                   faults, timeouts, abandons, crashes, applied, lost>>

\* A pod stops and restarts: its requests, workers, handlers and relay are
\* gone; the rows, the balances and the topic stay.
Crash(p) ==
    /\ crashes < MaxCrashes
    /\ crashes' = crashes + 1
    /\ pc' = [x \in Procs |-> IF PodOf[x] = p THEN "idle" ELSE pc[x]]
    /\ cur' = [x \in Procs |-> IF PodOf[x] = p THEN NoEvent ELSE cur[x]]
    /\ batch' = [r \in Relays |-> IF PodOf[r] = p THEN {} ELSE batch[r]]
    /\ status' = [e \in Events |->
                    IF PodOf[e] = p /\ status[e] = "checked" THEN "new" ELSE status[e]]
    /\ UNCHANGED <<id, lastId, aged, balance, sent, faults, timeouts, abandons, applied, lost>>

-----------------------------------------------------------------------------
TryApply(x) == Claim(x) \/ UpdatePoints(x) \/ Requeue(x) \/ MarkDone(x)

Next ==
    \/ \E e \in Events : CheckBalance(e) \/ AppendOutboxInTx(e)
                         \/ ApplyAsync(e) \/ Publish(e) \/ WriteTimeout(e)
    \/ \E x \in Procs : TryApply(x) \/ Abandon(x)
    \/ \E c \in Consumers, e \in Events : ApplyPointsAdjust(c, e)
    \/ \E r \in Relays : RelayScan(r) \/ RelayNext(r)
    \/ Age
    \/ \E p \in Pods : Crash(p)

Spec == Init /\ [][Next]_vars

\* Goroutines run, the relay's ticker fires and time passes.  Nothing obliges
\* a user to redeem, the topic to deliver, or a fault to happen.
Fairness ==
    /\ \A x \in Procs : WF_vars(TryApply(x))
    /\ \A e \in Events : WF_vars(ApplyAsync(e)) /\ WF_vars(Publish(e))
    /\ \A r \in Relays : WF_vars(RelayScan(r)) /\ WF_vars(RelayNext(r))
    /\ WF_vars(Age)

FairSpec == Spec /\ Fairness

-----------------------------------------------------------------------------
(* Properties.                                                             *)

Committed(e) == status[e] \in {"pending", "processing", "done"}

TypeOK ==
    /\ status \in [Events -> Status]
    /\ id \in [Events -> Nat]
    /\ lastId \in Nat
    /\ aged \in 0..lastId
    /\ balance \in [Users -> Int]
    /\ sent \subseteq Events
    /\ pc \in [Procs -> Pc]
    /\ cur \in [Procs -> Events \cup {NoEvent}]
    /\ batch \in [Relays -> SUBSET Events]
    /\ faults \in Nat /\ timeouts \in Nat /\ abandons \in Nat /\ crashes \in Nat
    /\ applied \in [Events -> Nat]
    /\ lost \in [Events -> Nat]

\* Competing debits of one account (workers, consumers and relays of several
\* pods, each with its own row) never take the balance below zero, although
\* each was checked long before it is applied.
BalanceNeverNegative == \A u \in Users : balance[u] >= 0

\* However the competitors interleave, crash and retry, an adjustment is
\* applied twice only if an UpdatePoints that took effect reported an error.
ExtraApplicationsAreLostReplies ==
    \A e \in Events : applied[e] <= lost[e] + 1

\* A row is marked done only when its adjustment really reached userDB, and a
\* row that competitors may still claim has no unreported effect behind it.
StatusTellsApplied ==
    \A e \in Events :
        /\ status[e] = "done" => applied[e] = lost[e] + 1
        /\ status[e] \in {"new", "checked", "pending"} => applied[e] = lost[e]

\* Claim gives a row to one process: no two processes are ever between Claim
\* and the closing write of the same row.
OneHolder ==
    \A x, y \in Procs : Holds(x) /\ Holds(y) /\ cur[x] = cur[y] => x = y

\* A row in processing that no process holds: nothing will ever touch it,
\* since Claim and PendingOlderThan look at pending rows only.
Stranded(e) ==
    /\ status[e] = "processing"
    /\ ~\E x \in Procs : Holds(x) /\ cur[x] = e

\* What the comments promise: the relay is the safety net, a committed
\* adjustment is eventually applied.
EventuallyApplied ==
    \A e \in Events : Committed(e) ~> applied[e] > 0

\* What the code does guarantee under crashes, timeouts and lost messages: a
\* committed, payable adjustment is eventually applied unless its row is
\* stranded.
EventuallyAppliedOrStranded ==
    \A e \in Events : Committed(e) ~> (applied[e] > 0 \/ Stranded(e))

\* Refinement: without lost replies the outbox is the abstract ledger.
Ledger == INSTANCE PointsLedger WITH
    accepted <- {e \in Events : Committed(e)},
    credited <- {e \in Events : applied[e] > 0}

LedgerSpec == Ledger!LSpec
=============================================================================
