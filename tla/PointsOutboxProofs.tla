------------------------- MODULE PointsOutboxProofs -------------------------
(***************************************************************************)
(* Proofs about PointsOutbox, for any number of accounts, events, pods,    *)
(* consumers and relays and any bound on faults, timeouts and crashes.     *)
(***************************************************************************)
EXTENDS PointsOutbox, TLAPS

\* A process that is not idle has an event in hand.
BusyHasEvent == \A x \in Procs : pc[x] # "idle" => cur[x] \in Events

\* The row of a process that claimed it is in processing.
HeldIsProcessing == \A x \in Procs : Holds(x) => status[cur[x]] = "processing"

\* What each status says about the number of effects on userDB.
CountByStatus ==
    \A e \in Events :
        /\ status[e] \in {"new", "checked", "pending"} => applied[e] = lost[e]
        /\ status[e] = "done" => applied[e] = lost[e] + 1
        /\ status[e] = "processing" => applied[e] \in {lost[e], lost[e] + 1}

\* What the program counter of the holder says about it.
CountByHolder ==
    \A x \in Procs :
        /\ pc[x] \in {"update", "requeue"} => applied[cur[x]] = lost[cur[x]]
        /\ pc[x] = "markdone" => applied[cur[x]] = lost[cur[x]] + 1

\* The inductive invariant.
IndInv ==
    /\ TypeOK
    /\ BusyHasEvent
    /\ HeldIsProcessing
    /\ OneHolder
    /\ CountByStatus
    /\ CountByHolder
    /\ BalanceNeverNegative

-----------------------------------------------------------------------------
\* The type invariant is inductive once every busy process has an event in hand.
LEMMA InitTyped == Init => TypeOK /\ BusyHasEvent
BY OutboxAssumption DEF Init, TypeOK, BusyHasEvent, Status, Pc, Procs

\* Returning from tryApply leaves the two control variables well typed.
LEMMA ReturnTyped ==
    ASSUME TypeOK, BusyHasEvent, NEW x \in Procs, pc[x] # "idle",
           NEW ok, Return(x, ok)
    PROVE  /\ pc' \in [Procs -> Pc]
           /\ cur' \in [Procs -> Events \cup {NoEvent}]
           /\ \A y \in Procs : pc'[y] # "idle" => cur'[y] \in Events
           /\ \A y \in Procs \ {x} : pc'[y] = pc[y] /\ cur'[y] = cur[y]
           /\ pc'[x] \in {"idle", "publish"}
BY DEF TypeOK, BusyHasEvent, Return, Pc

\* One step keeps every variable in its type.
LEMMA StepTyped == TypeOK /\ BusyHasEvent /\ [Next]_vars => (TypeOK /\ BusyHasEvent)'
<1> SUFFICES ASSUME TypeOK, BusyHasEvent, [Next]_vars
             PROVE  TypeOK' /\ BusyHasEvent'
  OBVIOUS
<1> USE OutboxAssumption DEF TypeOK, BusyHasEvent, Status, Pc, Procs
<1>1. ASSUME NEW e \in Events, CheckBalance(e) PROVE TypeOK' /\ BusyHasEvent'
  BY <1>1 DEF CheckBalance
<1>2. ASSUME NEW e \in Events, AppendOutboxInTx(e) PROVE TypeOK' /\ BusyHasEvent'
  BY <1>2 DEF AppendOutboxInTx
<1>3. ASSUME NEW e \in Events, ApplyAsync(e) PROVE TypeOK' /\ BusyHasEvent'
  BY <1>3 DEF ApplyAsync
<1>4. ASSUME NEW e \in Events, Publish(e) PROVE TypeOK' /\ BusyHasEvent'
  BY <1>4 DEF Publish
<1>5. ASSUME NEW e \in Events, WriteTimeout(e) PROVE TypeOK' /\ BusyHasEvent'
  <2>1. e \in Procs /\ pc[e] # "idle" /\ cur[e] \in Events /\ Return(e, pc[e] = "markdone")
    BY <1>5 DEF WriteTimeout, Holds
  <2>2. /\ pc' \in [Procs -> Pc]
        /\ cur' \in [Procs -> Events \cup {NoEvent}]
        /\ BusyHasEvent'
    BY <2>1, ReturnTyped
  <2>3. QED
    BY <1>5, <2>1, <2>2 DEF WriteTimeout
<1>6. ASSUME NEW x \in Procs, Claim(x) PROVE TypeOK' /\ BusyHasEvent'
  <2>1. cur[x] \in Events /\ pc[x] # "idle"
    BY <1>6 DEF Claim
  <2>2. status' \in [Events -> Status]
    BY <1>6, <2>1 DEF Claim
  <2>3. faults' \in Nat /\ abandons' \in Nat
    <3>1. faults' \in {faults, faults + 1} /\ abandons' \in {abandons, abandons + 1}
      BY <1>6, Zenon DEF Claim
    <3>2. QED
      BY <3>1
  <2>4. /\ pc' \in [Procs -> Pc]
        /\ cur' \in [Procs -> Events \cup {NoEvent}]
        /\ \A y \in Procs : pc'[y] # "idle" => cur'[y] \in Events
    <3>1. CASE Return(x, FALSE)
      BY <3>1, <2>1, ReturnTyped
    <3>2. CASE pc' = [pc EXCEPT ![x] = "update"] /\ UNCHANGED cur
      BY <3>2, <2>1
    <3>3. QED
      BY <1>6, <3>1, <3>2 DEF Claim
  <2>5. QED
    BY <1>6, <2>2, <2>3, <2>4 DEF Claim
<1>7. ASSUME NEW x \in Procs, UpdatePoints(x) PROVE TypeOK' /\ BusyHasEvent'
  <2>1. cur[x] \in Events
    BY <1>7 DEF UpdatePoints
  <2>2. balance' \in [Users -> Int] /\ applied' \in [Events -> Nat] /\ lost' \in [Events -> Nat]
    BY <1>7, <2>1 DEF UpdatePoints
  <2>3. pc' \in [Procs -> Pc] /\ faults' \in Nat
    BY <1>7 DEF UpdatePoints
  <2>4. \A y \in Procs : pc'[y] # "idle" => cur'[y] \in Events
    BY <1>7, <2>1 DEF UpdatePoints
  <2>5. QED
    BY <1>7, <2>2, <2>3, <2>4 DEF UpdatePoints
<1>8. ASSUME NEW x \in Procs, Requeue(x) PROVE TypeOK' /\ BusyHasEvent'
  <2>1. x \in Procs /\ pc[x] # "idle" /\ cur[x] \in Events /\ Return(x, FALSE)
    BY <1>8 DEF Requeue
  <2>2. /\ pc' \in [Procs -> Pc]
        /\ cur' \in [Procs -> Events \cup {NoEvent}]
        /\ BusyHasEvent'
    BY <2>1, ReturnTyped
  <2>3. QED
    BY <1>8, <2>1, <2>2 DEF Requeue
<1>9. ASSUME NEW x \in Procs, MarkDone(x) PROVE TypeOK' /\ BusyHasEvent'
  <2>1. x \in Procs /\ pc[x] # "idle" /\ cur[x] \in Events /\ Return(x, TRUE)
    BY <1>9 DEF MarkDone
  <2>2. /\ pc' \in [Procs -> Pc]
        /\ cur' \in [Procs -> Events \cup {NoEvent}]
        /\ BusyHasEvent'
    BY <2>1, ReturnTyped
  <2>3. QED
    BY <1>9, <2>1, <2>2 DEF MarkDone
<1>10. ASSUME NEW x \in Procs, Abandon(x) PROVE TypeOK' /\ BusyHasEvent'
  <2>1. x \in Procs /\ pc[x] # "idle" /\ cur[x] \in Events /\ Return(x, pc[x] = "markdone")
    BY <1>10 DEF Abandon
  <2>2. /\ pc' \in [Procs -> Pc]
        /\ cur' \in [Procs -> Events \cup {NoEvent}]
        /\ BusyHasEvent'
    BY <2>1, ReturnTyped
  <2>3. QED
    BY <1>10, <2>1, <2>2 DEF Abandon
<1>11. ASSUME NEW c \in Consumers, NEW e \in Events, ApplyPointsAdjust(c, e)
       PROVE  TypeOK' /\ BusyHasEvent'
  BY <1>11 DEF ApplyPointsAdjust
<1>12. ASSUME NEW r \in Relays, RelayScan(r) PROVE TypeOK' /\ BusyHasEvent'
  <2>1. PendingOlderThan \subseteq Events
    BY DEF PendingOlderThan
  <2>2. QED
    BY <1>12, <2>1 DEF RelayScan
<1>13. ASSUME NEW r \in Relays, RelayNext(r) PROVE TypeOK' /\ BusyHasEvent'
  BY <1>13 DEF RelayNext
<1>14. ASSUME Age PROVE TypeOK' /\ BusyHasEvent'
  BY <1>14 DEF Age
<1>15. ASSUME NEW p \in Pods, Crash(p) PROVE TypeOK' /\ BusyHasEvent'
  BY <1>15 DEF Crash
<1>16. ASSUME UNCHANGED vars PROVE TypeOK' /\ BusyHasEvent'
  BY <1>16 DEF vars
<1>17. QED
  BY <1>1, <1>2, <1>3, <1>4, <1>5, <1>6, <1>7, <1>8, <1>9, <1>10, <1>11, <1>12,
     <1>13, <1>14, <1>15, <1>16 DEF Next, TryApply

\* Every reachable state is well typed: statuses stay in the state machine of
\* model/points_outbox.go, counters are naturals, queues hold committed events.
THEOREM OutboxTypeCorrect == Spec => []TypeOK
<1>1. TypeOK /\ BusyHasEvent /\ [Next]_vars => (TypeOK /\ BusyHasEvent)'
  BY StepTyped
<1>2. QED
  BY <1>1, InitTyped, PTL DEF Spec

-----------------------------------------------------------------------------
\* The parts of the invariant that say who holds a row and what that means.
Core ==
    /\ HeldIsProcessing
    /\ OneHolder
    /\ CountByStatus
    /\ CountByHolder
    /\ BalanceNeverNegative

Unclaimed == {"new", "checked", "pending"}

\* A step that applies nothing, claims nothing and closes nothing keeps Core:
\* a status moves at most among the unclaimed ones and whoever holds a row
\* after the step held it before.
LEMMA QuietStep ==
    ASSUME IndInv,
           applied' = applied, lost' = lost, balance' = balance,
           \A e \in Events : \/ status'[e] = status[e]
                             \/ status[e] \in Unclaimed /\ status'[e] \in Unclaimed,
           \A x \in Procs : pc'[x] \in {"update", "requeue", "markdone"} =>
                                pc'[x] = pc[x] /\ cur'[x] = cur[x]
    PROVE  Core'
<1>1. \A x \in Procs : pc'[x] \in {"update", "requeue", "markdone"} => cur[x] \in Events
  BY DEF IndInv, BusyHasEvent
<1>2. HeldIsProcessing'
  BY <1>1 DEF IndInv, HeldIsProcessing, Holds, Unclaimed
<1>3. OneHolder'
  BY DEF IndInv, OneHolder, Holds
<1>4. CountByStatus'
  BY DEF IndInv, CountByStatus, Unclaimed
<1>5. CountByHolder'
  BY <1>1 DEF IndInv, CountByHolder
<1>6. BalanceNeverNegative'
  BY DEF IndInv, BalanceNeverNegative
<1>7. QED
  BY <1>2, <1>3, <1>4, <1>5, <1>6 DEF Core

\* After Return, the process holds nothing and the others are where they were.
LEMMA ReturnReleases ==
    ASSUME IndInv, NEW x \in Procs, pc[x] # "idle", NEW ok, Return(x, ok)
    PROVE  \A y \in Procs : pc'[y] \in {"update", "requeue", "markdone"} =>
                                y # x /\ pc'[y] = pc[y] /\ cur'[y] = cur[y]
BY ReturnTyped DEF IndInv

\* Claim by one process: the row was pending, so nobody held it before.
LEMMA ClaimKeepsCore ==
    ASSUME IndInv, NEW x \in Procs, Claim(x)
    PROVE  Core'
<1> DEFINE e == cur[x]
<1>1. e \in Events /\ pc[x] = "claim" /\ pc[x] # "idle"
  BY DEF IndInv, BusyHasEvent, Claim
<1>2. applied' = applied /\ lost' = lost /\ balance' = balance
  BY DEF Claim
<1>3. CASE status' = status /\ Return(x, FALSE)
  BY <1>1, <1>2, <1>3, ReturnReleases, QuietStep
<1>4. CASE /\ Claimable(e)
           /\ status' = [status EXCEPT ![e] = "processing"]
           /\ \/ Return(x, FALSE)
              \/ pc' = [pc EXCEPT ![x] = "update"] /\ cur' = cur
  <2>1. status[e] = "pending" /\ applied[e] = lost[e]
    BY <1>1, <1>4 DEF Claimable, IndInv, CountByStatus
  <2>2. \A y \in Procs : Holds(y) => cur[y] # e /\ cur[y] \in Events
    BY <2>1 DEF IndInv, HeldIsProcessing, BusyHasEvent, Holds
  <2>3. /\ status'[e] = "processing"
        /\ \A f \in Events \ {e} : status'[f] = status[f]
    BY <1>1, <1>4 DEF IndInv, TypeOK
  <2>4. \A y \in Procs : pc'[y] \in {"update", "requeue", "markdone"} =>
            \/ y # x /\ pc'[y] = pc[y] /\ cur'[y] = cur[y]
            \/ y = x /\ pc'[y] = "update" /\ cur'[y] = e
    <3>1. CASE Return(x, FALSE)
      BY <3>1, <1>1, ReturnReleases
    <3>2. CASE pc' = [pc EXCEPT ![x] = "update"] /\ cur' = cur
      BY <3>2 DEF IndInv, TypeOK
    <3>3. QED
      BY <1>4, <3>1, <3>2
  <2>5. HeldIsProcessing'
    BY <2>2, <2>3, <2>4 DEF IndInv, HeldIsProcessing, Holds
  <2>6. OneHolder'
    BY <2>2, <2>4 DEF IndInv, OneHolder, Holds
  <2>7. CountByStatus'
    BY <1>2, <2>1, <2>3 DEF IndInv, CountByStatus
  <2>8. CountByHolder'
    BY <1>2, <2>1, <2>2, <2>4 DEF IndInv, CountByHolder, Holds
  <2>9. BalanceNeverNegative'
    BY <1>2 DEF IndInv, BalanceNeverNegative
  <2>10. QED
    BY <2>5, <2>6, <2>7, <2>8, <2>9 DEF Core
<1>5. QED
  BY <1>3, <1>4 DEF Claim

\* UpdatePoints by the holder: only the holder's count and the balance move.
LEMMA UpdateKeepsCore ==
    ASSUME IndInv, NEW x \in Procs, UpdatePoints(x)
    PROVE  Core'
<1> DEFINE e == cur[x]
<1>1. /\ e \in Events /\ pc[x] = "update" /\ status[e] = "processing"
      /\ applied[e] = lost[e] /\ lost[e] \in Nat
  BY DEF IndInv, TypeOK, BusyHasEvent, HeldIsProcessing, Holds, CountByHolder, UpdatePoints
<1>2. status' = status /\ cur' = cur
  BY DEF UpdatePoints
<1>3. /\ pc' \in {[pc EXCEPT ![x] = "markdone"], [pc EXCEPT ![x] = "requeue"]}
      /\ \A f \in Events \ {e} : applied'[f] = applied[f] /\ lost'[f] = lost[f]
      /\ pc'[x] = "markdone" => applied'[e] = applied[e] + 1 /\ lost'[e] = lost[e]
      /\ pc'[x] = "requeue" => \/ applied'[e] = applied[e] /\ lost'[e] = lost[e]
                               \/ applied'[e] = applied[e] + 1 /\ lost'[e] = lost[e] + 1
  BY <1>1 DEF UpdatePoints, IndInv, TypeOK
<1>4. \A y \in Procs \ {x} : pc'[y] = pc[y] /\ (Holds(y) => cur[y] \in Events \ {e})
  BY <1>1, <1>3 DEF IndInv, TypeOK, OneHolder, BusyHasEvent, Holds
<1>5. pc'[x] \in {"markdone", "requeue"}
  BY <1>3 DEF IndInv, TypeOK
<1>6. HeldIsProcessing'
  BY <1>1, <1>2, <1>4 DEF IndInv, HeldIsProcessing, Holds
<1>7. OneHolder'
  BY <1>2, <1>4 DEF OneHolder, Holds, IndInv
<1>8. CountByStatus'
  BY <1>1, <1>2, <1>3, <1>5 DEF IndInv, CountByStatus
<1>9. CountByHolder'
  BY <1>1, <1>2, <1>3, <1>4, <1>5 DEF IndInv, CountByHolder, Holds
<1>10. BalanceNeverNegative'
  <2>1. CASE balance' = balance
    BY <2>1 DEF IndInv, BalanceNeverNegative
  <2>2. CASE /\ Affordable(e)
             /\ balance' = [balance EXCEPT ![UserOf[e]] = @ + Delta[e]]
    BY <1>1, <2>2, OutboxAssumption
       DEF Affordable, IndInv, TypeOK, BalanceNeverNegative
  <2>3. QED
    BY <2>1, <2>2 DEF UpdatePoints
<1>11. QED
  BY <1>6, <1>7, <1>8, <1>9, <1>10 DEF Core

\* Requeue and MarkDone by the holder: the row leaves processing together with
\* its only holder.
LEMMA CloseKeepsCore ==
    ASSUME IndInv, NEW x \in Procs, Requeue(x) \/ MarkDone(x)
    PROVE  Core'
<1> DEFINE e == cur[x]
<1>1. e \in Events /\ pc[x] \in {"requeue", "markdone"} /\ status[e] = "processing"
  BY DEF IndInv, BusyHasEvent, HeldIsProcessing, Holds, Requeue, MarkDone
<1>2. applied' = applied /\ lost' = lost /\ balance' = balance
  BY DEF Requeue, MarkDone
<1>3. \A f \in Events \ {e} : status'[f] = status[f]
  BY <1>1 DEF Requeue, MarkDone, IndInv, TypeOK
<1>4. \/ status'[e] = "pending" /\ applied[e] = lost[e]
      \/ status'[e] = "done" /\ applied[e] = lost[e] + 1
  BY <1>1 DEF Requeue, MarkDone, IndInv, TypeOK, CountByHolder
<1>5. \A y \in Procs : pc'[y] \in {"update", "requeue", "markdone"} =>
                           y # x /\ pc'[y] = pc[y] /\ cur'[y] = cur[y]
  BY <1>1, ReturnReleases DEF Requeue, MarkDone
<1>6. \A y \in Procs : pc'[y] \in {"update", "requeue", "markdone"} =>
                           cur[y] \in Events \ {e}
  BY <1>1, <1>5 DEF IndInv, OneHolder, BusyHasEvent, Holds
<1>7. HeldIsProcessing'
  BY <1>3, <1>5, <1>6 DEF IndInv, HeldIsProcessing, Holds
<1>8. OneHolder'
  BY <1>5 DEF IndInv, OneHolder, Holds
<1>9. CountByStatus'
  BY <1>2, <1>3, <1>4 DEF IndInv, CountByStatus
<1>10. CountByHolder'
  BY <1>2, <1>5, <1>6 DEF IndInv, CountByHolder
<1>11. BalanceNeverNegative'
  BY <1>2 DEF IndInv, BalanceNeverNegative
<1>12. QED
  BY <1>7, <1>8, <1>9, <1>10, <1>11 DEF Core

-----------------------------------------------------------------------------
\* Core is preserved by every step of the specification.
LEMMA StepCore == IndInv /\ [Next]_vars => Core'
<1> SUFFICES ASSUME IndInv, [Next]_vars
             PROVE  Core'
  OBVIOUS
<1> USE DEF IndInv, TypeOK, Procs
<1>1. ASSUME NEW e \in Events, CheckBalance(e) PROVE Core'
  BY <1>1, QuietStep DEF CheckBalance, Unclaimed
<1>2. ASSUME NEW e \in Events, AppendOutboxInTx(e) PROVE Core'
  BY <1>2, QuietStep DEF AppendOutboxInTx, Unclaimed
<1>3. ASSUME NEW e \in Events, ApplyAsync(e) PROVE Core'
  BY <1>3, QuietStep DEF ApplyAsync, Unclaimed
<1>4. ASSUME NEW e \in Events, Publish(e) PROVE Core'
  BY <1>4, QuietStep DEF Publish, Unclaimed
<1>5. ASSUME NEW e \in Events, WriteTimeout(e) PROVE Core'
  <2>1. e \in Procs /\ pc[e] # "idle" /\ Return(e, pc[e] = "markdone")
    BY <1>5 DEF WriteTimeout, Holds
  <2>2. \A y \in Procs : pc'[y] \in {"update", "requeue", "markdone"} =>
                             pc'[y] = pc[y] /\ cur'[y] = cur[y]
    BY <2>1, ReturnReleases
  <2>3. QED
    BY <1>5, <2>2, QuietStep DEF WriteTimeout
<1>6. ASSUME NEW x \in Procs, TryApply(x) PROVE Core'
  BY <1>6, ClaimKeepsCore, UpdateKeepsCore, CloseKeepsCore DEF TryApply
<1>7. ASSUME NEW x \in Procs, Abandon(x) PROVE Core'
  <2>1. pc[x] # "idle" /\ Return(x, pc[x] = "markdone")
    BY <1>7 DEF Abandon
  <2>2. \A y \in Procs : pc'[y] \in {"update", "requeue", "markdone"} =>
                             pc'[y] = pc[y] /\ cur'[y] = cur[y]
    BY <2>1, ReturnReleases
  <2>3. QED
    BY <1>7, <2>2, QuietStep DEF Abandon
<1>8. ASSUME NEW c \in Consumers, NEW e \in Events, ApplyPointsAdjust(c, e) PROVE Core'
  BY <1>8, QuietStep DEF ApplyPointsAdjust
<1>9. ASSUME NEW r \in Relays, RelayScan(r) PROVE Core'
  BY <1>9, QuietStep DEF RelayScan
<1>10. ASSUME NEW r \in Relays, RelayNext(r) PROVE Core'
  <2>1. \A y \in Procs : pc'[y] \in {"update", "requeue", "markdone"} =>
                             pc'[y] = pc[y] /\ cur'[y] = cur[y]
    BY <1>10 DEF RelayNext
  <2>2. QED
    BY <1>10, <2>1, QuietStep DEF RelayNext
<1>11. ASSUME Age PROVE Core'
  BY <1>11, QuietStep DEF Age
<1>12. ASSUME NEW p \in Pods, Crash(p) PROVE Core'
  <2>1. \A y \in Procs : pc'[y] \in {"update", "requeue", "markdone"} =>
                             pc'[y] = pc[y] /\ cur'[y] = cur[y]
    BY <1>12 DEF Crash
  <2>2. \A e \in Events : \/ status'[e] = status[e]
                          \/ status[e] \in Unclaimed /\ status'[e] \in Unclaimed
    BY <1>12 DEF Crash, Unclaimed
  <2>3. QED
    BY <1>12, <2>1, <2>2, QuietStep DEF Crash
<1>13. ASSUME UNCHANGED vars PROVE Core'
  BY <1>13, QuietStep DEF vars
<1>14. QED
  BY <1>1, <1>2, <1>3, <1>4, <1>5, <1>6, <1>7, <1>8, <1>9, <1>10, <1>11, <1>12, <1>13
     DEF Next

\* The invariant holds initially: no row, no holder, no effect.
LEMMA InitInv == Init => IndInv
<1> SUFFICES ASSUME Init PROVE IndInv
  OBVIOUS
<1>1. TypeOK /\ BusyHasEvent
  BY InitTyped
<1>2. HeldIsProcessing /\ OneHolder /\ CountByHolder
  BY DEF Init, HeldIsProcessing, OneHolder, CountByHolder, Holds
<1>3. CountByStatus
  BY DEF Init, CountByStatus
<1>4. BalanceNeverNegative
  BY OutboxAssumption DEF Init, BalanceNeverNegative
<1>5. QED
  BY <1>1, <1>2, <1>3, <1>4 DEF IndInv

\* The inductive invariant holds in every reachable state.
THEOREM OutboxInvariant == Spec => []IndInv
<1>1. IndInv /\ [Next]_vars => IndInv'
  BY StepTyped, StepCore DEF IndInv, Core
<1>2. QED
  BY <1>1, InitInv, PTL DEF Spec

\* Competing debits never take a balance below zero.
THEOREM OutboxBalance == Spec => []BalanceNeverNegative
<1>1. IndInv => BalanceNeverNegative
  BY DEF IndInv
<1>2. QED
  BY <1>1, OutboxInvariant, PTL

\* Claim is a mutual exclusion: a row has at most one holder.
THEOREM OutboxOneHolder == Spec => []OneHolder
<1>1. IndInv => OneHolder
  BY DEF IndInv
<1>2. QED
  BY <1>1, OutboxInvariant, PTL

\* A done row was applied, and a row open to competitors has nothing hidden
\* behind it but the replies that were lost.
THEOREM OutboxStatus == Spec => []StatusTellsApplied
<1>1. IndInv => StatusTellsApplied
  BY DEF IndInv, CountByStatus, StatusTellsApplied
<1>2. QED
  BY <1>1, OutboxInvariant, PTL

\* Extra applications are accounted for by lost replies of UpdatePoints, one
\* for one, under any number of competitors, crashes and timeouts.
THEOREM OutboxExtra == Spec => []ExtraApplicationsAreLostReplies
<1>1. IndInv => ExtraApplicationsAreLostReplies
  BY DEF IndInv, TypeOK, Status, CountByStatus, ExtraApplicationsAreLostReplies
<1>2. QED
  BY <1>1, OutboxInvariant, PTL

-----------------------------------------------------------------------------
(* Refinement: with no lost reply the outbox is the abstract ledger.       *)

\* The number of lost replies respects its bound.
LostBounded == \A e \in Events : lost[e] <= MaxLost

\* No step reports more lost replies than the bound allows.
LEMMA LostStep == IndInv /\ LostBounded /\ [Next]_vars => LostBounded'
<1> SUFFICES ASSUME IndInv, LostBounded, [Next]_vars PROVE LostBounded'
  OBVIOUS
<1>1. ASSUME NEW x \in Procs, UpdatePoints(x) PROVE LostBounded'
  <2>1. cur[x] \in Events /\ lost \in [Events -> Nat]
    BY <1>1 DEF IndInv, TypeOK, BusyHasEvent, UpdatePoints
  <2>2. \/ lost' = lost
        \/ lost[cur[x]] < MaxLost /\ lost' = [lost EXCEPT ![cur[x]] = @ + 1]
    BY <1>1 DEF UpdatePoints
  <2>3. QED
    BY <2>1, <2>2, OutboxAssumption DEF LostBounded
<1>2. CASE lost' = lost
  BY <1>2 DEF LostBounded
<1>3. QED
  BY <1>1, <1>2 DEF Next, vars, TryApply, CheckBalance, AppendOutboxInTx, ApplyAsync,
     Publish, WriteTimeout, Claim, Requeue, MarkDone, Abandon, ApplyPointsAdjust,
     RelayScan, RelayNext, Age, Crash

\* Steps that change no balance, no count and no commitment are stutters of
\* the ledger.
LEMMA LedgerStutter ==
    ASSUME applied' = applied, balance' = balance,
           \A e \in Events : Committed(e)' = Committed(e)
    PROVE  UNCHANGED Ledger!lvars
BY DEF Ledger!lvars

\* Every step of the outbox is a step or a stutter of the ledger.
LEMMA LedgerStep ==
    ASSUME MaxLost = 0, IndInv, LostBounded, [Next]_vars
    PROVE  [Ledger!LNext]_(Ledger!lvars)
<1> USE DEF Procs
<1>0. \A e \in Events : lost[e] = 0 /\ status[e] \in Status
  BY DEF IndInv, TypeOK, LostBounded
<1>1. ASSUME NEW e \in Events, AppendOutboxInTx(e) PROVE Ledger!Accept(e)
  <2>1. status \in [Events -> Status] /\ status[e] = "checked"
    BY <1>1 DEF IndInv, TypeOK, AppendOutboxInTx
  <2>2. status' = [status EXCEPT ![e] = "pending"] /\ applied' = applied /\ balance' = balance
    BY <1>1 DEF AppendOutboxInTx
  <2>3. {f \in Events : Committed(f)}' = {f \in Events : Committed(f)} \cup {e}
    BY <2>1, <2>2 DEF Committed
  <2>4. e \notin {f \in Events : Committed(f)}
    BY <2>1 DEF Committed
  <2>5. QED
    BY <2>2, <2>3, <2>4 DEF Ledger!Accept
<1>2. ASSUME NEW x \in Procs, UpdatePoints(x)
      PROVE  [Ledger!LNext]_(Ledger!lvars)
  <2>0. PICK e \in Events : e = cur[x]
    BY <1>2 DEF IndInv, BusyHasEvent, UpdatePoints
  <2>1. /\ e \in Events /\ applied[e] = 0 /\ status[e] = "processing"
        /\ applied \in [Events -> Nat] /\ balance \in [Users -> Int]
    BY <1>0, <1>2, <2>0 DEF IndInv, TypeOK, BusyHasEvent, CountByHolder, HeldIsProcessing,
       Holds, UpdatePoints
  <2>2. status' = status
    BY <1>2 DEF UpdatePoints
  <2>3. CASE balance' = balance /\ applied' = applied
    BY <2>2, <2>3, LedgerStutter DEF Committed
  <2>4. CASE /\ Affordable(e)
             /\ balance' = [balance EXCEPT ![UserOf[e]] = @ + Delta[e]]
             /\ applied' = [applied EXCEPT ![e] = @ + 1]
    <3>1. {f \in Events : applied[f] > 0}' = {f \in Events : applied[f] > 0} \cup {e}
      BY <2>1, <2>4
    <3>2. e \in {f \in Events : Committed(f)} \ {f \in Events : applied[f] > 0}
      BY <2>1 DEF Committed
    <3>3. {f \in Events : Committed(f)}' = {f \in Events : Committed(f)}
      BY <2>2 DEF Committed
    <3>4. balance[UserOf[e]] + Delta[e] >= 0
      <4>1. UserOf[e] \in Users /\ Delta[e] \in Int
        BY <2>1, OutboxAssumption
      <4>2. balance[UserOf[e]] \in Int
        BY <2>1, <4>1
      <4>3. QED
        BY <2>4, <4>1, <4>2 DEF Affordable
    <3>5. Ledger!Credit(e)
      BY <2>4, <3>1, <3>2, <3>3, <3>4 DEF Ledger!Credit
    <3>6. \E f \in Events : Ledger!Credit(f)
      BY <2>1, <3>5
    <3>7. QED
      BY <3>6 DEF Ledger!LNext
  <2>5. QED
    BY <1>2, <2>0, <2>3, <2>4 DEF UpdatePoints
<1>3. CASE /\ applied' = applied /\ balance' = balance
           /\ \A e \in Events : Committed(e)' = Committed(e)
  BY <1>3, LedgerStutter
<1>4. ASSUME NEW x \in Procs, Claim(x) \/ Requeue(x) \/ MarkDone(x)
      PROVE  \A e \in Events : Committed(e)' = Committed(e)
  <2>1. cur[x] \in Events /\ status \in [Events -> Status]
    BY <1>4 DEF IndInv, TypeOK, BusyHasEvent, Claim, Requeue, MarkDone
  <2>2. CASE status' = status
    BY <2>2 DEF Committed
  <2>3. CASE /\ status[cur[x]] \in {"pending", "processing"}
             /\ \E v \in {"pending", "processing", "done"} :
                    status' = [status EXCEPT ![cur[x]] = v]
    BY <2>1, <2>3 DEF Committed
  <2>4. Claim(x) => \/ status' = status
                    \/ /\ status[cur[x]] = "pending"
                       /\ status' = [status EXCEPT ![cur[x]] = "processing"]
    BY DEF Claim, Claimable
  <2>5. Requeue(x) \/ MarkDone(x) => status[cur[x]] = "processing"
    BY DEF Requeue, MarkDone, IndInv, HeldIsProcessing, Holds
  <2>6. Requeue(x) => status' = [status EXCEPT ![cur[x]] = "pending"]
    BY <2>5, <2>1 DEF Requeue
  <2>7. MarkDone(x) => status' = [status EXCEPT ![cur[x]] = "done"]
    BY <2>5, <2>1 DEF MarkDone
  <2>8. QED
    BY <1>4, <2>2, <2>3, <2>4, <2>5, <2>6, <2>7
<1>5. ASSUME NEW e \in Events, CheckBalance(e)
      PROVE  \A f \in Events : Committed(f)' = Committed(f)
  BY <1>5 DEF CheckBalance, Committed, IndInv, TypeOK
<1>6. ASSUME NEW p \in Pods, Crash(p)
      PROVE  \A f \in Events : Committed(f)' = Committed(f)
  BY <1>6 DEF Crash, Committed, IndInv, TypeOK
<1>7. CASE Next
  <2>1. CASE \E e \in Events : AppendOutboxInTx(e)
    BY <2>1, <1>1 DEF Ledger!LNext
  <2>2. CASE \E x \in Procs : UpdatePoints(x)
    BY <2>2, <1>2
  <2>3. CASE /\ ~\E e \in Events : AppendOutboxInTx(e)
             /\ ~\E x \in Procs : UpdatePoints(x)
    <3>1. applied' = applied /\ balance' = balance
      BY <1>7, <2>3 DEF Next, TryApply, CheckBalance, ApplyAsync,
         Publish, WriteTimeout, Claim, Requeue, MarkDone, Abandon, ApplyPointsAdjust,
         RelayScan, RelayNext, Age, Crash
    <3>2. \/ status' = status
          \/ \E e \in Events : CheckBalance(e)
          \/ \E x \in Procs : Claim(x) \/ Requeue(x) \/ MarkDone(x)
          \/ \E p \in Pods : Crash(p)
      BY <1>7, <2>3 DEF Next, TryApply, ApplyAsync,
         Publish, WriteTimeout, Abandon, ApplyPointsAdjust, RelayScan, RelayNext, Age
    <3>3. \A f \in Events : Committed(f)' = Committed(f)
      <4>1. CASE status' = status
        BY <4>1 DEF Committed
      <4>2. QED
        BY <3>2, <4>1, <1>4, <1>5, <1>6
    <3>4. QED
      BY <3>1, <3>3, <1>3
  <2>4. QED
    BY <2>1, <2>2, <2>3
<1>8. CASE UNCHANGED vars
  BY <1>8, <1>3 DEF vars, Committed
<1>9. QED
  BY <1>7, <1>8

\* Without lost replies the outbox, with all its competitors, crashes and
\* timeouts, implements the ledger: each accepted adjustment takes effect at
\* most once and nothing else moves a balance.
THEOREM OutboxRefinesLedger ==
    ASSUME MaxLost = 0
    PROVE  Spec => LedgerSpec
<1>1. Init => Ledger!LInit
  BY DEF Init, Ledger!LInit, Committed
<1>2. Init => LostBounded
  BY OutboxAssumption DEF Init, LostBounded
<1>3. IndInv /\ LostBounded /\ [Next]_vars => [Ledger!LNext]_(Ledger!lvars)
  BY LedgerStep
<1>4. QED
  BY <1>1, <1>2, <1>3, LostStep, OutboxInvariant, PTL DEF Spec, LedgerSpec, Ledger!LSpec
=============================================================================
