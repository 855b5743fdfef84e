-------------------------- MODULE IdleSettleProofs --------------------------
(***************************************************************************)
(* PaidOnce, the daily cap, the counter and the summary row, for any       *)
(* number of sessions, calls and days and any points and limit.            *)
(***************************************************************************)
EXTENDS IdleSettle, SumTheorems

\* The part of the type invariant the argument rests on.
PayTypes ==
    /\ status \in [Sessions -> {"active", "settled"}]
    /\ DOMAIN earned = Sessions
    /\ DOMAIN granted = Settlers
    /\ pc \in [Settlers -> Pc]
    /\ paid \subseteq Settlers

\* A call that has paid is past its transaction, so it does not ask for another
\* grant and does not mark a session again.
PaidIsBehind == \A c \in paid : pc[c] \in {"upsert", "release", "end"}

\* PaidOnce is not inductive: without PaidIsBehind a call that has paid could
\* be granted again, and the record would no longer say what it paid.
PayInv == PayTypes /\ PaidIsBehind /\ PaidOnce

\* No session is settled and nothing paid at the start.
LEMMA PayInit == Init => PayInv
  BY SettleAssumption DEF Init, PayInv, PayTypes, PaidIsBehind, PaidOnce, Pc

\* A call before its transaction has not paid.
LEMMA BeforeIsUnpaid ==
    ASSUME PayInv, NEW c \in Settlers, pc[c] \notin {"upsert", "release", "end"}
    PROVE  c \notin paid
  BY DEF PayInv, PaidIsBehind

\* Steps that move one call, unpaid or only forward, and leave the sessions,
\* the payments and the grants of paid calls alone.
LEMMA PayMove ==
    ASSUME PayInv, NEW c \in Settlers, NEW to \in Pc,
           c \in paid => to \in {"upsert", "release", "end"},
           Goto(c, to), UNCHANGED <<status, earned, paid, granted>>
    PROVE  PayInv'
  BY DEF PayInv, PayTypes, PaidIsBehind, PaidOnce, Goto

\* Every step keeps PayInv.
LEMMA PayStep == PayInv /\ [Next]_vars => PayInv'
<1> SUFFICES ASSUME PayInv, [Next]_vars PROVE PayInv'
  OBVIOUS
<1> USE SettleAssumption
<1>1. ASSUME NEW c \in Settlers, Begin(c) PROVE PayInv'
  <2>1. c \notin paid
    BY <1>1, BeforeIsUnpaid DEF Begin
  <2> QED
    BY <1>1, <2>1, PayMove DEF Begin, dbVars, Pc
<1>2. ASSUME NEW c \in Settlers, GetDailyPoints(c) PROVE PayInv'
  <2>1. c \notin paid
    BY <1>2, BeforeIsUnpaid DEF GetDailyPoints
  <2>2. PICK to \in Pc : Goto(c, to)
    BY <1>2 DEF GetDailyPoints, Pc
  <2> QED
    BY <1>2, <2>1, <2>2, PayMove DEF GetDailyPoints, dbVars
<1>3. ASSUME NEW c \in Settlers, GetDailyPointsDB(c) PROVE PayInv'
  <2>1. c \notin paid
    BY <1>3, BeforeIsUnpaid DEF GetDailyPointsDB
  <2> QED
    BY <1>3, <2>1, PayMove DEF GetDailyPointsDB, dbVars, Pc
<1>4. ASSUME NEW c \in Settlers, FillCounter(c) PROVE PayInv'
  <2>1. c \notin paid
    BY <1>4, BeforeIsUnpaid DEF FillCounter
  <2> QED
    BY <1>4, <2>1, PayMove DEF FillCounter, dbVars, Pc
<1>5. ASSUME NEW c \in Settlers, AcquireDailyPoints(c) PROVE PayInv'
  <2>1. c \notin paid
    BY <1>5, BeforeIsUnpaid DEF AcquireDailyPoints
  <2>2. PICK to \in Pc : Goto(c, to)
    BY <1>5 DEF AcquireDailyPoints, Pc
  <2>3. /\ DOMAIN granted' = Settlers
        /\ \A b \in Settlers : b # c => granted'[b] = granted[b]
    BY <1>5 DEF AcquireDailyPoints, PayInv, PayTypes
  <2>4. UNCHANGED <<status, earned, paid>>
    BY <1>5 DEF AcquireDailyPoints, dbVars
  <2> QED
    BY <2>1, <2>2, <2>3, <2>4 DEF PayInv, PayTypes, PaidIsBehind, PaidOnce, Goto
<1>6. ASSUME NEW c \in Settlers, CloseSession(c) PROVE PayInv'
  <2>1. c \notin paid
    BY <1>6, BeforeIsUnpaid DEF CloseSession
  <2>2. Goto(c, "end") /\ UNCHANGED <<paid, granted>>
    BY <1>6 DEF CloseSession
  <2>3. CASE StillActive(c) /\ MarkSettled(c, 0)
    BY <2>1, <2>2, <2>3
       DEF StillActive, MarkSettled, PayInv, PayTypes, PaidIsBehind, PaidOnce, Goto, Pc
  <2>4. CASE UNCHANGED <<status, earned>>
    BY <2>1, <2>2, <2>4, PayMove DEF Pc
  <2> QED
    BY <1>6, <2>3, <2>4 DEF CloseSession
<1>7. ASSUME NEW c \in Settlers, SettleTx(c) PROVE PayInv'
  <2>1. c \notin paid
    BY <1>7, BeforeIsUnpaid DEF SettleTx
  <2>2. PICK to \in {"upsert", "release"} : Goto(c, to)
    BY <1>7 DEF SettleTx
  <2>3. UNCHANGED granted
    BY <1>7 DEF SettleTx
  <2>4. CASE StillActive(c) /\ MarkSettled(c, granted[c]) /\ paid' = paid \cup {c}
    <3>1. \A b \in paid : SessionOf[b] # SessionOf[c]
      BY <2>4 DEF StillActive, PayInv, PaidOnce
    <3>2. /\ status'[SessionOf[c]] = "settled"
          /\ earned'[SessionOf[c]] = granted[c]
          /\ \A s \in Sessions : s # SessionOf[c] =>
                status'[s] = status[s] /\ earned'[s] = earned[s]
      BY <2>4 DEF MarkSettled, PayInv, PayTypes
    <3>3. PayTypes' /\ PaidIsBehind'
      BY <2>2, <2>3, <2>4 DEF MarkSettled, PayInv, PayTypes, PaidIsBehind, Goto, Pc
    <3>4. PaidOnce'
      BY <2>3, <2>4, <3>1, <3>2 DEF PayInv, PayTypes, PaidOnce
    <3> QED
      BY <3>3, <3>4 DEF PayInv
  <2>5. CASE UNCHANGED <<status, earned, paid>>
    BY <2>1, <2>2, <2>3, <2>5, PayMove DEF Pc
  <2> QED
    BY <1>7, <2>4, <2>5 DEF SettleTx
<1>8. ASSUME NEW c \in Settlers, ReleaseDailyPoints(c) PROVE PayInv'
  BY <1>8, PayMove DEF ReleaseDailyPoints, dbVars, Pc
<1>9. ASSUME NEW c \in Settlers, UpsertDailyPoints(c) PROVE PayInv'
  BY <1>9, PayMove DEF UpsertDailyPoints, Pc
<1>10. ASSUME NEW c \in Settlers, Abort(c) PROVE PayInv'
  BY <1>10, PayMove DEF Abort, dbVars, Pc
<1>11. ASSUME BackfillDailyPoints \/ Replicate \/ Midnight \/ LoseCounter \/ UNCHANGED vars
       PROVE  PayInv'
  <2>1. UNCHANGED <<status, earned, paid, pc, granted>>
    BY <1>11 DEF BackfillDailyPoints, Replicate, Midnight, LoseCounter, vars, dbVars, callVars
  <2> QED
    BY <2>1 DEF PayInv, PayTypes, PaidIsBehind, PaidOnce
<1> QED
  BY <1>1, <1>2, <1>3, <1>4, <1>5, <1>6, <1>7, <1>8, <1>9, <1>10, <1>11
     DEF Next, SettleSession

\* settleSession pays a session at most once, and pays what its record says,
\* however many stop requests, scanners and events settle it at the same time.
THEOREM SettlePaidOnce == Spec => []PaidOnce
<1>1. Init => PayInv
  BY PayInit
<1>2. PayInv /\ [Next]_vars => PayInv'
  BY PayStep
<1>3. PayInv => PaidOnce
  BY DEF PayInv
<1> QED
  BY <1>1, <1>2, <1>3, PTL DEF Spec
-----------------------------------------------------------------------------
(* The daily cap.                                                          *)

\* The calls whose grant counts on a day.
TakenBy(d) ==
    {c \in Settlers : grantDay[c] = d /\ (c \in paid \/ pc[c] \in {"tx", "release"})}

\* A call works on a session that exists, and what it was granted was granted
\* since then.
InTime(c) ==
    /\ pc[c] # "start" => CreatedOn[SessionOf[c]] <= today
    /\ c \in paid \/ pc[c] \in {"tx", "release"} =>
          CreatedOn[SessionOf[c]] <= grantDay[c] /\ grantDay[c] <= today
    /\ pc[c] = "upsert" => c \in paid
    /\ pc[c] = "release" /\ c \in paid => grantDay[c] \in disturbed

GrantsInTime == \A c \in Settlers : InTime(c)

\* points_earned of a record come from the call that paid them.
EarnedIsPaid == \A s \in Sessions : earned[s] # 0 => \E c \in paid : SessionOf[c] = s

\* A day whose counter was never set, nor lost: nothing was granted on it, the
\* summary and whoever read it say zero.
Untouched(d) ==
    /\ TakenBy(d) = {}
    /\ ValueOf(summary[d]) = 0 /\ ValueOf(replica[d]) = 0
    /\ \A c \in Settlers : pc[c] = "fill" /\ loaded[c].day = d => loaded[c].total = 0

FreshDay == \A d \in Days \ disturbed : counter[d] = NoValue => Untouched(d)

\* The counter covers what was granted, and is just that if nothing failed.
Covered(d) ==
    /\ IsFiniteSet(TakenBy(d))
    /\ d \notin disturbed =>
          /\ Taken(d) <= Limit
          /\ Taken(d) <= ValueOf(counter[d])
          /\ failures = 0 => ValueOf(counter[d]) = Taken(d)

CounterCovers == \A d \in Days : Covered(d)

CapInv ==
    /\ TypeOK /\ PayInv
    /\ GrantsInTime /\ EarnedIsPaid /\ FreshDay /\ CounterCovers

SummaryInv == IsFiniteSet(paid) /\ SummaryIsPaid

\* The types, once for all that follows.
LEMMA TypeInit == Init => TypeOK
<1> SUFFICES ASSUME Init PROVE TypeOK
  OBVIOUS
<1>1. 0 \in Days
  BY SettleAssumption DEF Days
<1>2. loaded \in [Settlers -> [day : Days, total : Nat]]
  BY <1>1 DEF Init
<1> QED
  BY <1>1, <1>2 DEF Init, TypeOK, Pc

\* What the script grants is within the limit that is left.
LEMMA GrantRange ==
  ASSUME TypeOK, NEW c \in Settlers
  PROVE  /\ Grantable(c) \in Nat /\ ValueOf(counter[today]) \in Int
         /\ Grantable(c) # 0 => ValueOf(counter[today]) + Grantable(c) <= Limit
<1>1. /\ counter[today] \in Int \cup {NoValue} /\ Points[c] \in Nat \ {0}
      /\ Limit \in Nat
  BY SettleAssumption DEF TypeOK
<1>2. ValueOf(counter[today]) \in Int
  BY <1>1 DEF ValueOf
<1> QED
  BY <1>1, <1>2 DEF Grantable

\* Every step keeps the types.
LEMMA TypeStep == TypeOK /\ [Next]_vars => TypeOK'
<1> SUFFICES ASSUME TypeOK, [Next]_vars PROVE TypeOK'
  OBVIOUS
<1> USE DEF dbVars, callVars, bounds, ghosts
<1> DEFINE Db == /\ status \in [Sessions -> {"active", "settled"}]
                 /\ earned \in [Sessions -> Nat]
                 /\ paid \subseteq Settlers
           Rows == /\ summary \in [Days -> Nat \cup {NoValue}]
                   /\ replica \in [Days -> Nat \cup {NoValue}]
           Redis == counter \in [Days -> Int \cup {NoValue}] /\ today \in Days
           Call == /\ loaded \in [Settlers -> [day : Days, total : Nat]]
                   /\ granted \in [Settlers -> Nat]
                   /\ grantDay \in [Settlers -> Days]
           Ghost == /\ failures \in Nat /\ losses \in Nat
                    /\ disturbed \subseteq Days
                    /\ backfilled \subseteq Days
<1>0. Db /\ Rows /\ Redis /\ Call /\ Ghost /\ pc \in [Settlers -> Pc]
  BY DEF TypeOK
<1>1. ASSUME Db', Rows', Redis', Call', Ghost', pc' \in [Settlers -> Pc] PROVE TypeOK'
  BY <1>1 DEF TypeOK
<1>2. /\ UNCHANGED <<status, earned, paid>> => Db'
      /\ UNCHANGED <<summary, replica>> => Rows'
      /\ UNCHANGED <<counter, today>> => Redis'
      /\ UNCHANGED <<loaded, granted, grantDay>> => Call'
      /\ UNCHANGED bounds /\ UNCHANGED ghosts => Ghost'
      /\ Fault /\ UNCHANGED ghosts => Ghost'
  BY <1>0 DEF Fault
<1>3. ASSUME NEW c \in Settlers, NEW to \in Pc, Goto(c, to)
      PROVE  pc' \in [Settlers -> Pc]
  BY <1>0, <1>3 DEF Goto
<1>4. ASSUME NEW c \in Settlers, Begin(c) \/ GetDailyPoints(c) \/ Abort(c)
      PROVE  TypeOK'
  <2>1. \E to \in Pc : Goto(c, to)
    BY <1>4 DEF Begin, GetDailyPoints, Abort, Pc
  <2>2. pc' \in [Settlers -> Pc]
    BY <1>3, <2>1
  <2> QED
    BY <1>1, <1>2, <1>4, <2>2 DEF Begin, GetDailyPoints, Abort
<1>5. ASSUME NEW c \in Settlers, GetDailyPointsDB(c) PROVE TypeOK'
  <2>1. pc' \in [Settlers -> Pc]
    BY <1>3, <1>5 DEF GetDailyPointsDB, Pc
  <2>2. ValueOf(replica[today]) \in Nat
    BY <1>0 DEF ValueOf
  <2>3. PICK n \in Nat : loaded' = [loaded EXCEPT ![c] = [day |-> today, total |-> n]]
    BY <1>5, <2>2 DEF GetDailyPointsDB
  <2>4. Call'
    BY <1>0, <1>5, <2>3 DEF GetDailyPointsDB
  <2> QED
    BY <1>1, <1>2, <1>5, <2>1, <2>4 DEF GetDailyPointsDB
<1>6. ASSUME NEW c \in Settlers, FillCounter(c) PROVE TypeOK'
  <2>1. pc' \in [Settlers -> Pc]
    BY <1>3, <1>6 DEF FillCounter, Pc
  <2>2. loaded[c].total \in Int
    BY <1>0
  <2>3. Redis'
    BY <1>0, <1>6, <2>2 DEF FillCounter
  <2>4. Ghost'
    <3>1. CASE UNCHANGED bounds /\ \E D \in {{}, {today}} : Disturb(D)
      BY <1>0, <3>1 DEF Disturb
    <3>2. (UNCHANGED bounds /\ \E D \in {{}, {today}} : Disturb(D)) \/ (Fault /\ UNCHANGED ghosts)
      BY <1>6 DEF FillCounter
    <3> QED
      BY <1>2, <3>1, <3>2
  <2> QED
    BY <1>1, <1>2, <1>6, <2>1, <2>3, <2>4 DEF FillCounter
<1>7. ASSUME NEW c \in Settlers, AcquireDailyPoints(c) PROVE TypeOK'
  <2>1. \E to \in Pc : Goto(c, to)
    BY <1>7 DEF AcquireDailyPoints, Pc
  <2>2. pc' \in [Settlers -> Pc]
    BY <1>3, <2>1
  <2>3. Grantable(c) \in Nat /\ ValueOf(counter[today]) \in Int
    BY GrantRange
  <2>4. counter' = counter \/ counter' = [counter EXCEPT ![today] = ValueOf(@) + Grantable(c)]
    BY <1>7 DEF AcquireDailyPoints
  <2>5. Redis'
    BY <1>0, <1>7, <2>3, <2>4 DEF AcquireDailyPoints
  <2>6. Call'
    BY <1>0, <1>7, <2>3 DEF AcquireDailyPoints
  <2> QED
    BY <1>1, <1>2, <1>7, <2>2, <2>5, <2>6 DEF AcquireDailyPoints
<1>8. ASSUME NEW c \in Settlers, CloseSession(c) PROVE TypeOK'
  <2>1. pc' \in [Settlers -> Pc]
    BY <1>3, <1>8 DEF CloseSession, Pc
  <2>2. Db'
    BY <1>0, <1>8, SettleAssumption DEF CloseSession, MarkSettled
  <2> QED
    BY <1>1, <1>2, <1>8, <2>1, <2>2 DEF CloseSession
<1>9. ASSUME NEW c \in Settlers, SettleTx(c) PROVE TypeOK'
  <2>1. pc' \in [Settlers -> Pc]
    BY <1>3, <1>9 DEF SettleTx, Pc
  <2>2. Db'
    BY <1>0, <1>9, SettleAssumption DEF SettleTx, MarkSettled
  <2>3. Ghost'
    <3>1. CASE Fault /\ Disturb({today, grantDay[c]})
      BY <1>0, <3>1 DEF Fault, Disturb
    <3> QED
      BY <1>2, <1>9, <3>1 DEF SettleTx
  <2> QED
    BY <1>1, <1>2, <1>9, <2>1, <2>2, <2>3 DEF SettleTx
<1>10. ASSUME NEW c \in Settlers, ReleaseDailyPoints(c) PROVE TypeOK'
  <2>1. pc' \in [Settlers -> Pc]
    BY <1>3, <1>10 DEF ReleaseDailyPoints, Pc
  <2>2. ValueOf(counter[today]) \in Int /\ granted[c] \in Nat
    BY <1>0, GrantRange
  <2>3. Redis'
    BY <1>0, <1>10, <2>2 DEF ReleaseDailyPoints, Released
  <2>4. Ghost'
    <3>1. CASE UNCHANGED bounds /\ \E D \in {{}, {today, grantDay[c]}} : Disturb(D)
      BY <1>0, <3>1 DEF Disturb
    <3>2. \/ UNCHANGED bounds /\ \E D \in {{}, {today, grantDay[c]}} : Disturb(D)
          \/ Fault /\ UNCHANGED ghosts
      BY <1>10 DEF ReleaseDailyPoints
    <3> QED
      BY <1>2, <3>1, <3>2
  <2> QED
    BY <1>1, <1>2, <1>10, <2>1, <2>3, <2>4 DEF ReleaseDailyPoints
<1>11. ASSUME NEW c \in Settlers, UpsertDailyPoints(c) PROVE TypeOK'
  <2>1. pc' \in [Settlers -> Pc]
    BY <1>3, <1>11 DEF UpsertDailyPoints, Pc
  <2>2. ValueOf(summary[today]) \in Nat /\ granted[c] \in Nat
    BY <1>0 DEF ValueOf
  <2>3. Rows'
    BY <1>0, <1>11, <2>2 DEF UpsertDailyPoints, Summarised
  <2>4. Ghost'
    <3>1. CASE UNCHANGED bounds /\ \E D \in {{}, {today}} : Disturb(D)
      BY <1>0, <3>1 DEF Disturb
    <3>2. (UNCHANGED bounds /\ \E D \in {{}, {today}} : Disturb(D)) \/ (Fault /\ UNCHANGED ghosts)
      BY <1>11 DEF UpsertDailyPoints
    <3> QED
      BY <1>2, <3>1, <3>2
  <2> QED
    BY <1>1, <1>2, <1>11, <2>1, <2>3, <2>4 DEF UpsertDailyPoints
<1>12. ASSUME BackfillDailyPoints PROVE TypeOK'
  <2> DEFINE new == {s \in Sessions : CreatedOn[s] = today}
  <2>1. IsFiniteSet(new) /\ \A s \in new : earned[s] \in Nat
    BY <1>0, SettleAssumption, FS_Subset
  <2>2. SumFunctionOnSet(earned, new) \in Nat
    <3> HIDE DEF new
    <3> QED
      BY <2>1, SumOfNaturals
  <2>3. /\ summary' = [summary EXCEPT ![today] = SumFunctionOnSet(earned, new)]
        /\ UNCHANGED replica /\ backfilled' = backfilled \cup {today}
        /\ UNCHANGED <<bounds, disturbed>>
    BY <1>12 DEF BackfillDailyPoints
  <2> HIDE DEF new
  <2>4. Rows' /\ Ghost'
    BY <1>0, <2>2, <2>3
  <2>5. Db' /\ Redis' /\ Call' /\ UNCHANGED pc
    BY <1>0, <1>12 DEF BackfillDailyPoints
  <2> QED
    BY <1>0, <1>1, <2>4, <2>5
<1>13. ASSUME Replicate \/ Midnight \/ UNCHANGED vars PROVE TypeOK'
  <2>1. Redis'
    BY <1>0, <1>13, SettleAssumption DEF Replicate, Midnight, vars, Days
  <2> QED
    BY <1>0, <1>1, <1>2, <1>13, <2>1 DEF Replicate, Midnight, vars
<1>14. ASSUME LoseCounter PROVE TypeOK'
  BY <1>0, <1>1, <1>2, <1>14 DEF LoseCounter, Disturb
<1> QED
  BY <1>4, <1>5, <1>6, <1>7, <1>8, <1>9, <1>10, <1>11, <1>12, <1>13, <1>14
  DEF Next, SettleSession

\* No day is running backwards, and a day once disturbed stays so.
LEMMA Onward ==
  ASSUME TypeOK, [Next]_vars
  PROVE  /\ today \in Int /\ today' \in Int /\ today <= today'
         /\ disturbed \subseteq disturbed'
         /\ failures \in Nat /\ failures' \in Nat /\ failures <= failures'
<1>0. today \in Int /\ failures \in Nat
  BY SettleAssumption DEF TypeOK, Days
<1>1. (today' = today \/ today' = today + 1) /\ (failures' = failures \/ failures' = failures + 1)
  BY DEF Next, SettleSession, Begin, GetDailyPoints, GetDailyPointsDB, FillCounter,
         AcquireDailyPoints, CloseSession, SettleTx, ReleaseDailyPoints, UpsertDailyPoints, Abort,
         BackfillDailyPoints, Replicate, Midnight, LoseCounter, Fault, bounds, vars
<1>2. disturbed \subseteq disturbed'
  BY DEF Next, SettleSession, Begin, GetDailyPoints, GetDailyPointsDB, FillCounter,
         AcquireDailyPoints, CloseSession, SettleTx, ReleaseDailyPoints, UpsertDailyPoints, Abort,
         BackfillDailyPoints, Replicate, Midnight, LoseCounter, Disturb, ghosts, vars
<1> QED
  BY <1>0, <1>1, <1>2

\* Every step keeps the order of creation, grant and today.
LEMMA InTimeStep == TypeOK /\ PayInv /\ GrantsInTime /\ [Next]_vars => GrantsInTime'
<1> SUFFICES ASSUME TypeOK, PayInv, GrantsInTime, [Next]_vars, NEW b \in Settlers
             PROVE  InTime(b)'
  BY DEF GrantsInTime
<1> DEFINE day == CreatedOn[SessionOf[b]]
<1>1. InTime(b) /\ (pc[b] \notin {"upsert", "release", "end"} => b \notin paid)
  BY BeforeIsUnpaid DEF GrantsInTime
<1>2. /\ today \in Int /\ today' \in Int /\ today <= today'
      /\ disturbed \subseteq disturbed' /\ day \in Int /\ grantDay[b] \in Int
  BY Onward, SettleAssumption DEF TypeOK, Days
<1>3. pc \in [Settlers -> Pc] /\ grantDay \in [Settlers -> Days]
  BY DEF TypeOK
<1> HIDE DEF day
\* The call is left alone, or moves on without a grant or a payment.
<1>4. ASSUME b \in paid' <=> b \in paid, grantDay'[b] = grantDay[b],
             \/ pc'[b] = pc[b]
             \/ pc[b] = "start" /\ pc'[b] = "warm" /\ day <= today
             \/ pc[b] # "start" /\ pc'[b] \in {"warm", "load", "fill", "acquire", "close", "end"}
             \/ pc[b] = "tx" /\ pc'[b] = "release" /\ b \notin paid'
      PROVE  InTime(b)'
  BY <1>1, <1>2, <1>4 DEF InTime, day
<1>5. ASSUME NEW c \in Settlers,
             Begin(c) \/ GetDailyPoints(c) \/ GetDailyPointsDB(c) \/ FillCounter(c)
             \/ CloseSession(c) \/ ReleaseDailyPoints(c) \/ UpsertDailyPoints(c) \/ Abort(c)
      PROVE  InTime(b)'
  <2>1. UNCHANGED <<paid, grantDay>>
    BY <1>5 DEF Begin, GetDailyPoints, GetDailyPointsDB, FillCounter, CloseSession,
                ReleaseDailyPoints, UpsertDailyPoints, Abort, dbVars
  <2>2. \/ pc[c] = "start" /\ Goto(c, "warm") /\ CreatedOn[SessionOf[c]] <= today
        \/ pc[c] # "start" /\ \E to \in {"load", "fill", "acquire", "end"} : Goto(c, to)
    BY <1>5 DEF Begin, GetDailyPoints, GetDailyPointsDB, FillCounter, CloseSession,
                ReleaseDailyPoints, UpsertDailyPoints, Abort
  <2> QED
    BY <1>3, <1>4, <2>1, <2>2 DEF Goto, day
<1>6. ASSUME NEW c \in Settlers, AcquireDailyPoints(c) PROVE InTime(b)'
  <2>1. UNCHANGED <<paid, today>> /\ pc[c] = "acquire"
    BY <1>6 DEF AcquireDailyPoints, dbVars
  <2>2. \/ Goto(c, "tx") /\ grantDay' = [grantDay EXCEPT ![c] = today]
        \/ Goto(c, "close") /\ grantDay' = [grantDay EXCEPT ![c] = today]
        \/ Goto(c, "end") /\ UNCHANGED grantDay
    BY <1>6 DEF AcquireDailyPoints
  <2>3. CASE b # c
    BY <1>3, <1>4, <2>1, <2>2, <2>3 DEF Goto
  <2>4. CASE b = c
    BY <1>1, <1>2, <1>3, <2>1, <2>2, <2>4 DEF Goto, InTime, day
  <2> QED
    BY <2>3, <2>4
<1>7. ASSUME NEW c \in Settlers, SettleTx(c) PROVE InTime(b)'
  <2>1. UNCHANGED <<grantDay, today>> /\ pc[c] = "tx"
    BY <1>7 DEF SettleTx
  <2>2. \/ Goto(c, "upsert") /\ paid' = paid \cup {c}
        \/ Goto(c, "release") /\ UNCHANGED paid
        \/ Goto(c, "release") /\ paid' = paid \cup {c} /\ grantDay[c] \in disturbed'
    BY <1>7 DEF SettleTx, Disturb
  <2>3. CASE b # c
    BY <1>3, <1>4, <2>1, <2>2, <2>3 DEF Goto
  <2>4. CASE b = c
    BY <1>1, <1>2, <1>3, <2>1, <2>2, <2>4 DEF Goto, InTime, day
  <2> QED
    BY <2>3, <2>4
<1>8. ASSUME BackfillDailyPoints \/ Replicate \/ Midnight \/ LoseCounter \/ UNCHANGED vars
      PROVE  InTime(b)'
  <2>1. UNCHANGED <<paid, pc, grantDay>>
    BY <1>8 DEF BackfillDailyPoints, Replicate, Midnight, LoseCounter, vars, dbVars, callVars
  <2> QED
    BY <1>4, <2>1
<1> QED
  BY <1>5, <1>6, <1>7, <1>8 DEF Next, SettleSession

\* Every step that puts points into a record pays them.
LEMMA EarnedStep == TypeOK /\ EarnedIsPaid /\ [Next]_vars => EarnedIsPaid'
<1> SUFFICES ASSUME TypeOK, EarnedIsPaid, [Next]_vars, NEW s \in Sessions, earned'[s] # 0
             PROVE  \E c \in paid' : SessionOf[c] = s
  BY DEF EarnedIsPaid
<1>1. paid \subseteq paid'
  BY DEF Next, SettleSession, Begin, GetDailyPoints, GetDailyPointsDB, FillCounter,
         AcquireDailyPoints, CloseSession, SettleTx, ReleaseDailyPoints, UpsertDailyPoints, Abort,
         BackfillDailyPoints, Replicate, Midnight, LoseCounter, dbVars, vars
<1>2. CASE earned[s] # 0
  BY <1>1, <1>2 DEF EarnedIsPaid
<1>3. CASE earned[s] = 0
  <2>1. PICK c \in Settlers : CloseSession(c) \/ SettleTx(c)
    BY <1>3 DEF Next, SettleSession, Begin, GetDailyPoints, GetDailyPointsDB, FillCounter,
         AcquireDailyPoints, ReleaseDailyPoints, UpsertDailyPoints, Abort,
         BackfillDailyPoints, Replicate, Midnight, LoseCounter, dbVars, vars
  <2>2. earned \in [Sessions -> Nat] /\ SessionOf[c] \in Sessions
    BY SettleAssumption DEF TypeOK
  <2>3. CASE CloseSession(c)
    BY <1>3, <2>2, <2>3 DEF CloseSession, MarkSettled
  <2>4. CASE SettleTx(c)
    BY <1>3, <2>2, <2>4 DEF SettleTx, MarkSettled
  <2> QED
    BY <2>1, <2>3, <2>4
<1> QED
  BY <1>2, <1>3

\* Which calls hold a grant changes in four ways: the script grants, a call that
\* lost the race or failed lets go, and every other step changes nothing.
Stays(d) ==
    TakenBy(d)' = TakenBy(d) /\ \A c \in TakenBy(d) : granted'[c] = granted[c]

\* A call that moves between two places that hold no grant, or pays what it holds.
LEMMA StaysHere ==
  ASSUME TypeOK, PayInv, NEW c \in Settlers, NEW to \in Pc, Goto(c, to),
         UNCHANGED <<grantDay, granted>>,
         \/ UNCHANGED paid /\ (c \in paid \/ (pc[c] \notin {"tx", "release"} /\ to \notin {"tx", "release"}))
         \/ UNCHANGED paid /\ pc[c] = "tx" /\ to = "release"
         \/ paid' = paid \cup {c} /\ pc[c] = "tx" /\ to \in {"upsert", "release"},
         NEW d \in Days
  PROVE  Stays(d)
<1>1. pc \in [Settlers -> Pc]
  BY DEF TypeOK
<1>2. \A b \in Settlers : b # c => pc'[b] = pc[b] /\ (b \in paid' <=> b \in paid)
  BY <1>1 DEF Goto
<1>3. pc'[c] = to
  BY <1>1 DEF Goto
<1>4. \A b \in Settlers : (b \in paid' \/ pc'[b] \in {"tx", "release"})
                           <=> (b \in paid \/ pc[b] \in {"tx", "release"})
  BY <1>2, <1>3
<1>5. TakenBy(d)' = TakenBy(d)
  BY <1>4 DEF TakenBy
<1> QED
  BY <1>5 DEF Stays

\* Closing and paying steps, the steps before the script and those of the
\* surroundings leave the grants of a day alone.
LEMMA MostStay ==
  ASSUME TypeOK, PayInv, NEW d \in Days,
         \/ \E c \in Settlers : Begin(c) \/ GetDailyPoints(c) \/ GetDailyPointsDB(c)
                 \/ FillCounter(c) \/ CloseSession(c) \/ SettleTx(c) \/ UpsertDailyPoints(c)
                 \/ ((c \in paid \/ pc[c] \notin {"tx", "release"})
                        /\ (Abort(c) \/ ReleaseDailyPoints(c)))
         \/ BackfillDailyPoints \/ Replicate \/ Midnight \/ LoseCounter \/ UNCHANGED vars,
         GrantsInTime
  PROVE  Stays(d)
<1>1. ASSUME NEW c \in Settlers,
             Begin(c) \/ GetDailyPoints(c) \/ GetDailyPointsDB(c)
                 \/ FillCounter(c) \/ CloseSession(c) \/ UpsertDailyPoints(c)
                 \/ ((c \in paid \/ pc[c] \notin {"tx", "release"})
                        /\ (Abort(c) \/ ReleaseDailyPoints(c)))
      PROVE  Stays(d)
  <2>1. UNCHANGED <<grantDay, granted, paid>>
    BY <1>1 DEF Begin, GetDailyPoints, GetDailyPointsDB, FillCounter, CloseSession,
                UpsertDailyPoints, Abort, ReleaseDailyPoints, dbVars
  <2>2. PICK to \in {"warm", "load", "fill", "acquire", "end"} : Goto(c, to)
    BY <1>1 DEF Begin, GetDailyPoints, GetDailyPointsDB, FillCounter, CloseSession,
                UpsertDailyPoints, Abort, ReleaseDailyPoints
  <2>3. c \in paid \/ pc[c] \notin {"tx", "release"}
    BY <1>1 DEF Begin, GetDailyPoints, GetDailyPointsDB, FillCounter, CloseSession,
                UpsertDailyPoints
  <2>4. to \in Pc /\ to \notin {"tx", "release"}
    BY DEF Pc
  <2> QED
    BY <2>1, <2>2, <2>3, <2>4, StaysHere
<1>2. ASSUME NEW c \in Settlers, SettleTx(c) PROVE Stays(d)
  <2>1. PICK to \in {"upsert", "release"} :
            /\ Goto(c, to)
            /\ \/ UNCHANGED paid /\ to = "release"
               \/ paid' = paid \cup {c}
    BY <1>2 DEF SettleTx
  <2>2. pc[c] = "tx" /\ UNCHANGED <<grantDay, granted>>
    BY <1>2 DEF SettleTx
  <2>3. to \in Pc
    BY DEF Pc
  <2> QED
    BY <2>1, <2>2, <2>3, StaysHere
<1>3. ASSUME BackfillDailyPoints \/ Replicate \/ Midnight \/ LoseCounter \/ UNCHANGED vars
      PROVE  Stays(d)
  <2>1. UNCHANGED <<paid, pc, grantDay, granted>>
    BY <1>3 DEF BackfillDailyPoints, Replicate, Midnight, LoseCounter, vars, dbVars, callVars
  <2> QED
    BY <2>1 DEF Stays, TakenBy
<1> QED
  BY <1>1, <1>2, <1>3

\* A call that lets go of an unpaid grant.
LEMMA LetGo ==
  ASSUME TypeOK, PayInv, NEW c \in Settlers, c \notin paid, pc[c] \in {"tx", "release"},
         Abort(c) \/ ReleaseDailyPoints(c), NEW d \in Days
  PROVE  /\ UNCHANGED granted
         /\ d # grantDay[c] => TakenBy(d)' = TakenBy(d)
         /\ d = grantDay[c] => c \in TakenBy(d) /\ TakenBy(d)' = TakenBy(d) \ {c}
<1>1. UNCHANGED <<grantDay, granted, paid>> /\ Goto(c, "end")
  BY DEF Abort, ReleaseDailyPoints, dbVars
<1>2. pc \in [Settlers -> Pc]
  BY DEF TypeOK
<1>3. pc'[c] = "end" /\ \A b \in Settlers : b # c => pc'[b] = pc[b]
  BY <1>1, <1>2 DEF Goto
<1> QED
  BY <1>1, <1>3 DEF TakenBy

\* A call of the script: it grants, and then holds the grant of today; or it
\* grants nothing, or fails.
LEMMA Grants ==
  ASSUME TypeOK, PayInv, NEW c \in Settlers, AcquireDailyPoints(c), NEW d \in Days
  PROVE  \/ /\ Grantable(c) # 0 /\ d = today
            /\ counter' = [counter EXCEPT ![today] = ValueOf(@) + Grantable(c)]
            /\ granted' = [granted EXCEPT ![c] = Grantable(c)]
            /\ c \notin TakenBy(d) /\ TakenBy(d)' = TakenBy(d) \cup {c}
            /\ UNCHANGED <<bounds, ghosts>>
         \/ /\ Stays(d) /\ UNCHANGED ghosts
            /\ counter'[d] = counter[d]
            /\ UNCHANGED bounds \/ Fault
         \/ /\ Stays(d) /\ UNCHANGED ghosts
            /\ Grantable(c) # 0 /\ d = today
            /\ counter' = [counter EXCEPT ![today] = ValueOf(@) + Grantable(c)]
            /\ Fault
<1>1. /\ pc[c] = "acquire" /\ UNCHANGED <<paid, today, ghosts>>
      /\ pc \in [Settlers -> Pc] /\ granted \in [Settlers -> Nat]
      /\ grantDay \in [Settlers -> Days] /\ today \in Days
      /\ counter \in [Days -> Int \cup {NoValue}]
  BY DEF AcquireDailyPoints, TypeOK, dbVars
<1>2. c \notin paid
  BY <1>1, BeforeIsUnpaid
<1>3. c \notin TakenBy(d)
  BY <1>1, <1>2 DEF TakenBy
<1>4. CASE Goto(c, "tx") /\ granted' = [granted EXCEPT ![c] = Grantable(c)]
           /\ grantDay' = [grantDay EXCEPT ![c] = today]
           /\ Grantable(c) # 0 /\ UNCHANGED bounds
           /\ counter' = [counter EXCEPT ![today] = ValueOf(@) + Grantable(c)]
  <2>1. /\ pc'[c] = "tx" /\ grantDay'[c] = today
        /\ \A b \in Settlers : b # c => pc'[b] = pc[b] /\ grantDay'[b] = grantDay[b]
                                         /\ granted'[b] = granted[b]
    BY <1>1, <1>4 DEF Goto
  <2>2. CASE d = today
    <3>1. TakenBy(d)' = TakenBy(d) \cup {c}
      BY <1>1, <1>2, <2>1, <2>2 DEF TakenBy
    <3> QED
      BY <1>1, <1>3, <1>4, <2>2, <3>1
  <2>3. CASE d # today
    <3>1. Stays(d)
      BY <1>1, <1>2, <2>1, <2>3 DEF TakenBy, Stays
    <3>2. counter'[d] = counter[d]
      BY <1>1, <1>4, <2>3
    <3> QED
      BY <1>1, <1>4, <3>1, <3>2
  <2> QED
    BY <2>2, <2>3
<1>5. CASE Goto(c, "close") /\ granted' = [granted EXCEPT ![c] = Grantable(c)]
           /\ grantDay' = [grantDay EXCEPT ![c] = today]
           /\ UNCHANGED counter /\ UNCHANGED bounds
  <2>1. /\ pc'[c] = "close"
        /\ \A b \in Settlers : b # c => pc'[b] = pc[b] /\ grantDay'[b] = grantDay[b]
                                         /\ granted'[b] = granted[b]
    BY <1>1, <1>5 DEF Goto
  <2>2. Stays(d)
    BY <1>1, <1>2, <2>1 DEF TakenBy, Stays
  <2> QED
    BY <1>1, <1>5, <2>2
<1>6. CASE Goto(c, "end") /\ Fault /\ UNCHANGED <<granted, grantDay>>
           /\ \/ UNCHANGED counter
              \/ Grantable(c) # 0
                 /\ counter' = [counter EXCEPT ![today] = ValueOf(@) + Grantable(c)]
  <2>1. Stays(d)
    BY <1>1, <1>6, StaysHere DEF Pc
  <2>2. d # today \/ UNCHANGED counter => counter'[d] = counter[d]
    BY <1>1, <1>6
  <2> QED
    BY <1>1, <1>6, <2>1, <2>2
<1> QED
  BY <1>4, <1>5, <1>6 DEF AcquireDailyPoints

\* Today's sessions have earned nothing on a day nothing was granted on.
LEMMA NothingEarned ==
  ASSUME TypeOK, PayInv, GrantsInTime, EarnedIsPaid, TakenBy(today) = {},
         NEW s \in Sessions, CreatedOn[s] = today
  PROVE  earned[s] = 0
<1> SUFFICES ASSUME earned[s] # 0 PROVE FALSE
  OBVIOUS
<1>1. PICK c \in paid : SessionOf[c] = s
  BY DEF EarnedIsPaid
<1>2. c \in Settlers /\ InTime(c) /\ today \in Int /\ grantDay[c] \in Int
  BY <1>1, SettleAssumption DEF TypeOK, GrantsInTime, Days
<1>3. today <= grantDay[c] /\ grantDay[c] <= today
  BY <1>1, <1>2 DEF InTime
<1>4. grantDay[c] = today
  BY <1>2, <1>3
<1>5. c \in TakenBy(today)
  BY <1>1, <1>2, <1>4 DEF TakenBy
<1> QED
  BY <1>5

\* Every step keeps a day without a counter untouched, or disturbs it.
LEMMA FreshStep ==
  TypeOK /\ PayInv /\ GrantsInTime /\ EarnedIsPaid /\ FreshDay /\ [Next]_vars => FreshDay'
<1> SUFFICES ASSUME TypeOK, PayInv, GrantsInTime, EarnedIsPaid, FreshDay, [Next]_vars,
                    NEW d \in Days, d \notin disturbed', counter'[d] = NoValue
             PROVE  Untouched(d)'
  BY DEF FreshDay
<1> DEFINE Loads == \A c \in Settlers : pc[c] = "fill" /\ loaded[c].day = d => loaded[c].total = 0
<1>0. /\ d \notin disturbed /\ NoValue \notin Int /\ today \in Days
      /\ counter \in [Days -> Int \cup {NoValue}] /\ pc \in [Settlers -> Pc]
      /\ summary \in [Days -> Nat \cup {NoValue}]
      /\ loaded \in [Settlers -> [day : Days, total : Nat]]
  BY Onward, SettleAssumption DEF TypeOK
<1>a. \A c \in Settlers : Grantable(c) \in Nat /\ ValueOf(counter[today]) \in Int
  BY GrantRange
<1>b. ASSUME counter[d] = NoValue PROVE Untouched(d) /\ Loads
  BY <1>0, <1>b DEF FreshDay, Untouched
<1>c. ASSUME counter[d] = NoValue, TakenBy(d)' = {}, UNCHANGED <<summary, replica>>, Loads'
      PROVE  Untouched(d)'
  BY <1>b, <1>c DEF Untouched
<1>d. ASSUME Stays(d), counter[d] = NoValue PROVE TakenBy(d)' = {}
  BY <1>b, <1>d DEF Stays, Untouched
<1> HIDE DEF Loads
<1>1. ASSUME NEW c \in Settlers,
             Begin(c) \/ GetDailyPoints(c) \/ CloseSession(c) \/ SettleTx(c)
      PROVE  Untouched(d)'
  <2>1. UNCHANGED <<counter, summary, replica, loaded>>
    BY <1>1 DEF Begin, GetDailyPoints, CloseSession, SettleTx, dbVars
  <2>2. \E to \in Pc \ {"fill"} : Goto(c, to)
    BY <1>1 DEF Begin, GetDailyPoints, CloseSession, SettleTx, Pc
  <2>3. Loads'
    BY <1>0, <1>b, <2>1, <2>2 DEF Loads, Goto
  <2>4. Stays(d)
    BY <1>1, MostStay
  <2> QED
    BY <1>c, <1>d, <2>1, <2>3, <2>4
<1>2. ASSUME NEW c \in Settlers, GetDailyPointsDB(c) PROVE Untouched(d)'
  <2>1. UNCHANGED <<counter, summary, replica, today>> /\ Goto(c, "fill")
    BY <1>2 DEF GetDailyPointsDB, dbVars
  <2>2. Stays(d)
    BY <1>2, MostStay
  <2>3. ValueOf(replica[d]) = 0 /\ Loads
    BY <1>b, <2>1 DEF Untouched
  <2>4. \E n \in {ValueOf(replica[today]), 0} :
            loaded' = [loaded EXCEPT ![c] = [day |-> today, total |-> n]]
    BY <1>2 DEF GetDailyPointsDB
  <2>5. loaded'[c].day = d => loaded'[c].total = 0
    BY <1>0, <2>3, <2>4
  <2>6. \A b \in Settlers : b # c => pc'[b] = pc[b] /\ loaded'[b] = loaded[b]
    BY <1>0, <2>1, <2>4 DEF Goto
  <2>7. Loads'
    BY <2>3, <2>5, <2>6 DEF Loads
  <2> QED
    BY <1>c, <1>d, <2>1, <2>2, <2>7
<1>3. ASSUME NEW c \in Settlers, FillCounter(c) PROVE Untouched(d)'
  <2>1. UNCHANGED <<summary, replica, loaded>> /\ Goto(c, "acquire")
    BY <1>3 DEF FillCounter, dbVars
  <2>2. Stays(d)
    BY <1>3, MostStay
  <2>3. loaded[c].total \in Int
    BY <1>0
  <2>4. counter[d] = NoValue
    BY <1>0, <1>3, <2>3 DEF FillCounter
  <2>5. Loads'
    BY <1>0, <1>b, <2>1, <2>4 DEF Loads, Goto
  <2> QED
    BY <1>c, <1>d, <2>1, <2>2, <2>4, <2>5
<1>4. ASSUME NEW c \in Settlers, AcquireDailyPoints(c) PROVE Untouched(d)'
  <2>1. UNCHANGED <<summary, replica, loaded>>
    BY <1>4 DEF AcquireDailyPoints, dbVars
  <2>2. \E to \in Pc \ {"fill"} : Goto(c, to)
    BY <1>4 DEF AcquireDailyPoints, Pc
  <2>3. Stays(d) /\ counter'[d] = counter[d]
    <3>1. d # today \/ counter' # [counter EXCEPT ![today] = ValueOf(@) + Grantable(c)]
      BY <1>0, <1>a
    <3> QED
      BY <1>4, <3>1, Grants
  <2>4. Loads'
    BY <1>0, <1>b, <2>1, <2>2, <2>3 DEF Loads, Goto
  <2> QED
    BY <1>c, <1>d, <2>1, <2>3, <2>4
<1>5. ASSUME NEW c \in Settlers, ReleaseDailyPoints(c) \/ Abort(c) PROVE Untouched(d)'
  <2>1. UNCHANGED <<summary, replica, loaded>> /\ Goto(c, "end")
    BY <1>5 DEF ReleaseDailyPoints, Abort, dbVars
  <2>2. granted[c] \in Int
    BY DEF TypeOK
  <2>3. counter[d] = NoValue
    BY <1>0, <1>5, <1>a, <2>2 DEF ReleaseDailyPoints, Released, Abort
  <2>4. Loads'
    BY <1>0, <1>b, <2>1, <2>3 DEF Loads, Goto
  <2>5. TakenBy(d)' = {}
    <3>1. CASE c \in paid \/ pc[c] \notin {"tx", "release"}
      BY <1>5, <1>d, <2>3, <3>1, MostStay
    <3>2. CASE c \notin paid /\ pc[c] \in {"tx", "release"}
      <4>1. TakenBy(d) = {}
        BY <1>b, <2>3 DEF Untouched
      <4> QED
        BY <1>5, <3>2, <4>1, LetGo
    <3> QED
      BY <3>1, <3>2
  <2> QED
    BY <1>c, <2>1, <2>3, <2>4, <2>5
<1>6. ASSUME NEW c \in Settlers, UpsertDailyPoints(c) PROVE Untouched(d)'
  <2>1. UNCHANGED <<counter, replica, loaded, grantDay>> /\ Goto(c, "end") /\ pc[c] = "upsert"
    BY <1>6 DEF UpsertDailyPoints
  <2>2. Stays(d)
    BY <1>6, MostStay
  <2>3. Untouched(d) /\ Loads
    BY <1>b, <2>1
  <2>4. c \in TakenBy(grantDay[c])
    BY <2>1 DEF GrantsInTime, InTime, TakenBy
  <2>5. grantDay[c] # d
    BY <2>3, <2>4 DEF Untouched
  <2>6. summary'[d] = summary[d]
    BY <1>0, <1>6, <2>5 DEF UpsertDailyPoints, Disturb
  <2>7. Loads'
    BY <1>0, <2>1, <2>3 DEF Loads, Goto
  <2>8. TakenBy(d)' = {}
    BY <1>d, <2>1, <2>2
  <2> QED
    BY <2>1, <2>3, <2>6, <2>7, <2>8 DEF Untouched, Loads
<1>7. ASSUME BackfillDailyPoints PROVE Untouched(d)'
  <2> DEFINE new == {s \in Sessions : CreatedOn[s] = today}
  <2>1. UNCHANGED <<counter, replica, loaded, pc>>
        /\ summary' = [summary EXCEPT ![today] = SumFunctionOnSet(earned, new)]
    BY <1>7 DEF BackfillDailyPoints, callVars
  <2>2. Stays(d)
    BY <1>7, MostStay
  <2>3. Untouched(d) /\ Loads
    BY <1>b, <2>1
  <2>4. ASSUME d = today PROVE SumFunctionOnSet(earned, new) = 0
    <3>1. TakenBy(today) = {}
      BY <2>3, <2>4 DEF Untouched
    <3>2. IsFiniteSet(new)
      BY SettleAssumption, FS_Subset
    <3>3. \A s \in new : earned[s] = 0
      BY <3>1, NothingEarned
    <3> HIDE DEF new
    <3> QED
      BY <3>2, <3>3, SumOfZeros
  <2> HIDE DEF new
  <2>5. ValueOf(summary'[d]) = 0
    BY <1>0, <2>1, <2>3, <2>4 DEF Untouched, ValueOf
  <2>6. TakenBy(d)' = {}
    BY <1>d, <2>1, <2>2
  <2>7. Loads'
    BY <2>1, <2>3 DEF Loads
  <2> QED
    BY <2>1, <2>3, <2>5, <2>6, <2>7 DEF Untouched, Loads
<1>8. ASSUME Replicate \/ Midnight \/ LoseCounter \/ UNCHANGED vars PROVE Untouched(d)'
  <2>1. UNCHANGED <<summary, loaded, pc>> /\ (replica' = summary \/ UNCHANGED replica)
    BY <1>8 DEF Replicate, Midnight, LoseCounter, vars, callVars, dbVars
  <2>2. Stays(d)
    BY <1>8, MostStay
  <2>3. counter[d] = NoValue
    BY <1>0, <1>8 DEF Replicate, Midnight, LoseCounter, Disturb, vars
  <2>4. Untouched(d) /\ Loads /\ TakenBy(d)' = {}
    BY <1>b, <1>d, <2>2, <2>3
  <2>5. Loads'
    BY <2>1, <2>4 DEF Loads
  <2> QED
    BY <2>1, <2>4, <2>5 DEF Untouched, Loads
<1> QED
  BY <1>1, <1>2, <1>3, <1>4, <1>5, <1>6, <1>7, <1>8 DEF Next, SettleSession

\* What is taken on a day is a number, and stays the same while the grants do.
LEMMA SameTaken ==
  ASSUME TypeOK, NEW d \in Days, IsFiniteSet(TakenBy(d))
  PROVE  /\ Summable(granted, TakenBy(d))
         /\ Taken(d) = SumFunctionOnSet(granted, TakenBy(d))
         /\ Taken(d) \in Int
         /\ Stays(d) => Taken(d)' = Taken(d) /\ IsFiniteSet(TakenBy(d)')
<1>1. \A c \in TakenBy(d) : granted[c] \in Int
  BY DEF TypeOK, TakenBy
<1>2. Summable(granted, TakenBy(d))
  BY <1>1 DEF Summable
<1>3. Taken(d) = SumFunctionOnSet(granted, TakenBy(d))
  BY DEF Taken, TakenBy
<1>4. Taken(d)' = SumFunctionOnSet(granted', TakenBy(d)')
  BY DEF Taken, TakenBy
<1>5. Taken(d) \in Int
  BY <1>2, <1>3, SumType
<1>6. ASSUME Stays(d) PROVE Taken(d)' = Taken(d) /\ IsFiniteSet(TakenBy(d)')
  <2>1. SumFunctionOnSet(granted, TakenBy(d)) = SumFunctionOnSet(granted', TakenBy(d))
    BY <1>2, <1>6, SumSame DEF Stays
  <2> QED
    BY <1>3, <1>4, <1>6, <2>1 DEF Stays
<1> QED
  BY <1>2, <1>3, <1>5, <1>6

\* A grant of today adds up.
LEMMA MoreTaken ==
  ASSUME TypeOK, NEW d \in Days, IsFiniteSet(TakenBy(d)), NEW c \in Settlers, NEW g \in Nat,
         c \notin TakenBy(d), TakenBy(d)' = TakenBy(d) \cup {c},
         granted' = [granted EXCEPT ![c] = g]
  PROVE  Taken(d)' = Taken(d) + g /\ IsFiniteSet(TakenBy(d)')
<1>1. Summable(granted, TakenBy(d)) /\ Taken(d) = SumFunctionOnSet(granted, TakenBy(d))
  BY SameTaken
<1>2. Taken(d)' = SumFunctionOnSet(granted', TakenBy(d)')
  BY DEF Taken, TakenBy
<1>3. granted'[c] = g /\ \A b \in TakenBy(d) : granted[b] = granted'[b]
  BY DEF TypeOK, TakenBy
<1>4. SumFunctionOnSet(granted, TakenBy(d)) = SumFunctionOnSet(granted', TakenBy(d))
  <2>1. ASSUME NEW f, \A b \in TakenBy(d) : granted[b] = f[b]
        PROVE  SumFunctionOnSet(granted, TakenBy(d)) = SumFunctionOnSet(f, TakenBy(d))
    BY <1>1, <2>1, SumSame
  <2> QED
    BY <1>3, <2>1, Zenon
<1>5. Summable(granted', TakenBy(d)) /\ c \notin TakenBy(d) /\ granted'[c] \in Int
  BY <1>1, <1>3 DEF Summable
<1>6. /\ Summable(granted', TakenBy(d) \cup {c})
      /\ SumFunctionOnSet(granted', TakenBy(d) \cup {c})
            = SumFunctionOnSet(granted', TakenBy(d)) + granted'[c]
  BY <1>5, SumAdd
<1> QED
  BY <1>1, <1>2, <1>3, <1>4, <1>6 DEF Summable

\* A grant that is let go is taken off.
LEMMA LessTaken ==
  ASSUME TypeOK, NEW d \in Days, IsFiniteSet(TakenBy(d)), NEW c \in TakenBy(d),
         TakenBy(d)' = TakenBy(d) \ {c}, UNCHANGED granted
  PROVE  Taken(d)' = Taken(d) - granted[c] /\ IsFiniteSet(TakenBy(d)')
<1>1. Summable(granted, TakenBy(d)) /\ Taken(d) = SumFunctionOnSet(granted, TakenBy(d))
  BY SameTaken
<1>2. Taken(d)' = SumFunctionOnSet(granted', TakenBy(d)')
  BY DEF Taken, TakenBy
<1>3. /\ Summable(granted, TakenBy(d) \ {c})
      /\ SumFunctionOnSet(granted, TakenBy(d) \ {c})
            = SumFunctionOnSet(granted, TakenBy(d)) - granted[c]
  BY <1>1, SumRemove
<1> QED
  BY <1>1, <1>2, <1>3 DEF Summable

\* Every step keeps the counter of an undisturbed day over what was granted.
LEMMA CoverStep == CapInv /\ [Next]_vars => CounterCovers'
<1> SUFFICES ASSUME CapInv, [Next]_vars, NEW d \in Days PROVE Covered(d)'
  BY DEF CounterCovers
<1> DEFINE Tot == Taken(d)
           Val == ValueOf(counter[d])
<1>0. /\ TypeOK /\ PayInv /\ GrantsInTime /\ FreshDay /\ Covered(d)
      /\ IsFiniteSet(TakenBy(d))
  BY DEF CapInv, CounterCovers, Covered
<1>1. /\ Tot \in Int /\ Val \in Int /\ Limit \in Nat \ {0} /\ today \in Days
      /\ counter \in [Days -> Int \cup {NoValue}] /\ NoValue \notin Int
      /\ granted \in [Settlers -> Nat]
  BY <1>0, SameTaken, SettleAssumption DEF TypeOK, ValueOf
<1>2. /\ disturbed \subseteq disturbed' /\ failures \in Nat /\ failures' \in Nat
      /\ failures <= failures' /\ (Fault => failures' # 0)
  BY <1>0, Onward DEF Fault
<1>3. d \notin disturbed => Tot <= Limit /\ Tot <= Val /\ (failures = 0 => Val = Tot)
  BY <1>0 DEF Covered
<1>4. ASSUME IsFiniteSet(TakenBy(d)'),
             d \notin disturbed' => Tot' <= Limit /\ Tot' <= Val' /\ (failures' = 0 => Val' = Tot')
      PROVE  Covered(d)'
  BY <1>4 DEF Covered
<1> HIDE DEF Tot, Val
<1>5. ASSUME Stays(d), counter'[d] = counter[d] PROVE Covered(d)'
  <2>1. Tot' = Tot /\ IsFiniteSet(TakenBy(d)') /\ Val' = Val
    BY <1>0, <1>5, SameTaken DEF Tot, Val
  <2> QED
    BY <1>2, <1>3, <1>4, <2>1
<1>6. ASSUME \/ \E c \in Settlers : Begin(c) \/ GetDailyPoints(c) \/ GetDailyPointsDB(c)
                    \/ CloseSession(c) \/ SettleTx(c) \/ UpsertDailyPoints(c)
             \/ BackfillDailyPoints \/ Replicate \/ Midnight \/ UNCHANGED vars
      PROVE  Covered(d)'
  <2>1. Stays(d)
    BY <1>0, <1>6, MostStay
  <2>2. UNCHANGED counter
    BY <1>6 DEF Begin, GetDailyPoints, GetDailyPointsDB, CloseSession, SettleTx,
                UpsertDailyPoints, BackfillDailyPoints, Replicate, Midnight, vars
  <2> QED
    BY <1>5, <2>1, <2>2
<1>7. ASSUME NEW c \in Settlers, FillCounter(c) PROVE Covered(d)'
  <2>1. Stays(d)
    BY <1>0, <1>7, MostStay
  <2>2. CASE counter'[d] = counter[d]
    BY <1>5, <2>1, <2>2
  <2>3. CASE counter'[d] # counter[d] /\ d \in disturbed'
    BY <1>0, <1>4, <2>1, <2>3, SameTaken
  <2>4. CASE counter'[d] # counter[d] /\ d \notin disturbed'
    <3>1. /\ d = today /\ counter[d] = NoValue /\ loaded[c].day = d /\ pc[c] = "fill"
          /\ counter' = [counter EXCEPT ![today] = loaded[c].total]
      BY <1>1, <1>7, <2>4 DEF FillCounter, Disturb
    <3>2. d \notin disturbed
      BY <1>2, <2>4
    <3>3. TakenBy(d) = {} /\ loaded[c].total = 0
      BY <1>0, <3>1, <3>2 DEF FreshDay, Untouched
    <3>4. Tot = 0
      BY <1>0, <3>3, SameTaken, SumOfNothing DEF Tot
    <3>5. counter'[d] = 0
      BY <1>1, <3>1, <3>3
    <3>6. Val' = 0
      BY <1>1, <3>5 DEF Val, ValueOf
    <3>7. Tot' = Tot /\ IsFiniteSet(TakenBy(d)')
      BY <1>0, <2>1, SameTaken DEF Tot
    <3> QED
      BY <1>1, <1>4, <3>4, <3>6, <3>7
  <2> QED
    BY <2>2, <2>3, <2>4
<1>8. ASSUME NEW c \in Settlers, AcquireDailyPoints(c) PROVE Covered(d)'
  <2>1. /\ Grantable(c) \in Nat /\ ValueOf(counter[today]) \in Int
        /\ Grantable(c) # 0 => ValueOf(counter[today]) + Grantable(c) <= Limit
    BY <1>0, GrantRange
  <2>2. ASSUME d = today, counter' = [counter EXCEPT ![today] = ValueOf(@) + Grantable(c)]
        PROVE  Val' = Val + Grantable(c)
    <3>1. counter'[d] = ValueOf(counter[today]) + Grantable(c) /\ counter'[d] \in Int
      BY <1>1, <2>1, <2>2
    <3> QED
      BY <1>1, <2>2, <3>1 DEF Val, ValueOf
  <2>3. CASE /\ Grantable(c) # 0 /\ d = today
             /\ counter' = [counter EXCEPT ![today] = ValueOf(@) + Grantable(c)]
             /\ granted' = [granted EXCEPT ![c] = Grantable(c)]
             /\ c \notin TakenBy(d) /\ TakenBy(d)' = TakenBy(d) \cup {c}
             /\ UNCHANGED <<bounds, ghosts>>
    <3>1. Tot' = Tot + Grantable(c) /\ IsFiniteSet(TakenBy(d)')
      BY <1>0, <2>1, <2>3, MoreTaken DEF Tot
    <3>2. Val' = Val + Grantable(c) /\ Val + Grantable(c) <= Limit
      BY <2>1, <2>2, <2>3 DEF Val
    <3>3. failures' = failures
      BY <2>3 DEF bounds
    <3> QED
      BY <1>1, <1>2, <1>3, <1>4, <2>1, <3>1, <3>2, <3>3
  <2>4. CASE Stays(d) /\ counter'[d] = counter[d]
    BY <1>5, <2>4
  <2>5. CASE /\ Stays(d) /\ Fault /\ d = today
             /\ counter' = [counter EXCEPT ![today] = ValueOf(@) + Grantable(c)]
    <3>1. Tot' = Tot /\ IsFiniteSet(TakenBy(d)') /\ Val' = Val + Grantable(c)
      BY <1>0, <2>2, <2>5, SameTaken DEF Tot
    <3>2. failures' # 0
      BY <1>2, <2>5
    <3> QED
      BY <1>1, <1>2, <1>3, <1>4, <2>1, <3>1, <3>2
  <2> QED
    BY <1>0, <1>8, <2>3, <2>4, <2>5, Grants
<1>9. ASSUME NEW c \in Settlers, ReleaseDailyPoints(c) \/ Abort(c) PROVE Covered(d)'
  <2>0. granted[c] \in Nat /\ grantDay[c] \in Days
    BY <1>0, <1>1 DEF TypeOK
  <2>1. \/ Fault /\ UNCHANGED counter
        \/ /\ pc[c] = "release" /\ counter' = Released(c)
           /\ grantDay[c] # today => {today, grantDay[c]} \subseteq disturbed'
    BY <1>9 DEF ReleaseDailyPoints, Abort, Disturb
  <2>2. CASE c \in paid \/ pc[c] \notin {"tx", "release"}
    <3>1. Stays(d)
      BY <1>0, <1>9, <2>2, MostStay
    <3>2. CASE counter'[d] = counter[d]
      BY <1>5, <3>1, <3>2
    <3>3. CASE counter'[d] # counter[d]
      <4>1. d = today /\ pc[c] = "release" /\ counter' = Released(c)
        BY <1>1, <2>1, <3>3 DEF Released
      <4>2. c \in paid
        BY <2>2, <4>1
      <4>3. grantDay[c] \in disturbed
        BY <1>0, <4>1, <4>2 DEF GrantsInTime, InTime
      <4>4. d \in disturbed'
        BY <1>2, <2>1, <3>3, <4>1, <4>3
      <4> QED
        BY <1>0, <1>4, <3>1, <4>4, SameTaken
    <3> QED
      BY <3>2, <3>3
  <2>3. CASE c \notin paid /\ pc[c] \in {"tx", "release"}
    <3>1. /\ UNCHANGED granted
          /\ d # grantDay[c] => TakenBy(d)' = TakenBy(d)
          /\ d = grantDay[c] => c \in TakenBy(d) /\ TakenBy(d)' = TakenBy(d) \ {c}
      BY <1>0, <1>9, <2>3, LetGo
    <3>2. CASE d # grantDay[c]
      <4>1. Stays(d)
        BY <3>1, <3>2 DEF Stays
      <4>2. CASE counter'[d] = counter[d]
        BY <1>5, <4>1, <4>2
      <4>3. CASE counter'[d] # counter[d]
        <5>1. d = today
          BY <1>1, <2>1, <4>3 DEF Released
        <5>2. d \in disturbed'
          BY <2>1, <3>2, <4>3, <5>1
        <5> QED
          BY <1>0, <1>4, <4>1, <5>2, SameTaken
      <4> QED
        BY <4>2, <4>3
    <3>3. CASE d = grantDay[c]
      <4>1. Tot' = Tot - granted[c] /\ IsFiniteSet(TakenBy(d)')
        BY <1>0, <3>1, <3>3, LessTaken DEF Tot
      <4>2. CASE Fault /\ UNCHANGED counter
        <5>1. Val' = Val /\ failures' # 0
          BY <1>2, <4>2 DEF Val
        <5> QED
          BY <1>1, <1>2, <1>3, <1>4, <2>0, <4>1, <5>1
      <4>3. CASE counter' = Released(c) /\ d = today
        <5>1. counter'[d] = Val - granted[c]
          BY <1>1, <4>3 DEF Released, Val
        <5>2. Val' = Val - granted[c]
          BY <1>1, <2>0, <5>1 DEF Val, ValueOf
        <5> QED
          BY <1>1, <1>2, <1>3, <1>4, <2>0, <4>1, <5>2
      <4>4. CASE d \in disturbed'
        BY <1>4, <4>1, <4>4
      <4> QED
        BY <2>1, <3>3, <4>2, <4>3, <4>4
    <3> QED
      BY <3>2, <3>3
  <2> QED
    BY <2>2, <2>3
<1>10. ASSUME LoseCounter PROVE Covered(d)'
  <2>1. Stays(d)
    BY <1>0, <1>10, MostStay
  <2>2. counter'[d] = counter[d] \/ d \in disturbed'
    BY <1>1, <1>10 DEF LoseCounter, Disturb
  <2> QED
    BY <1>0, <1>4, <1>5, <2>1, <2>2, SameTaken
<1> QED
  BY <1>6, <1>7, <1>8, <1>9, <1>10 DEF Next, SettleSession

\* Nothing is granted at the start.
LEMMA CapInit == Init => CapInv
<1> SUFFICES ASSUME Init PROVE CapInv
  OBVIOUS
<1>1. TypeOK /\ PayInv
  BY TypeInit, PayInit
<1>2. /\ pc = [c \in Settlers |-> "start"] /\ paid = {}
      /\ earned = [s \in Sessions |-> 0] /\ counter = [d \in Days |-> NoValue]
      /\ summary = [d \in Days |-> NoValue] /\ replica = summary
  BY DEF Init
<1>3. GrantsInTime /\ EarnedIsPaid
  BY <1>2 DEF GrantsInTime, InTime, EarnedIsPaid
<1>4. ASSUME NEW d \in Days PROVE TakenBy(d) = {}
  BY <1>2 DEF TakenBy
<1>5. FreshDay
  BY <1>2, <1>4 DEF FreshDay, Untouched, ValueOf
<1>6. ASSUME NEW d \in Days PROVE Covered(d)
  <2>1. IsFiniteSet(TakenBy(d))
    BY <1>4, FS_EmptySet
  <2>2. Taken(d) = SumFunctionOnSet(granted, TakenBy(d))
    BY <1>1, <2>1, SameTaken
  <2>3. Taken(d) = 0
    BY <1>4, <2>2, SumOfNothing
  <2>4. ValueOf(counter[d]) = 0
    BY <1>2 DEF ValueOf
  <2> QED
    BY <2>1, <2>3, <2>4, SettleAssumption DEF Covered
<1> QED
  BY <1>1, <1>3, <1>5, <1>6 DEF CapInv, CounterCovers

\* Every step keeps CapInv.
LEMMA CapStep == CapInv /\ [Next]_vars => CapInv'
  BY TypeStep, PayStep, InTimeStep, EarnedStep, FreshStep, CoverStep DEF CapInv

\* TryAcquireDailyPoints keeps concurrent settlements within the daily limit on
\* every day whose counter was not overwritten, lost, released under a lost
\* reply or used across midnight: exactly the days CapAlways fails on.
THEOREM SettleCap == Spec => []CapUnlessDisturbed
<1>1. CapInv => CapUnlessDisturbed
  BY DEF CapInv, CounterCovers, Covered, CapUnlessDisturbed
<1> QED
  BY <1>1, CapInit, CapStep, PTL DEF Spec

\* ReleaseDailyPoints gives back exactly what the calls that lost the race had
\* reserved: without failures the counter of such a day is what was granted.
THEOREM SettleCounter == Spec => []CounterIsTaken
<1>1. CapInv => CounterIsTaken
  BY DEF CapInv, CounterCovers, Covered, CounterIsTaken
<1> QED
  BY <1>1, CapInit, CapStep, PTL DEF Spec

-----------------------------------------------------------------------------
(* The summary row.                                                        *)

\* The payments still to be added to the summary.
Owed == {c \in paid : pc[c] = "upsert"}

\* What the sums need to be numbers.
LEMMA PaidSums ==
  ASSUME TypeOK, IsFiniteSet(paid)
  PROVE  /\ Summable(granted, paid) /\ Summable(granted, Owed)
         /\ SumFunctionOnSet(granted, paid) \in Int
         /\ SumFunctionOnSet(granted, Owed) \in Int
<1>1. \A c \in paid : granted[c] \in Int
  BY DEF TypeOK
<1>2. Owed \subseteq paid
  BY DEF Owed
<1>3. IsFiniteSet(Owed)
  BY <1>2, FS_Subset
<1>4. Summable(granted, paid) /\ Summable(granted, Owed)
  BY <1>1, <1>2, <1>3 DEF Summable
<1> QED
  BY <1>4, SumType

\* Every step keeps the summary and the payments together.
LEMMA SummaryStep == TypeOK /\ PayInv /\ GrantsInTime /\ SummaryInv /\ [Next]_vars => SummaryInv'
<1> SUFFICES ASSUME TypeOK, PayInv, GrantsInTime, SummaryInv, [Next]_vars PROVE SummaryInv'
  OBVIOUS
<1> DEFINE Good == failures = 0 /\ backfilled = {} /\ today = 0
           All == SumFunctionOnSet(granted, paid)
           Due == SumFunctionOnSet(granted, Owed)
           Row == ValueOf(summary[0])
<1>0. /\ IsFiniteSet(paid) /\ 0 \in Days
      /\ pc \in [Settlers -> Pc] /\ paid \subseteq Settlers
      /\ summary \in [Days -> Nat \cup {NoValue}] /\ granted \in [Settlers -> Nat]
      /\ NoValue \notin Int
  BY SettleAssumption DEF SummaryInv, TypeOK, Days
<1>1. /\ Summable(granted, paid) /\ Summable(granted, Owed)
      /\ All \in Int /\ Due \in Int
  BY <1>0, PaidSums
<1>2. Row \in Int
  BY <1>0 DEF ValueOf
<1>3. Good => All = Row + Due
  BY DEF SummaryInv, SummaryIsPaid, Owed
<1>4. ASSUME IsFiniteSet(paid'), Good' => All' = Row' + Due'
      PROVE  SummaryInv'
  BY <1>4 DEF SummaryInv, SummaryIsPaid, Owed
<1>5. /\ Good' => failures' = failures /\ Good
      /\ Fault => ~Good'
      /\ BackfillDailyPoints => ~Good'
  <2>1. today' = 0 => today = 0
    <3>1. today \in Int /\ today' \in Int /\ today <= today' /\ 0 <= today
      BY Onward, SettleAssumption DEF TypeOK, Days
    <3> QED
      BY <3>1
  <2>2. failures \in Nat /\ failures <= failures' /\ (Fault => failures' # 0)
    BY Onward DEF Fault
  <2>3. backfilled \subseteq backfilled'
    BY DEF Next, SettleSession, Begin, GetDailyPoints, GetDailyPointsDB, FillCounter,
         AcquireDailyPoints, CloseSession, SettleTx, ReleaseDailyPoints, UpsertDailyPoints, Abort,
         BackfillDailyPoints, Replicate, Midnight, LoseCounter, Disturb, ghosts, vars
  <2>4. BackfillDailyPoints => backfilled' # {}
    BY DEF BackfillDailyPoints
  <2>5. failures' = 0 => failures' = failures /\ failures = 0
    BY <2>2, Onward
  <2> QED
    BY <2>1, <2>2, <2>3, <2>4, <2>5
<1>6. ASSUME UNCHANGED paid, Owed' = Owed, \A c \in paid : granted[c] = granted'[c],
             UNCHANGED summary
      PROVE  SummaryInv'
  <2>1. Owed \subseteq paid
    BY DEF Owed
  <2>2. ASSUME NEW f, \A c \in paid : granted[c] = f[c]
        PROVE  /\ SumFunctionOnSet(granted, paid) = SumFunctionOnSet(f, paid)
               /\ SumFunctionOnSet(granted, Owed) = SumFunctionOnSet(f, Owed)
    <3>1. \A c \in Owed : granted[c] = f[c]
      BY <2>1, <2>2
    <3> QED
      BY <1>1, <2>2, <3>1, SumSame
  <2>3. /\ SumFunctionOnSet(granted, paid) = SumFunctionOnSet(granted', paid)
        /\ SumFunctionOnSet(granted, Owed) = SumFunctionOnSet(granted', Owed)
    BY <1>6, <2>2, Zenon
  <2>4. All' = All /\ Due' = Due /\ Row' = Row
    BY <1>6, <2>3
  <2> HIDE DEF All, Due, Row, Good
  <2> QED
    BY <1>0, <1>3, <1>4, <1>5, <1>6, <2>4
<1>7. ASSUME NEW c \in Settlers, pc[c] # "upsert", NEW to \in Pc \ {"upsert"}, Goto(c, to),
             UNCHANGED paid
      PROVE  Owed' = Owed
  BY <1>0, <1>7 DEF Owed, Goto
<1>8. ASSUME NEW c \in Settlers,
             Begin(c) \/ GetDailyPoints(c) \/ GetDailyPointsDB(c) \/ FillCounter(c)
             \/ AcquireDailyPoints(c) \/ CloseSession(c) \/ ReleaseDailyPoints(c)
      PROVE  SummaryInv'
  <2>1. pc[c] # "upsert" /\ \E to \in Pc \ {"upsert"} : Goto(c, to)
    BY <1>8 DEF Begin, GetDailyPoints, GetDailyPointsDB, FillCounter, AcquireDailyPoints,
                CloseSession, ReleaseDailyPoints, Pc
  <2>2. UNCHANGED <<paid, summary>>
    BY <1>8 DEF Begin, GetDailyPoints, GetDailyPointsDB, FillCounter, AcquireDailyPoints,
                CloseSession, ReleaseDailyPoints, dbVars
  <2>3. \A b \in paid : granted[b] = granted'[b]
    <3>1. CASE AcquireDailyPoints(c)
      <4>1. c \notin paid
        BY <3>1, BeforeIsUnpaid DEF AcquireDailyPoints
      <4> QED
        BY <1>0, <3>1, <4>1 DEF AcquireDailyPoints
    <3>2. CASE UNCHANGED granted
      BY <3>2
    <3> QED
      BY <1>8, <3>1, <3>2 DEF Begin, GetDailyPoints, GetDailyPointsDB, FillCounter,
                CloseSession, ReleaseDailyPoints
  <2> QED
    BY <1>6, <1>7, <2>1, <2>2, <2>3
<1>9. ASSUME NEW c \in Settlers, SettleTx(c) PROVE SummaryInv'
  <2>1. UNCHANGED <<summary, granted>> /\ pc[c] = "tx"
    BY <1>9 DEF SettleTx
  <2>2. c \notin paid
    BY <2>1, BeforeIsUnpaid
  <2>3. CASE UNCHANGED paid /\ Goto(c, "release")
    <3>1. Owed' = Owed
      BY <1>7, <2>1, <2>3 DEF Pc
    <3> QED
      BY <1>6, <2>1, <2>3, <3>1
  <2>4. CASE paid' = paid \cup {c} /\ (Fault \/ Goto(c, "upsert"))
    <3>1. IsFiniteSet(paid')
      BY <1>0, <2>4, FS_AddElement
    <3>2. CASE Fault
      BY <1>4, <1>5, <3>1, <3>2
    <3>3. CASE Goto(c, "upsert")
      <4>1. Owed' = Owed \cup {c} /\ c \notin Owed
        BY <1>0, <2>2, <2>4, <3>3 DEF Owed, Goto
      <4>2. granted[c] \in Int
        BY <1>0
      <4>3. SumFunctionOnSet(granted, paid \cup {c}) = All + granted[c]
        BY <1>1, <2>2, <4>2, SumAdd
      <4>4. SumFunctionOnSet(granted, Owed \cup {c}) = Due + granted[c]
        BY <1>1, <4>1, <4>2, SumAdd
      <4>5. All' = All + granted[c] /\ Due' = Due + granted[c] /\ Row' = Row
        BY <2>1, <2>4, <4>1, <4>3, <4>4
      <4> HIDE DEF All, Due, Row, Good
      <4> QED
        BY <1>1, <1>2, <1>3, <1>4, <1>5, <3>1, <4>2, <4>5
    <3> QED
      BY <2>4, <3>2, <3>3
  <2> QED
    BY <1>9, <2>3, <2>4 DEF SettleTx
<1>10. ASSUME NEW c \in Settlers, UpsertDailyPoints(c) PROVE SummaryInv'
  <2>1. UNCHANGED <<paid, granted, today>> /\ pc[c] = "upsert" /\ Goto(c, "end")
    BY <1>10 DEF UpsertDailyPoints
  <2>2. CASE Fault
    BY <1>0, <1>4, <1>5, <2>1, <2>2
  <2>3. CASE summary' = [summary EXCEPT ![today] = Summarised(c)] /\ c \in paid
    <3>1. Owed' = Owed \ {c} /\ c \in Owed
      BY <1>0, <2>1, <2>3 DEF Owed, Goto
    <3>2. SumFunctionOnSet(granted, Owed \ {c}) = Due - granted[c] /\ granted[c] \in Nat
      BY <1>0, <1>1, <3>1, SumRemove
    <3>3. All' = All /\ Due' = Due - granted[c]
      BY <2>1, <3>1, <3>2
    <3>4. ASSUME today = 0 PROVE Row' = Row + granted[c]
      <4>1. summary'[0] = ValueOf(summary[0]) + granted[c]
        BY <1>0, <2>3, <3>4 DEF Summarised
      <4>2. summary'[0] \in Int
        BY <1>2, <3>2, <4>1
      <4> QED
        BY <1>0, <4>1, <4>2 DEF ValueOf
    <3>5. Good' => today = 0
      BY <2>1
    <3> HIDE DEF All, Due, Row, Good
    <3> QED
      BY <1>0, <1>1, <1>2, <1>3, <1>4, <1>5, <2>1, <3>2, <3>3, <3>4, <3>5
  <2>4. c \in paid
    BY <2>1 DEF GrantsInTime, InTime
  <2> QED
    BY <1>10, <2>2, <2>3, <2>4 DEF UpsertDailyPoints
<1>11. ASSUME BackfillDailyPoints \/ \E c \in Settlers : Abort(c) PROVE SummaryInv'
  <2>1. UNCHANGED paid /\ ~Good'
    BY <1>5, <1>11 DEF BackfillDailyPoints, Abort, dbVars
  <2> QED
    BY <1>0, <1>4, <2>1
<1>12. ASSUME Replicate \/ Midnight \/ LoseCounter \/ UNCHANGED vars PROVE SummaryInv'
  <2>1. UNCHANGED <<paid, pc, granted, summary>>
    BY <1>12 DEF Replicate, Midnight, LoseCounter, vars, dbVars, callVars
  <2>2. Owed' = Owed
    BY <2>1 DEF Owed
  <2> QED
    BY <1>6, <2>1, <2>2
<1> QED
  BY <1>8, <1>9, <1>10, <1>11, <1>12 DEF Next, SettleSession

\* UpsertDailyPoints counts every payment once in the row the counter is rebuilt
\* from: while nothing failed and no backfill or midnight came in between, the
\* row and the payments still to be added are what was paid.
THEOREM SettleSummary == Spec => []SummaryIsPaid
<1>1. Init => CapInv /\ SummaryInv
  <2> SUFFICES ASSUME Init PROVE CapInv /\ SummaryInv
    OBVIOUS
  <2>1. CapInv
    BY CapInit
  <2>2. paid = {} /\ 0 \in Days /\ summary = [d \in Days |-> NoValue]
    BY SettleAssumption DEF Init, Days
  <2>3. {c \in paid : pc[c] = "upsert"} = {}
    BY <2>2
  <2>4. ValueOf(summary[0]) = 0
    BY <2>2 DEF ValueOf
  <2>5. SummaryIsPaid
    BY <2>2, <2>3, <2>4, SumOfNothing DEF SummaryIsPaid
  <2> QED
    BY <2>1, <2>2, <2>5, FS_EmptySet DEF SummaryInv
<1>2. CapInv /\ SummaryInv /\ [Next]_vars => (CapInv /\ SummaryInv)'
  BY CapStep, SummaryStep DEF CapInv
<1>3. SummaryInv => SummaryIsPaid
  BY DEF SummaryInv
<1> QED
  BY <1>1, <1>2, <1>3, PTL DEF Spec
=============================================================================
