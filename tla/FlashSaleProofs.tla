--------------------------- MODULE FlashSaleProofs ---------------------------
(***************************************************************************)
(* The flash sale never sells past its limit, keeps users to theirs and    *)
(* hides no quota, for any number of requests, users and pods and any      *)
(* limits operators set.                                                   *)
(***************************************************************************)
EXTENDS FlashSale, FiniteSetTheorems, TLAPS

\* The part of the state that decides about the quota.
QuotaTypeOK ==
    /\ limit \in Nat /\ sold \in Nat
    /\ pc \in [Requests -> Pc]
    /\ opPc = "update" => opAct.limit \in Nat

\* The row lock is held by the transaction about to commit, and while it is
\* held there is quota left for that transaction.
RowProtectsQuota ==
    /\ \A r \in Requests : pc[r] = "commit" => row = r
    /\ row # NoClient => sold < limit

\* A request that has an order is past its commit and will not commit again.
OrdersArePastCommit ==
    \A r \in orders : r \in Requests /\ pc[r] \in {"uncache", "settle", "unlock", "end"}

\* sold_qty counts the orders: each is counted once, with its own commit.
SoldCountsOrders == sold = Cardinality(orders)

QuotaInv ==
    /\ QuotaTypeOK
    /\ RowProtectsQuota
    /\ OrdersArePastCommit
    /\ IsFiniteSet(orders)
    /\ SoldCountsOrders

\* The invariant holds when the activity is created.
LEMMA QuotaInit == Init => QuotaInv
<1> SUFFICES ASSUME Init PROVE QuotaInv
  OBVIOUS
<1>1. IsFiniteSet({}) /\ Cardinality({}) = 0
  BY FS_EmptySet
<1>2. QuotaTypeOK /\ RowProtectsQuota /\ OrdersArePastCommit
  BY FlashAssumption DEF Init, QuotaTypeOK, RowProtectsQuota, OrdersArePastCommit, Pc
<1> QED
  BY <1>1, <1>2 DEF Init, QuotaInv, SoldCountsOrders

\* A step outside the database: nothing about the quota moves, and no request
\* enters the commit or leaves the states past it.
LEMMA QuotaFrame ==
  ASSUME QuotaInv, UNCHANGED <<limit, sold, orders, row>>,
         pc' \in [Requests -> Pc],
         \A r \in Requests : pc'[r] = "commit" => pc[r] = "commit",
         \A r \in orders : pc'[r] \in {"uncache", "settle", "unlock", "end"},
         (opPc = "update" => opAct.limit \in Nat)'
  PROVE  QuotaInv'
BY DEF QuotaInv, QuotaTypeOK, RowProtectsQuota, OrdersArePastCommit, SoldCountsOrders

\* The same for a step of one request that jumps to a step past the commit, or
\* makes progress before it.
LEMMA QuotaGoto ==
  ASSUME QuotaInv, UNCHANGED <<limit, sold, orders, row, opVars>>,
         NEW r \in Requests, NEW to \in Pc \ {"commit"}, Goto(r, to),
         \/ pc[r] \in {"start", "lock", "acquire", "count", "check", "quota"}
         \/ to \in {"uncache", "settle", "unlock", "end"}
  PROVE  QuotaInv'
<1>1. pc \in [Requests -> Pc] /\ (opPc = "update" => opAct.limit \in Nat)
  BY DEF QuotaInv, QuotaTypeOK
<1>2. pc' \in [Requests -> Pc]
  BY <1>1 DEF Goto
<1>3. \A s \in Requests : pc'[s] = "commit" => pc[s] = "commit"
  BY <1>1 DEF Goto
<1>4. ASSUME NEW s \in orders
      PROVE  pc'[s] \in {"uncache", "settle", "unlock", "end"}
  <2>1. s \in Requests /\ pc[s] \in {"uncache", "settle", "unlock", "end"}
    BY DEF QuotaInv, OrdersArePastCommit
  <2> QED
    BY <1>1, <2>1 DEF Goto
<1>5. (opPc = "update" => opAct.limit \in Nat)'
  BY <1>1 DEF opVars
<1> QED
  BY <1>2, <1>3, <1>4, <1>5, QuotaFrame

\* AcquireFlashQuota takes the free row only while quota is left.
LEMMA QuotaAcquire ==
  ASSUME QuotaInv, NEW r \in Requests, AcquireFlashQuota(r)
  PROVE  QuotaInv'
<1>0. /\ UNCHANGED <<limit, sold, orders, opVars>> /\ pc[r] = "quota"
      /\ pc \in [Requests -> Pc] /\ r # NoClient
  BY LockAssumption DEF AcquireFlashQuota, QuotaInv, QuotaTypeOK, Requests
<1>1. CASE RowFree /\ QuotaLeft /\ row' = r /\ Goto(r, "commit")
  <2>1. pc' = [pc EXCEPT ![r] = "commit"]
    BY <1>1 DEF Goto
  <2>2. QuotaTypeOK'
    BY <1>0, <2>1 DEF QuotaInv, QuotaTypeOK, Pc, opVars
  <2>3. \A s \in Requests : pc[s] # "commit"
    BY <1>1, LockAssumption DEF QuotaInv, RowProtectsQuota, RowFree, Requests
  <2>4. RowProtectsQuota'
    BY <1>0, <1>1, <2>1, <2>3 DEF RowProtectsQuota, QuotaLeft
  <2>5. OrdersArePastCommit'
    BY <1>0, <2>1 DEF QuotaInv, OrdersArePastCommit
  <2> QED
    BY <1>0, <2>2, <2>4, <2>5 DEF QuotaInv, SoldCountsOrders
<1>2. CASE Goto(r, "settle") /\ UNCHANGED row
  BY <1>0, <1>2, QuotaGoto DEF Pc
<1> QED
  BY <1>1, <1>2 DEF AcquireFlashQuota

\* A commit adds one order and one to sold_qty, or nothing.
LEMMA QuotaCommit ==
  ASSUME QuotaInv, NEW r \in Requests, Commit(r)
  PROVE  QuotaInv' /\ (orders' # orders => Cardinality(orders') <= limit')
<1>0. /\ UNCHANGED <<limit, opVars>> /\ pc[r] = "commit" /\ row' = NoClient
      /\ pc \in [Requests -> Pc] /\ r # NoClient
      /\ limit \in Nat /\ sold \in Nat
  BY LockAssumption DEF Commit, QuotaInv, QuotaTypeOK, Requests
<1>1. row = r /\ sold < limit /\ r \notin orders
  BY <1>0 DEF QuotaInv, RowProtectsQuota, OrdersArePastCommit
<1>2. PICK to \in {"uncache", "settle"} : pc' = [pc EXCEPT ![r] = to]
  BY DEF Commit, Goto
<1>3. \A s \in Requests : pc'[s] # "commit"
  <2>1. \A s \in Requests \ {r} : pc[s] # "commit"
    BY <1>1 DEF QuotaInv, RowProtectsQuota
  <2> QED
    BY <1>0, <1>2, <2>1
<1>4. RowProtectsQuota'
  BY <1>0, <1>3 DEF RowProtectsQuota
<1>5. CASE sold' = sold + 1 /\ orders' = orders \cup {r}
  <2>1. QuotaTypeOK'
    BY <1>0, <1>2, <1>5 DEF QuotaInv, QuotaTypeOK, Pc, opVars
  <2>2. OrdersArePastCommit'
    BY <1>0, <1>2, <1>5 DEF QuotaInv, OrdersArePastCommit
  <2>3. IsFiniteSet(orders') /\ Cardinality(orders') = Cardinality(orders) + 1
    BY <1>1, <1>5, FS_AddElement DEF QuotaInv
  <2>4. SoldCountsOrders'
    BY <1>5, <2>3 DEF QuotaInv, SoldCountsOrders
  <2>5. Cardinality(orders') <= limit'
    BY <1>0, <1>1, <1>5, <2>3 DEF QuotaInv, SoldCountsOrders
  <2> QED
    BY <1>4, <2>1, <2>2, <2>3, <2>4, <2>5 DEF QuotaInv
<1>6. CASE UNCHANGED <<sold, orders>>
  <2>1. QuotaTypeOK'
    BY <1>0, <1>2, <1>6 DEF QuotaInv, QuotaTypeOK, Pc, opVars
  <2>2. OrdersArePastCommit'
    BY <1>0, <1>2, <1>6 DEF QuotaInv, OrdersArePastCommit
  <2> QED
    BY <1>4, <1>6, <2>1, <2>2 DEF QuotaInv, SoldCountsOrders
<1> QED
  BY <1>5, <1>6 DEF Commit, CommitTx

\* Requests that are cut off give the row back.
LEMMA QuotaStop ==
  ASSUME QuotaInv, NEW R, Stop(R)
  PROVE  QuotaInv'
<1>1. QuotaTypeOK'
  BY DEF Stop, QuotaInv, QuotaTypeOK, Pc, opVars
<1>2. RowProtectsQuota'
  BY DEF Stop, QuotaInv, QuotaTypeOK, RowProtectsQuota
<1>3. OrdersArePastCommit'
  BY DEF Stop, QuotaInv, QuotaTypeOK, OrdersArePastCommit
<1> QED
  BY <1>1, <1>2, <1>3 DEF Stop, QuotaInv, SoldCountsOrders

\* Operators change the limit only while no transaction holds the row.
LEMMA QuotaOperator ==
  ASSUME QuotaInv, OpRead \/ OpUpdate \/ OpUncache \/ OpReconcile
  PROVE  QuotaInv'
<1>0. UNCHANGED <<sold, orders, row, pc>>
  BY DEF OpRead, OpUpdate, OpUncache, OpReconcile, dbVars, reqVars
<1>1. CASE UNCHANGED limit
  <2>1. (opPc = "update" => opAct.limit \in Nat)'
    <3>1. CASE OpRead /\ opPc' = "update"
      <4>1. PICK l \in NewLimits : opAct' = [limit |-> l, sold |-> replica.sold]
        BY <3>1 DEF OpRead
      <4>2. opAct'.limit = l
        BY <4>1
      <4> QED
        BY <4>2, FlashAssumption
    <3>2. CASE OpUpdate \/ OpUncache \/ OpReconcile
      BY <3>2 DEF OpUpdate, OpUncache, OpReconcile
    <3> QED
      BY <3>1, <3>2, Zenon
  <2> QED
    BY <1>0, <1>1, <2>1, QuotaFrame
    DEF QuotaInv, QuotaTypeOK, OrdersArePastCommit
<1>2. CASE OpUpdate /\ RowFree /\ limit' = opAct.limit /\ opPc' = "uncache"
  <2>1. limit' \in Nat
    BY <1>2 DEF OpUpdate, QuotaInv, QuotaTypeOK
  <2>2. QuotaTypeOK'
    BY <1>0, <1>2, <2>1 DEF QuotaInv, QuotaTypeOK
  <2>3. RowProtectsQuota'
    BY <1>0, <1>2 DEF QuotaInv, RowProtectsQuota, RowFree
  <2> QED
    BY <1>0, <2>2, <2>3 DEF QuotaInv, OrdersArePastCommit, SoldCountsOrders
<1> QED
  BY <1>1, <1>2 DEF OpRead, OpUpdate, OpUncache, OpReconcile, dbVars

\* One step keeps the invariant, and adds an order only within the limit.
LEMMA QuotaStep ==
  QuotaInv /\ [Next]_vars => QuotaInv' /\ (orders' # orders => Cardinality(orders') <= limit')
<1> SUFFICES ASSUME QuotaInv, [Next]_vars
             PROVE  QuotaInv' /\ (orders' # orders => Cardinality(orders') <= limit')
  OBVIOUS
<1> USE DEF dbVars, reqVars, opVars
<1>1. ASSUME NEW r \in Requests,
             \/ GetFlashActivity(r) \/ AcquireLock(r) \/ TryAcquireFlashSale(r)
             \/ CountUserFlashOrders(r) \/ CheckItemAndPoints(r)
             \/ DeleteCount(r) \/ Settle(r) \/ ReleaseLock(r)
      PROVE  QuotaInv' /\ orders' = orders
  <2>1. UNCHANGED <<limit, sold, orders, row, opVars>>
    BY <1>1 DEF GetFlashActivity, AcquireLock, TryAcquireFlashSale,
       CountUserFlashOrders, CheckItemAndPoints, DeleteCount, Settle, ReleaseLock
  <2>2. PICK to \in Pc \ {"commit"} :
           /\ Goto(r, to)
           /\ \/ pc[r] \in {"start", "lock", "acquire", "count", "check", "quota"}
              \/ to \in {"uncache", "settle", "unlock", "end"}
    BY <1>1 DEF GetFlashActivity, AcquireLock, TryAcquireFlashSale,
       CountUserFlashOrders, CheckItemAndPoints, DeleteCount, Settle, ReleaseLock, Pc
  <2> QED
    BY <2>1, <2>2, QuotaGoto
<1>2. ASSUME NEW r \in Requests, AcquireFlashQuota(r) PROVE QuotaInv' /\ orders' = orders
  BY <1>2, QuotaAcquire DEF AcquireFlashQuota
<1>3. ASSUME NEW r \in Requests, Commit(r)
      PROVE  QuotaInv' /\ (orders' # orders => Cardinality(orders') <= limit')
  BY <1>3, QuotaCommit
<1>4. ASSUME NEW r \in Requests, Cancel(r) PROVE QuotaInv' /\ orders' = orders
  BY <1>4, QuotaStop DEF Cancel, Stop
<1>5. ASSUME NEW p \in Pods, Crash(p) PROVE QuotaInv' /\ orders' = orders
  BY <1>5, QuotaStop DEF Crash, Stop
<1>6. CASE OpRead \/ OpUpdate \/ OpUncache \/ OpReconcile
  BY <1>6, QuotaOperator DEF OpRead, OpUpdate, OpUncache, OpReconcile
<1>7. CASE \/ \E u \in Users : ExpireLock(u)
           \/ LoseKey \/ Replicate \/ UNCHANGED vars
  <2>1. UNCHANGED <<limit, sold, orders, row, pc, opPc, opAct>>
    BY <1>7 DEF ExpireLock, LoseKey, Replicate, vars
  <2> QED
    BY <2>1, QuotaFrame DEF QuotaInv, QuotaTypeOK, OrdersArePastCommit
<1> QED
  BY <1>1, <1>2, <1>3, <1>4, <1>5, <1>6, <1>7 DEF Next, FlashRedeem

\* No commit takes the orders past the limit in force, for every number of
\* requests and every sequence of limit changes.
THEOREM FlashNeverSoldPastLimit == Spec => NeverSoldPastLimit
<1>1. QuotaInv /\ [Next]_vars => [orders' # orders => Cardinality(orders') <= limit']_vars
  BY QuotaStep
<1> QED
  BY <1>1, QuotaInit, QuotaStep, PTL DEF Spec, NeverSoldPastLimit
-----------------------------------------------------------------------------
(* What Redis keeps in front of the row.                                   *)

\* Where a request that took from Redis still has to commit or give back.
Holding == {"count", "check", "quota", "commit", "settle"}

Holders == {r \in Requests : acquired[r]}

\* The requests of a user that hold what the script gave them, or bought with it.
Holds(u) == {r \in Requests : KeyOf[r] = u /\ (acquired[r] \/ r \in orders)}

\* A request holds something only between the script and the deferred release;
\* if no call failed, it holds something all that time, and has no order yet.
HoldersOK ==
    /\ acquired \in [Requests -> BOOLEAN] /\ taken \in [Users -> Nat]
    /\ faults \in Nat /\ losses \in Nat /\ aborts \in Nat /\ updates \in Nat
    /\ \A r \in Requests : acquired[r] => pc[r] \in Holding
    /\ faults = 0 => \A r \in Requests : /\ pc[r] \in Holding => acquired[r]
                                         /\ acquired[r] => r \notin orders

\* The hash counts at least what the user's requests hold or bought.
HashCovers ==
    faults = 0 /\ losses = 0 =>
        \A u \in Users : /\ IsFiniteSet(Holds(u))
                         /\ Cardinality(Holds(u)) <= taken[u]
                         /\ taken[u] <= PerUser

Quiet == faults = 0 /\ losses = 0 /\ aborts = 0 /\ updates = 0

\* With no faults, losses, aborts and updates, what the replica shows and a
\* warmup read is the limit in force and a sold_qty that may be old, and the
\* counter with the requests that took from it covers the quota left.
CounterCovers ==
    Quiet => /\ replica.limit = limit /\ replica.sold \in Nat /\ replica.sold <= sold
             /\ opPc \in {"idle", "reconcile"}
             /\ opPc = "reconcile" =>
                   opAct.limit = limit /\ opAct.sold \in Nat /\ opAct.sold <= sold
             /\ counter \in Nat
             /\ IsFiniteSet(Holders)
             /\ counter + Cardinality(Holders) >= limit - sold

RedisInv == QuotaInv /\ HoldersOK /\ HashCovers /\ CounterCovers

\* Before the first request Redis, hash and counter cover everything, as nothing is taken.
LEMMA RedisInit == Init => RedisInv
<1> SUFFICES ASSUME Init PROVE RedisInv
  OBVIOUS
<1>1. QuotaInv
  BY QuotaInit
<1>2. HoldersOK
  BY DEF Init, HoldersOK, Holding
<1>3. IsFiniteSet({}) /\ Cardinality({}) = 0
  BY FS_EmptySet
<1>4. HashCovers
  <2> SUFFICES ASSUME NEW u \in Users
               PROVE  IsFiniteSet(Holds(u)) /\ Cardinality(Holds(u)) <= taken[u] /\ taken[u] <= PerUser
    BY DEF HashCovers
  <2>1. Holds(u) = {}
    BY DEF Init, Holds
  <2>2. taken[u] = 0
    BY DEF Init
  <2> QED
    BY <1>3, <2>1, <2>2, FlashAssumption
<1>5. CounterCovers
  <2>1. Holders = {}
    BY DEF Init, Holders
  <2>2. replica.limit = Limit /\ replica.sold = 0
    BY DEF Init
  <2> QED
    BY <1>3, <2>1, <2>2, FlashAssumption DEF Init, CounterCovers
<1> QED
  BY <1>1, <1>2, <1>4, <1>5 DEF RedisInv

\* The four counts of adverse events only grow.
BoundsGrow ==
    /\ faults' \in Nat /\ losses' \in Nat /\ aborts' \in Nat /\ updates' \in Nat
    /\ faults' = 0 => faults = 0
    /\ losses' = 0 => losses = 0
    /\ aborts' = 0 => aborts = 0
    /\ updates' = 0 => updates = 0

\* Failures, losses, aborts and limit changes are only counted up, so without them now there were none.
LEMMA Grow == ASSUME HoldersOK, [Next]_vars PROVE BoundsGrow
<1> USE DEF HoldersOK, BoundsGrow
<1>1. ASSUME UNCHANGED bounds PROVE BoundsGrow
  BY <1>1 DEF bounds
<1>2. ASSUME Fault PROVE BoundsGrow
  BY <1>2 DEF Fault
<1>3. ASSUME NEW r \in Requests, FlashRedeem(r) PROVE BoundsGrow
  <2>1. UNCHANGED bounds \/ Fault
    BY <1>3 DEF FlashRedeem, GetFlashActivity, AcquireLock, TryAcquireFlashSale,
       CountUserFlashOrders, CheckItemAndPoints, AcquireFlashQuota, Commit,
       DeleteCount, Settle, ReleaseLock
  <2> QED
    BY <1>1, <1>2, <2>1
<1>4. ASSUME NEW R, Stop(R) PROVE BoundsGrow
  BY <1>4 DEF Stop
<1>5. ASSUME OpRead PROVE BoundsGrow
  BY <1>5 DEF OpRead
<1>6. ASSUME OpUpdate \/ OpUncache \/ OpReconcile PROVE BoundsGrow
  BY <1>1, <1>2, <1>6 DEF OpUpdate, OpUncache, OpReconcile
<1>7. ASSUME NEW u \in Users, ExpireLock(u) PROVE BoundsGrow
  BY <1>7 DEF ExpireLock
<1>8. ASSUME LoseKey PROVE BoundsGrow
  BY <1>8 DEF LoseKey
<1>9. ASSUME Replicate \/ UNCHANGED vars PROVE BoundsGrow
  BY <1>1, <1>9 DEF Replicate, vars
<1> HIDE DEF HoldersOK, BoundsGrow
<1> QED
  BY <1>3, <1>4, <1>5, <1>6, <1>7, <1>8, <1>9 DEF Next, Cancel, Crash

-----------------------------------------------------------------------------
(* The steps, by what they do to what requests hold.                       *)

Take(r) ==
    /\ ~acquired[r] /\ r \notin orders
    /\ ScriptTakes(r)
    /\ acquired' = [acquired EXCEPT ![r] = TRUE]
    /\ UNCHANGED <<limit, sold, orders, replica, opVars>>

Buy(r) ==
    /\ acquired[r] /\ r \notin orders
    /\ CommitTx(r)
    /\ acquired' = [acquired EXCEPT ![r] = FALSE]
    /\ UNCHANGED <<limit, replica, redisVars, opVars>>

GiveBack(r) ==
    /\ acquired[r] /\ r \notin orders
    /\ counter' = ReleaseCounter
    /\ taken' = ReleaseTaken(KeyOf[r])
    /\ acquired' = [acquired EXCEPT ![r] = FALSE]
    /\ UNCHANGED <<limit, sold, orders, replica, opVars>>

Drop ==
    /\ aborts' # 0
    /\ \A r \in Requests : acquired'[r] => acquired[r]
    /\ UNCHANGED <<orders, redisVars>>

Rest ==
    /\ UNCHANGED <<acquired, orders>>
    /\ losses' = 0 => UNCHANGED taken
    /\ \/ OpRead \/ OpUpdate \/ OpUncache \/ OpReconcile \/ Replicate
       \/ /\ UNCHANGED <<limit, sold, replica, opVars>>
          /\ counter # NoValue /\ losses' = 0 => UNCHANGED counter

\* Without faults a step is one of these as far as counter and hash are concerned.
LEMMA Moves ==
  ASSUME QuotaInv, HoldersOK, [Next]_vars, faults' = 0
  PROVE  \/ \E r \in Requests : Take(r) \/ Buy(r) \/ GiveBack(r)
         \/ Drop \/ Rest
<1> USE DEF dbVars, reqVars, redisVars
<1>0. faults = 0 /\ faults \in Nat /\ losses \in Nat /\ aborts \in Nat
  BY Grow DEF BoundsGrow, HoldersOK
<1>1. ~Fault
  BY <1>0 DEF Fault
<1>2. \A r \in Requests : /\ pc[r] \in Holding => acquired[r]
                          /\ acquired[r] => r \notin orders
                          /\ acquired[r] => pc[r] \in Holding
                          /\ acquired[r] \in BOOLEAN
  BY <1>0 DEF HoldersOK
<1>3. ASSUME NEW r \in Requests, TryAcquireFlashSale(r)
      PROVE  Take(r) \/ Rest
  <2>1. pc[r] = "acquire"
    BY <1>3 DEF TryAcquireFlashSale
  <2>2. ~acquired[r]
    BY <1>2, <2>1 DEF Holding
  <2>3. r \notin orders
    BY <2>1 DEF QuotaInv, OrdersArePastCommit
  <2> QED
    <3>1. CASE ScriptTakes(r) /\ acquired' = [acquired EXCEPT ![r] = TRUE]
      BY <1>3, <2>2, <2>3, <3>1 DEF TryAcquireFlashSale, Take
    <3>2. CASE ScriptRefuses(r) /\ UNCHANGED acquired
      <4>1. UNCHANGED taken /\ (counter # NoValue => UNCHANGED counter)
        BY <3>2 DEF ScriptRefuses, Seeded
      <4> QED
        BY <1>3, <3>2, <4>1 DEF TryAcquireFlashSale, Rest
    <3> QED
      BY <1>1, <1>3, <3>1, <3>2 DEF TryAcquireFlashSale
<1>4. ASSUME NEW r \in Requests, Commit(r)
      PROVE  Buy(r)
  <2>1. pc[r] = "commit"
    BY <1>4 DEF Commit
  <2>2. acquired[r] /\ r \notin orders
    BY <1>2, <2>1 DEF Holding
  <2> QED
    BY <1>1, <1>4, <2>2 DEF Commit, Buy
<1>5. ASSUME NEW r \in Requests, Settle(r)
      PROVE  GiveBack(r)
  <2>1. pc[r] = "settle"
    BY <1>5 DEF Settle
  <2>2. acquired[r] /\ r \notin orders
    BY <1>2, <2>1 DEF Holding
  <2> QED
    BY <1>1, <1>5, <2>2 DEF Settle, GiveBack
<1>6. ASSUME NEW r \in Requests,
             \/ GetFlashActivity(r) \/ AcquireLock(r) \/ CountUserFlashOrders(r)
             \/ CheckItemAndPoints(r) \/ AcquireFlashQuota(r) \/ DeleteCount(r)
             \/ ReleaseLock(r)
      PROVE  Rest
  BY <1>6 DEF GetFlashActivity, AcquireLock, CountUserFlashOrders,
     CheckItemAndPoints, AcquireFlashQuota, DeleteCount, ReleaseLock, Rest
<1>7. ASSUME NEW R, Stop(R) PROVE Drop
  <2>1. aborts' # 0
    BY <1>0, <1>7 DEF Stop
  <2>2. \A r \in Requests : acquired'[r] => acquired[r]
    BY <1>7 DEF Stop
  <2> QED
    BY <1>7, <2>1, <2>2 DEF Stop, Drop
<1>8. ASSUME \/ OpRead \/ OpUpdate \/ OpUncache \/ OpReconcile
             \/ \E u \in Users : ExpireLock(u)
             \/ Replicate \/ UNCHANGED vars
      PROVE  Rest
  BY <1>8 DEF OpRead, OpUpdate, OpUncache, OpReconcile, ExpireLock, Replicate, Rest, vars
<1>9. ASSUME LoseKey PROVE Rest
  BY <1>0, <1>9 DEF LoseKey, Rest
<1> QED
  BY <1>3, <1>4, <1>5, <1>6, <1>7, <1>8, <1>9 DEF Next, FlashRedeem, Cancel, Crash
\* A request takes, keeps and lets go along its path.
LEMMA HoldersStep ==
  ASSUME QuotaInv, HoldersOK, [Next]_vars
  PROVE  HoldersOK'
<1> USE DEF dbVars, reqVars, redisVars
<1>0. /\ acquired \in [Requests -> BOOLEAN] /\ pc \in [Requests -> Pc]
      /\ taken \in [Users -> Nat]
      /\ \A r \in Requests : acquired[r] => pc[r] \in Holding
  BY DEF HoldersOK, QuotaInv, QuotaTypeOK
<1>1. faults = 0 => \A r \in Requests : /\ pc[r] \in Holding => acquired[r]
                                        /\ acquired[r] => r \notin orders
  BY DEF HoldersOK
<1>2. BoundsGrow
  BY Grow
<1> DEFINE Fresh == /\ \A r \in Requests : acquired'[r] => pc'[r] \in Holding
                    /\ faults' = 0 => \A r \in Requests :
                          /\ pc'[r] \in Holding => acquired'[r]
                          /\ acquired'[r] => r \notin orders'
           Typed == acquired' \in [Requests -> BOOLEAN] /\ taken' \in [Users -> Nat]
<1> HIDE DEF Fresh, Typed
<1>3. ASSUME Fresh, Typed PROVE HoldersOK'
  BY <1>2, <1>3 DEF HoldersOK, BoundsGrow, Fresh, Typed
<1>4. ASSUME NEW r \in Requests,
             \/ GetFlashActivity(r) \/ AcquireLock(r) \/ CountUserFlashOrders(r)
             \/ CheckItemAndPoints(r) \/ AcquireFlashQuota(r) \/ DeleteCount(r)
             \/ ReleaseLock(r)
      PROVE  Fresh /\ Typed
  <2>1. UNCHANGED <<acquired, orders, taken>>
    BY <1>4 DEF GetFlashActivity, AcquireLock, CountUserFlashOrders,
       CheckItemAndPoints, AcquireFlashQuota, DeleteCount, ReleaseLock
  <2>2. PICK to : pc' = [pc EXCEPT ![r] = to] /\ (to \in Holding <=> pc[r] \in Holding)
    BY <1>4 DEF GetFlashActivity, AcquireLock, CountUserFlashOrders,
       CheckItemAndPoints, AcquireFlashQuota, DeleteCount, ReleaseLock, Goto, Holding
  <2>3. \A s \in Requests : pc'[s] \in Holding <=> pc[s] \in Holding
    BY <1>0, <2>2
  <2>4. Typed
    BY <1>0, <2>1 DEF Typed
  <2> QED
    BY <1>0, <1>1, <1>2, <2>1, <2>3, <2>4 DEF Fresh, BoundsGrow
<1>5. ASSUME NEW r \in Requests, TryAcquireFlashSale(r)
      PROVE  Fresh /\ Typed
  <2>1. pc[r] = "acquire" /\ UNCHANGED orders /\ KeyOf[r] \in Users
    BY <1>5, LockAssumption DEF TryAcquireFlashSale, Requests, Users
  <2>2. r \notin orders
    BY <2>1 DEF QuotaInv, OrdersArePastCommit
  <2>3. Typed
    <3>1. acquired' \in [Requests -> BOOLEAN]
      BY <1>0, <1>5 DEF TryAcquireFlashSale
    <3>2. taken' = [taken EXCEPT ![KeyOf[r]] = @ + 1] \/ taken' = taken
      BY <1>5 DEF TryAcquireFlashSale, ScriptTakes, ScriptRefuses
    <3>3. taken' \in [Users -> Nat]
      BY <1>0, <2>1, <3>2
    <3> QED
      BY <3>1, <3>3 DEF Typed
  <2>4. ~acquired[r]
    BY <1>0, <2>1 DEF Holding
  <2>5. CASE acquired' = [acquired EXCEPT ![r] = TRUE] /\ Goto(r, "count")
    BY <1>0, <1>1, <1>2, <2>1, <2>2, <2>3, <2>5 DEF Fresh, Goto, Holding, BoundsGrow
  <2>6. CASE UNCHANGED acquired /\ Goto(r, "unlock")
    BY <1>0, <1>1, <1>2, <2>1, <2>3, <2>4, <2>6 DEF Fresh, Goto, Holding, BoundsGrow
  <2>7. CASE UNCHANGED acquired /\ Goto(r, "count") /\ Fault
    <3>1. faults' # 0
      BY <2>7 DEF Fault, HoldersOK
    <3> QED
      BY <1>0, <2>1, <2>3, <2>4, <2>7, <3>1 DEF Fresh, Goto, Holding
  <2> QED
    BY <1>5, <2>5, <2>6, <2>7 DEF TryAcquireFlashSale
<1>6. ASSUME NEW r \in Requests, Commit(r)
      PROVE  Fresh /\ Typed
  <2>1. pc[r] = "commit" /\ UNCHANGED taken
    BY <1>6 DEF Commit
  <2>2. Typed
    BY <1>0, <1>6, <2>1 DEF Commit, Typed
  <2>3. CASE acquired' = [acquired EXCEPT ![r] = FALSE] /\ Goto(r, "uncache") /\ CommitTx(r)
    BY <1>0, <1>1, <1>2, <2>2, <2>3 DEF Fresh, Goto, Holding, BoundsGrow, CommitTx
  <2>4. CASE UNCHANGED acquired /\ Goto(r, "settle") /\ Fault
    <3>1. faults' # 0
      BY <2>4 DEF Fault, HoldersOK
    <3> QED
      BY <1>0, <2>2, <2>4, <3>1 DEF Fresh, Goto, Holding
  <2> QED
    BY <1>6, <2>3, <2>4 DEF Commit
<1>7. ASSUME NEW r \in Requests, Settle(r)
      PROVE  Fresh /\ Typed
  <2>1. /\ acquired' = [acquired EXCEPT ![r] = FALSE] /\ pc' = [pc EXCEPT ![r] = "unlock"]
        /\ UNCHANGED orders /\ KeyOf[r] \in Users
    BY <1>7, LockAssumption DEF Settle, Goto, Requests, Users
  <2>2. taken' \in [Users -> Nat]
    BY <1>0, <1>7, <2>1 DEF Settle, ReleaseTaken
  <2> QED
    BY <1>0, <1>1, <1>2, <2>1, <2>2 DEF Fresh, Typed, Holding, BoundsGrow
<1>8. ASSUME NEW R, Stop(R) PROVE Fresh /\ Typed
  <2>1. /\ UNCHANGED <<orders, taken>>
        /\ \A r \in Requests : \/ pc'[r] = "end" /\ ~acquired'[r]
                               \/ pc'[r] = pc[r] /\ acquired'[r] = acquired[r]
    BY <1>0, <1>8 DEF Stop
  <2>2. Typed
    BY <1>0, <1>8 DEF Stop, Typed
  <2> QED
    BY <1>0, <1>1, <1>2, <2>1, <2>2 DEF Fresh, Holding, BoundsGrow
<1>9. ASSUME \/ OpRead \/ OpUpdate \/ OpUncache \/ OpReconcile
             \/ \E u \in Users : ExpireLock(u)
             \/ LoseKey \/ Replicate \/ UNCHANGED vars
      PROVE  Fresh /\ Typed
  <2>1. UNCHANGED <<orders, acquired, pc>>
    BY <1>9 DEF OpRead, OpUpdate, OpUncache, OpReconcile, ExpireLock, LoseKey, Replicate, vars
  <2>2. taken' \in [Users -> Nat]
    BY <1>0, <1>9 DEF OpRead, OpUpdate, OpUncache, OpReconcile, ExpireLock, LoseKey,
       Replicate, vars
  <2> QED
    BY <1>0, <1>1, <1>2, <2>1, <2>2 DEF Fresh, Typed, BoundsGrow
<1> QED
  BY <1>3, <1>4, <1>5, <1>6, <1>7, <1>8, <1>9 DEF Next, FlashRedeem, Cancel, Crash

\* The hash keeps covering what a user's requests hold or bought.
LEMMA HashStep ==
  ASSUME RedisInv, [Next]_vars
  PROVE  HashCovers'
<1> SUFFICES ASSUME faults' = 0, losses' = 0, NEW u \in Users
             PROVE  /\ IsFiniteSet(Holds(u)')
                    /\ Cardinality(Holds(u)') <= taken'[u]
                    /\ taken'[u] <= PerUser
  BY DEF HashCovers
<1>0. /\ acquired \in [Requests -> BOOLEAN] /\ taken \in [Users -> Nat]
      /\ \A r \in Requests : KeyOf[r] \in Users
      /\ PerUser \in Nat
  BY LockAssumption, FlashAssumption DEF RedisInv, HoldersOK, Requests, Users
<1>1. /\ IsFiniteSet(Holds(u)) /\ Cardinality(Holds(u)) <= taken[u] /\ taken[u] <= PerUser
      /\ Cardinality(Holds(u)) \in Nat
  BY Grow, FS_CardinalityType DEF RedisInv, HashCovers, BoundsGrow
<1>2. ASSUME Holds(u)' \subseteq Holds(u), taken'[u] = taken[u]
      PROVE  /\ IsFiniteSet(Holds(u)') /\ Cardinality(Holds(u)') <= taken'[u]
             /\ taken'[u] <= PerUser
  <2>1. IsFiniteSet(Holds(u)') /\ Cardinality(Holds(u)') <= Cardinality(Holds(u))
    BY <1>1, <1>2, FS_Subset
  <2>2. Cardinality(Holds(u)') \in Nat
    BY <2>1, FS_CardinalityType
  <2> QED
    BY <1>0, <1>1, <1>2, <2>1, <2>2
<1>3. ASSUME NEW r \in Requests, Take(r), KeyOf[r] = u
      PROVE  /\ IsFiniteSet(Holds(u)') /\ Cardinality(Holds(u)') <= taken'[u]
             /\ taken'[u] <= PerUser
  <2>1. Holds(u)' = Holds(u) \cup {r} /\ r \notin Holds(u)
    BY <1>0, <1>3 DEF Take, Holds
  <2>2. IsFiniteSet(Holds(u)') /\ Cardinality(Holds(u)') = Cardinality(Holds(u)) + 1
    BY <1>1, <2>1, FS_AddElement
  <2>3. taken'[u] = taken[u] + 1 /\ taken[u] < PerUser
    BY <1>0, <1>3 DEF Take, ScriptTakes, UserMayTake
  <2> QED
    BY <1>0, <1>1, <2>2, <2>3
<1>4. ASSUME NEW r \in Requests, GiveBack(r), KeyOf[r] = u
      PROVE  /\ IsFiniteSet(Holds(u)') /\ Cardinality(Holds(u)') <= taken'[u]
             /\ taken'[u] <= PerUser
  <2>1. Holds(u)' = Holds(u) \ {r} /\ r \in Holds(u)
    BY <1>0, <1>4 DEF GiveBack, Holds
  <2>2. IsFiniteSet(Holds(u)') /\ Cardinality(Holds(u)') = Cardinality(Holds(u)) - 1
    BY <1>1, <2>1, FS_RemoveElement
  <2>3. Cardinality(Holds(u)') \in Nat
    BY <2>2, FS_CardinalityType
  <2>4. taken'[u] = IF taken[u] > 0 THEN taken[u] - 1 ELSE taken[u]
    BY <1>0, <1>4 DEF GiveBack, ReleaseTaken
  <2> QED
    BY <1>0, <1>1, <2>2, <2>3, <2>4
<1>5. ASSUME NEW r \in Requests, Take(r) \/ GiveBack(r), KeyOf[r] # u
      PROVE  Holds(u)' \subseteq Holds(u) /\ taken'[u] = taken[u]
  BY <1>0, <1>5 DEF Take, GiveBack, Holds, ScriptTakes, ReleaseTaken
<1>6. ASSUME NEW r \in Requests, Buy(r)
      PROVE  Holds(u)' \subseteq Holds(u) /\ taken'[u] = taken[u]
  BY <1>0, <1>6 DEF Buy, CommitTx, Holds, redisVars
<1>7. ASSUME Drop \/ Rest
      PROVE  Holds(u)' \subseteq Holds(u) /\ taken'[u] = taken[u]
  BY <1>0, <1>7 DEF Drop, Rest, Holds, redisVars
<1> QED
  BY <1>2, <1>3, <1>4, <1>5, <1>6, <1>7, Moves DEF RedisInv
\* The counter keeps covering the quota, also when it is overwritten.
LEMMA CounterStep ==
  ASSUME RedisInv, QuotaInv', [Next]_vars
  PROVE  CounterCovers'
<1> SUFFICES ASSUME Quiet' PROVE CounterCovers'
  BY DEF CounterCovers
<1> DEFINE Card == Cardinality(Holders)
           Read == replica.limit = limit /\ replica.sold \in Nat /\ replica.sold <= sold
           Warm == /\ opPc \in {"idle", "reconcile"}
                   /\ opPc = "reconcile" =>
                         opAct.limit = limit /\ opAct.sold \in Nat /\ opAct.sold <= sold
           Covers == /\ counter \in Nat /\ IsFiniteSet(Holders)
                     /\ counter + Card >= limit - sold
<1>0. Quiet /\ faults' = 0 /\ losses' = 0 /\ aborts' = 0
  BY Grow DEF RedisInv, BoundsGrow, Quiet
<1>1. Read /\ Warm /\ Covers /\ limit \in Nat /\ sold \in Nat /\ Card \in Nat
  BY <1>0, FS_CardinalityType DEF RedisInv, CounterCovers, QuotaInv, QuotaTypeOK
<1>2. acquired \in [Requests -> BOOLEAN] /\ counter # NoValue
  BY <1>1, FlashAssumption DEF RedisInv, HoldersOK
<1>3. ASSUME Read', Warm', Covers' PROVE CounterCovers'
  BY <1>3 DEF CounterCovers
<1>4. ASSUME UNCHANGED <<limit, replica, opVars>>, sold' \in Nat, sold' >= sold
      PROVE  Read' /\ Warm'
  BY <1>1, <1>4 DEF opVars
<1> HIDE DEF Read, Warm
<1>5. ASSUME NEW r \in Requests, Take(r) PROVE CounterCovers'
  <2>1. Holders' = Holders \cup {r} /\ r \notin Holders
    BY <1>2, <1>5 DEF Take, Holders
  <2>2. IsFiniteSet(Holders') /\ Card' = Card + 1
    BY <1>1, <2>1, FS_AddElement
  <2>3. counter' = counter - 1 /\ counter > 0 /\ UNCHANGED <<limit, sold, replica, opVars>>
    BY <1>2, <1>5 DEF Take, ScriptTakes, Seeded
  <2>4. Covers'
    BY <1>1, <2>2, <2>3
  <2> QED
    BY <1>1, <1>3, <1>4, <2>3, <2>4
<1>6. ASSUME NEW r \in Requests, Buy(r) PROVE CounterCovers'
  <2>1. Holders' = Holders \ {r} /\ r \in Holders
    BY <1>2, <1>6 DEF Buy, Holders
  <2>2. IsFiniteSet(Holders') /\ Card' = Card - 1
    BY <1>1, <2>1, FS_RemoveElement
  <2>3. sold' = sold + 1 /\ UNCHANGED <<counter, limit, replica, opVars>>
    BY <1>6 DEF Buy, CommitTx, redisVars
  <2>4. Covers'
    BY <1>1, <2>2, <2>3
  <2> QED
    BY <1>1, <1>3, <1>4, <2>3, <2>4
<1>7. ASSUME NEW r \in Requests, GiveBack(r) PROVE CounterCovers'
  <2>1. Holders' = Holders \ {r} /\ r \in Holders
    BY <1>2, <1>7 DEF GiveBack, Holders
  <2>2. IsFiniteSet(Holders') /\ Card' = Card - 1
    BY <1>1, <2>1, FS_RemoveElement
  <2>3. counter' = counter + 1 /\ UNCHANGED <<limit, sold, replica, opVars>>
    BY <1>2, <1>7 DEF GiveBack, ReleaseCounter
  <2>4. Covers'
    BY <1>1, <2>2, <2>3
  <2> QED
    BY <1>1, <1>3, <1>4, <2>3, <2>4
<1>8. ~Drop
  BY <1>0 DEF Drop
<1>9. ASSUME Rest PROVE CounterCovers'
  <2>1. sold' = sold
    BY <1>9 DEF Rest, RedisInv, QuotaInv, SoldCountsOrders
  <2>2. Holders' = Holders
    BY <1>9 DEF Rest, Holders
  <2>3. ASSUME UNCHANGED limit, counter' \in Nat, counter' >= counter PROVE Covers'
    BY <1>1, <2>1, <2>2, <2>3
  <2>4. CASE /\ UNCHANGED <<limit, sold, replica, opVars>>
             /\ counter # NoValue /\ losses' = 0 => UNCHANGED counter
    BY <1>0, <1>1, <1>2, <1>3, <1>4, <2>3, <2>4
  <2>5. CASE OpRead
    <3>1. UNCHANGED <<limit, counter, replica>>
      BY <2>5 DEF OpRead, dbVars, redisVars
    <3>2. opPc' = "reconcile" /\ opAct' = [limit |-> replica.limit, sold |-> replica.sold]
      BY <1>0, <2>5 DEF OpRead, Quiet, RedisInv, HoldersOK
    <3>3. opAct'.limit = replica.limit /\ opAct'.sold = replica.sold
      BY <3>2
    <3>4. Warm' /\ Read'
      BY <1>1, <2>1, <3>1, <3>2, <3>3 DEF Warm, Read
    <3> QED
      BY <1>1, <1>3, <2>3, <3>1, <3>4
  <2>6. CASE OpUpdate
    BY <1>1, <2>6 DEF OpUpdate, Warm
  <2>7. CASE OpUncache
    BY <1>1, <2>7 DEF OpUncache, Warm
  <2>8. CASE OpReconcile
    <3>1. UNCHANGED <<limit, replica>> /\ opPc' = "idle" /\ opPc = "reconcile"
      BY <2>8 DEF OpReconcile, dbVars
    <3>2. ~Fault
      BY <1>0 DEF Fault, Quiet
    <3>3. counter' = IF opAct.limit > opAct.sold THEN opAct.limit - opAct.sold ELSE 0
      BY <2>8, <3>2 DEF OpReconcile
    <3>4. counter' \in Nat /\ counter' >= limit - sold
      BY <1>1, <3>1, <3>3 DEF Warm
    <3>5. Covers'
      BY <1>1, <2>1, <2>2, <3>1, <3>4
    <3>6. Warm' /\ Read'
      BY <1>1, <2>1, <3>1 DEF Warm, Read
    <3> QED
      BY <1>3, <3>5, <3>6
  <2>9. CASE Replicate
    <3>1. UNCHANGED <<limit, counter, opPc, opAct>>
      BY <2>9 DEF Replicate, redisVars, opVars
    <3>2. replica'.limit = limit /\ replica'.sold = sold
      BY <2>9 DEF Replicate
    <3>3. Warm' /\ Read'
      BY <1>1, <2>1, <3>1, <3>2 DEF Warm, Read
    <3> QED
      BY <1>1, <1>3, <2>3, <3>1, <3>3
  <2> QED
    BY <1>9, <2>4, <2>5, <2>6, <2>7, <2>8, <2>9 DEF Rest
<1> QED
  BY <1>0, <1>5, <1>6, <1>7, <1>8, <1>9, Moves DEF RedisInv

\* Every step preserves what hash and counter cover.
LEMMA RedisStep == RedisInv /\ [Next]_vars => RedisInv'
<1> SUFFICES ASSUME RedisInv, [Next]_vars PROVE RedisInv'
  OBVIOUS
<1>1. QuotaInv'
  BY QuotaStep DEF RedisInv
<1> QED
  BY <1>1, HoldersStep, HashStep, CounterStep DEF RedisInv

\* As long as no call fails and no Redis key is lost, no user buys more than the
\* per-user limit, for every number of users, requests and pods, with locks that
\* expire early, crashes, cancelled requests, stale caches and a lagging replica.
THEOREM FlashPerUserLimit == Spec => []PerUserLimitWithRedis
<1>1. RedisInv => PerUserLimitWithRedis
  <2> SUFFICES ASSUME RedisInv, faults = 0, losses = 0, NEW u \in Users
               PROVE  Bought(u) <= PerUser
    BY DEF PerUserLimitWithRedis
  <2>1. /\ IsFiniteSet(Holds(u)) /\ Cardinality(Holds(u)) <= taken[u] /\ taken[u] <= PerUser
        /\ taken[u] \in Nat /\ PerUser \in Nat
    BY FlashAssumption DEF RedisInv, HashCovers, HoldersOK
  <2>2. {r \in orders : KeyOf[r] = u} \subseteq Holds(u)
    BY DEF Holds, RedisInv, QuotaInv, OrdersArePastCommit
  <2>3. /\ Bought(u) <= Cardinality(Holds(u))
        /\ Bought(u) \in Nat /\ Cardinality(Holds(u)) \in Nat
    BY <2>1, <2>2, FS_Subset, FS_CardinalityType DEF Bought
  <2> QED
    BY <2>1, <2>3
<1> QED
  BY <1>1, RedisInit, RedisStep, PTL DEF Spec

\* Without faults, lost keys, aborts and limit changes the Redis counter never
\* hides quota, however old the rows are that warmups write into it.
THEOREM FlashCounterCoversQuota == Spec => []CounterCoversQuota
<1>1. RedisInv => CounterCoversQuota
  BY DEF RedisInv, CounterCovers, CounterCoversQuota, Quiet, Holders
<1> QED
  BY <1>1, RedisInit, RedisStep, PTL DEF Spec
=============================================================================
