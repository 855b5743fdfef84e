------------------------------ MODULE FlashSale ------------------------------
(***************************************************************************)
(* One flash-sale activity: shop_service.go FlashRedeem and the operators' *)
(* UpdateFlashActivity, WarmupFlashSale and WarmupDueFlashSales; the Redis *)
(* scripts of cache/manager.go; AcquireFlashQuota and CountUserFlashOrders *)
(* of shop_repo.go.                                                        *)
(*                                                                         *)
(* The database row decides (sold_qty < limit_qty under its row lock); in  *)
(* front of it Redis keeps a counter of what is left and a hash of what    *)
(* each user took; a cached count of the user's orders backs the hash up.  *)
(* One action is one Redis command, SQL statement, commit or cache access. *)
(* The activity is within its time window and not ended.                   *)
(***************************************************************************)
EXTENDS RedisLock, Integers, FiniteSets

CONSTANTS Limit,        \* limit_qty of the activity when it is created
          NewLimits,    \* values an operator may set limit_qty to
          PerUser,      \* per_user_limit
          L2,           \* the cache level all pods share (Redis)
          NoValue,      \* no such key, nothing cached, nothing read
          MaxFaults,    \* bound: calls that fail, or whose reply is lost
          MaxExpiries,  \* bound: lock keys whose TTL runs out
          MaxLosses,    \* bound: counter or hash keys that expire or are lost
          MaxAborts,    \* bound: crashes of a pod and cancelled requests
          MaxUpdates,   \* bound: operators' updates
          MaxAdverse    \* bound: all of these together

Requests == Clients   \* one call of FlashRedeem each; the lock key is the user
Users == Keys
Levels == Pods \cup {L2}   \* the L1 of each pod, and L2

ASSUME FlashAssumption ==
    /\ L2 \notin Pods
    /\ Limit \in Nat \ {0}
    /\ NewLimits \subseteq Nat \ {0}
    /\ PerUser \in Nat \ {0}
    /\ NoValue \notin Int
    /\ MaxFaults \in Nat
    /\ MaxExpiries \in Nat
    /\ MaxLosses \in Nat
    /\ MaxAborts \in Nat
    /\ MaxUpdates \in Nat
    /\ MaxAdverse \in Nat

VARIABLES
    limit, sold,  \* limit_qty and sold_qty on the primary
    orders,       \* requests whose order is committed
    row,          \* the request whose transaction holds the activity's row lock
    replica,      \* the row and the users' order counts as the replica shows them
    meta,         \* limit_qty of the cached activity, on each cache level
    count,        \* each user's cached CountUserFlashOrders, on each level
    counter,      \* flashsale:stock:<activity>
    taken,        \* flashsale:users:<activity>
    act,          \* limit_qty of the activity a request works with
    acquired,     \* acquiredRedis && !committed
    pc,           \* where a request is inside FlashRedeem
    opPc, opAct,  \* an operator's update or warmup: its step, the row it read
    faults, expiries, losses, aborts, updates   \* used so far, against the bounds

dbVars == <<limit, sold, orders, row, replica>>
cacheVars == <<meta, count>>
redisVars == <<counter, taken>>
reqVars == <<act, acquired, pc>>
opVars == <<opPc, opAct>>
lockVars == <<redisLock, lockTokens>>
bounds == <<faults, expiries, losses, aborts, updates>>
vars == <<dbVars, cacheVars, redisVars, reqVars, opVars, lockVars, bounds>>

Pc == {"start", "lock", "acquire", "count", "check", "quota", "commit", "uncache",
       "settle", "unlock", "end"}
OpPc == {"idle", "update", "uncache", "reconcile"}

Bought(u) == Cardinality({r \in orders : KeyOf[r] = u})

\* Operators create the activity with its counter warmed up and cached.
Init ==
    /\ LockInit
    /\ limit = Limit /\ sold = 0 /\ orders = {} /\ row = NoClient
    /\ replica = [limit |-> Limit, sold |-> 0, bought |-> [u \in Users |-> 0]]
    /\ meta = [l \in Levels |-> IF l = L2 THEN Limit ELSE NoValue]
    /\ count = [u \in Users |-> [l \in Levels |-> NoValue]]
    /\ counter = Limit
    /\ taken = [u \in Users |-> 0]
    /\ act = [r \in Requests |-> NoValue]
    /\ acquired = [r \in Requests |-> FALSE]
    /\ pc = [r \in Requests |-> "start"]
    /\ opPc = "idle" /\ opAct = NoValue
    /\ faults = 0 /\ expiries = 0 /\ losses = 0 /\ aborts = 0 /\ updates = 0

Goto(r, to) == pc' = [pc EXCEPT ![r] = to]

\* One more fault, expiry, loss, abort or update is within the common bound.
AdverseLeft == faults + expiries + losses + aborts + updates < MaxAdverse

Fault ==
    /\ faults < MaxFaults /\ AdverseLeft
    /\ faults' = faults + 1
    /\ UNCHANGED <<expiries, losses, aborts, updates>>

-----------------------------------------------------------------------------
(* The three-level cache, for one key.                                     *)

\* CacheStrategy.Get on pod p, as the set of <<value, cache afterwards>>: a hit
\* in L1; a hit in L2, which refills L1; or a load, which fills both.  An entry
\* whose TTL has run out is one the read passes over.
CacheGet(cache, p, loaded) ==
    {<<cache[l], [cache EXCEPT ![p] = cache[l]]>> : l \in {m \in {p, L2} : cache[m] # NoValue}}
    \cup {<<loaded, [cache EXCEPT ![p] = loaded, ![L2] = loaded]>>}

\* CacheStrategy.Delete on pod p: its L1 and L2; the other pods keep theirs.
CacheDelete(cache, p) == [cache EXCEPT ![p] = NoValue, ![L2] = NoValue]

-----------------------------------------------------------------------------
(* FlashRedeem before its transaction.                                     *)

\* getFlashActivity: from the cache or the replica; or the lookup fails and the
\* request ends before anything is deferred.
GetFlashActivity(r) ==
    /\ pc[r] = "start"
    /\ \/ /\ \E got \in CacheGet(meta, PodOf[r], replica.limit) :
                /\ act' = [act EXCEPT ![r] = got[1]]
                /\ meta' = got[2]
          /\ Goto(r, "lock")
          /\ UNCHANGED bounds
       \/ Fault /\ Goto(r, "end") /\ UNCHANGED <<act, meta>>
    /\ UNCHANGED <<dbVars, count, redisVars, acquired, opVars, lockVars>>

AcquireLock(r) ==
    /\ pc[r] = "lock"
    /\ \/ Lock(r) /\ Goto(r, "acquire") /\ UNCHANGED bounds
       \/ ~LockFree(r) /\ Goto(r, "end") /\ UNCHANGED <<lockVars, bounds>>
       \/ Fault /\ Goto(r, "end") /\ UNCHANGED lockVars
       \/ Fault /\ LockReplyLost(r) /\ Goto(r, "end")
    /\ UNCHANGED <<dbVars, cacheVars, redisVars, act, acquired, opVars>>

\* Slip: the script compares with > instead of >=.
UserMayTakeOneMore(u) == taken[u] <= PerUser

\* The per-user test of the script.
UserMayTake(u) == taken[u] < PerUser

\* The counter the script works on: set from the request's activity if absent.
Seeded(r) == IF counter = NoValue THEN act[r] ELSE counter

\* The script takes one for the user.
ScriptTakes(r) ==
    /\ UserMayTake(KeyOf[r])
    /\ Seeded(r) > 0
    /\ counter' = Seeded(r) - 1
    /\ taken' = [taken EXCEPT ![KeyOf[r]] = @ + 1]

\* The script refuses; the counter is set up nevertheless.
ScriptRefuses(r) ==
    /\ ~UserMayTake(KeyOf[r]) \/ Seeded(r) <= 0
    /\ counter' = Seeded(r)
    /\ UNCHANGED taken

\* TryAcquireFlashSale.  On an error, the script run or not, the request goes on
\* without it.  It is the last use of act.LimitQty.
TryAcquireFlashSale(r) ==
    /\ pc[r] = "acquire"
    /\ \/ /\ ScriptTakes(r)
          /\ acquired' = [acquired EXCEPT ![r] = TRUE]
          /\ Goto(r, "count")
          /\ UNCHANGED bounds
       \/ /\ ScriptRefuses(r)
          /\ Goto(r, "unlock")
          /\ UNCHANGED <<acquired, bounds>>
       \/ /\ Fault
          /\ ScriptTakes(r) \/ ScriptRefuses(r) \/ UNCHANGED redisVars
          /\ Goto(r, "count")
          /\ UNCHANGED acquired
    /\ act' = [act EXCEPT ![r] = NoValue]
    /\ UNCHANGED <<dbVars, cacheVars, opVars, lockVars>>

\* CountUserFlashOrders: from the cache or the replica.
CountUserFlashOrders(r) ==
    LET u == KeyOf[r]
    IN  /\ pc[r] = "count"
        /\ \/ /\ \E got \in CacheGet(count[u], PodOf[r], replica.bought[u]) :
                    /\ count' = [count EXCEPT ![u] = got[2]]
                    /\ Goto(r, IF got[1] >= PerUser THEN "settle" ELSE "check")
              /\ UNCHANGED bounds
           \/ Fault /\ Goto(r, "settle") /\ UNCHANGED count
        /\ UNCHANGED <<dbVars, meta, redisVars, act, acquired, opVars, lockVars>>

\* The item is on sale and the user can pay, or the request fails here.
CheckItemAndPoints(r) ==
    /\ pc[r] = "check"
    /\ Goto(r, "quota") \/ Goto(r, "settle")
    /\ UNCHANGED <<dbVars, cacheVars, redisVars, act, acquired, opVars, lockVars, bounds>>

-----------------------------------------------------------------------------
(* The transaction.                                                        *)

\* Slip: the conditional update lets one more through.
QuotaLeftOrEqual == sold <= limit

\* WHERE sold_qty < limit_qty.
QuotaLeft == sold < limit

RowFree == row = NoClient

\* AcquireFlashQuota waits for the row lock, then increments or refuses.
AcquireFlashQuota(r) ==
    /\ pc[r] = "quota"
    /\ \/ RowFree /\ QuotaLeft /\ row' = r /\ Goto(r, "commit") /\ UNCHANGED bounds
       \/ RowFree /\ ~QuotaLeft /\ Goto(r, "settle") /\ UNCHANGED <<row, bounds>>
       \/ Fault /\ Goto(r, "settle") /\ UNCHANGED row
    /\ UNCHANGED <<limit, sold, orders, replica, cacheVars, redisVars, act,
                   acquired, opVars, lockVars>>

CommitTx(r) ==
    /\ sold' = sold + 1
    /\ orders' = orders \cup {r}

\* Order, points record and outbox row commit with the quota; or the
\* transaction is rolled back; or it commits and the reply is lost.
Commit(r) ==
    /\ pc[r] = "commit"
    /\ \/ /\ CommitTx(r)
          /\ acquired' = [acquired EXCEPT ![r] = FALSE]
          /\ Goto(r, "uncache")
          /\ UNCHANGED bounds
       \/ /\ Fault
          /\ Goto(r, "settle")
          /\ UNCHANGED <<sold, orders, acquired>>
       \/ /\ Fault
          /\ CommitTx(r)
          /\ Goto(r, "settle")
          /\ UNCHANGED acquired
    /\ row' = NoClient
    /\ UNCHANGED <<limit, replica, cacheVars, redisVars, act, opVars, lockVars>>

\* After a commit the user's cached count goes.
DeleteCount(r) ==
    /\ pc[r] = "uncache"
    /\ \/ count' = [count EXCEPT ![KeyOf[r]] = CacheDelete(@, PodOf[r])] /\ UNCHANGED bounds
       \/ Fault /\ UNCHANGED count
    /\ Goto(r, "unlock")
    /\ UNCHANGED <<dbVars, meta, redisVars, act, acquired, opVars, lockVars>>

-----------------------------------------------------------------------------
(* The deferred functions.                                                 *)

\* Slip: the script decrements without looking.
ReleaseTakenBlindly(u) == [taken EXCEPT ![u] = @ - 1]

\* HINCRBY -1 when positive.
ReleaseTaken(u) == [taken EXCEPT ![u] = IF @ > 0 THEN @ - 1 ELSE @]

\* Slip: the counter is not given back.
ReleaseCounterNever == counter

\* INCR, from zero when the key is gone.
ReleaseCounter == IF counter = NoValue THEN 1 ELSE counter + 1

\* ReleaseFlashSale, if the request took from Redis and did not commit.
Settle(r) ==
    /\ pc[r] = "settle"
    /\ \/ /\ acquired[r]
          /\ counter' = ReleaseCounter
          /\ taken' = ReleaseTaken(KeyOf[r])
          /\ UNCHANGED bounds
       \/ ~acquired[r] /\ UNCHANGED <<redisVars, bounds>>
       \/ acquired[r] /\ Fault /\ UNCHANGED redisVars
    /\ acquired' = [acquired EXCEPT ![r] = FALSE]
    /\ Goto(r, "unlock")
    /\ UNCHANGED <<dbVars, cacheVars, act, opVars, lockVars>>

ReleaseLock(r) ==
    /\ pc[r] = "unlock"
    /\ \/ Unlock(r) /\ UNCHANGED bounds
       \/ PopToken(r) /\ Fault /\ UNCHANGED redisLock
    /\ Goto(r, "end")
    /\ UNCHANGED <<dbVars, cacheVars, redisVars, act, acquired, opVars>>

-----------------------------------------------------------------------------
(* Operators and the warmup job.                                           *)

\* UpdateFlashActivity reads the row from the replica and puts the new limit
\* into it; WarmupFlashSale and WarmupDueFlashSales only read it.
OpRead ==
    /\ opPc = "idle"
    /\ \/ /\ updates < MaxUpdates /\ AdverseLeft
          /\ updates' = updates + 1
          /\ \E l \in NewLimits : opAct' = [limit |-> l, sold |-> replica.sold]
          /\ opPc' = "update"
       \/ /\ opAct' = [limit |-> replica.limit, sold |-> replica.sold]
          /\ opPc' = "reconcile"
          /\ UNCHANGED updates
    /\ UNCHANGED <<dbVars, cacheVars, redisVars, reqVars, lockVars,
                   faults, expiries, losses, aborts>>

\* UpdateActivity waits for the row lock and leaves sold_qty alone; if it fails,
\* the operator's request ends here.
OpUpdate ==
    /\ opPc = "update"
    /\ \/ RowFree /\ limit' = opAct.limit /\ opPc' = "uncache" /\ UNCHANGED <<opAct, bounds>>
       \/ Fault /\ opPc' = "idle" /\ opAct' = NoValue /\ UNCHANGED limit
    /\ UNCHANGED <<sold, orders, row, replica, cacheVars, redisVars, reqVars, lockVars>>

\* The activity's cache entry goes, on the pod that served the operator.
OpUncache ==
    /\ opPc = "uncache"
    /\ \E p \in Pods : meta' = CacheDelete(meta, p)
    /\ opPc' = "reconcile"
    /\ UNCHANGED <<dbVars, count, redisVars, reqVars, opAct, lockVars, bounds>>

\* reconcileStock: the counter becomes what the row read had left.  A failed SET
\* is at most logged.
OpReconcile ==
    /\ opPc = "reconcile"
    /\ \/ /\ counter' = IF opAct.limit > opAct.sold THEN opAct.limit - opAct.sold ELSE 0
          /\ UNCHANGED bounds
       \/ Fault /\ UNCHANGED counter
    /\ opPc' = "idle"
    /\ opAct' = NoValue
    /\ UNCHANGED <<dbVars, cacheVars, taken, reqVars, lockVars>>

-----------------------------------------------------------------------------
(* The surroundings.                                                       *)

\* Requests of R stop: an open transaction rolls back, Redis keeps what they
\* took.
Stop(R) ==
    /\ aborts < MaxAborts /\ AdverseLeft
    /\ aborts' = aborts + 1
    /\ pc' = [r \in Requests |-> IF r \in R THEN "end" ELSE pc[r]]
    /\ acquired' = [r \in Requests |-> r \notin R /\ acquired[r]]
    /\ row' = IF row \in R THEN NoClient ELSE row
    /\ UNCHANGED <<limit, sold, orders, replica, redisVars, act, opVars,
                   faults, expiries, losses, updates>>

InFlight(r) == pc[r] \notin {"start", "end"}

\* ctx is cancelled: the deferred Redis calls fail too.
Cancel(r) ==
    /\ InFlight(r)
    /\ Stop({r})
    /\ IF pc[r] = "lock" THEN UNCHANGED lockTokens ELSE PopToken(r)
    /\ UNCHANGED <<redisLock, cacheVars>>

\* A pod dies with its requests and its local cache.
Crash(p) ==
    /\ \E r \in Requests : PodOf[r] = p /\ InFlight(r)
    /\ Stop({r \in Requests : PodOf[r] = p /\ pc[r] # "start"})
    /\ LoseTokens(p)
    /\ meta' = [meta EXCEPT ![p] = NoValue]
    /\ count' = [u \in Users |-> [count[u] EXCEPT ![p] = NoValue]]

ExpireLock(u) ==
    /\ expiries < MaxExpiries /\ AdverseLeft
    /\ LockExpires(u)
    /\ expiries' = expiries + 1
    /\ UNCHANGED <<dbVars, cacheVars, redisVars, reqVars, opVars,
                   faults, losses, aborts, updates>>

\* The counter or the hash expires or is evicted.
LoseKey ==
    /\ losses < MaxLosses /\ AdverseLeft
    /\ losses' = losses + 1
    /\ \/ counter # NoValue /\ counter' = NoValue /\ UNCHANGED taken
       \/ taken' = [u \in Users |-> 0] /\ taken' # taken /\ UNCHANGED counter
    /\ UNCHANGED <<dbVars, cacheVars, reqVars, opVars, lockVars,
                   faults, expiries, aborts, updates>>

Replicate ==
    /\ replica' = [limit |-> limit, sold |-> sold, bought |-> [u \in Users |-> Bought(u)]]
    /\ replica' # replica
    /\ UNCHANGED <<limit, sold, orders, row, cacheVars, redisVars, reqVars,
                   opVars, lockVars, bounds>>

-----------------------------------------------------------------------------
FlashRedeem(r) ==
    \/ GetFlashActivity(r) \/ AcquireLock(r) \/ TryAcquireFlashSale(r)
    \/ CountUserFlashOrders(r) \/ CheckItemAndPoints(r) \/ AcquireFlashQuota(r)
    \/ Commit(r) \/ DeleteCount(r) \/ Settle(r) \/ ReleaseLock(r)

Next ==
    \/ \E r \in Requests : FlashRedeem(r) \/ Cancel(r)
    \/ OpRead \/ OpUpdate \/ OpUncache \/ OpReconcile
    \/ \E p \in Pods : Crash(p)
    \/ \E u \in Users : ExpireLock(u)
    \/ LoseKey \/ Replicate

Spec == Init /\ [][Next]_vars

-----------------------------------------------------------------------------
(* Properties.                                                             *)

ActType == [limit : Nat, sold : Nat]

TypeOK ==
    /\ LockTypeOK
    /\ limit \in Nat /\ sold \in Nat
    /\ orders \subseteq Requests
    /\ row \in Tokens
    /\ replica \in [limit : Nat, sold : Nat, bought : [Users -> Nat]]
    /\ meta \in [Levels -> Nat \cup {NoValue}]
    /\ count \in [Users -> [Levels -> Nat \cup {NoValue}]]
    /\ counter \in Nat \cup {NoValue}
    /\ taken \in [Users -> Nat]
    /\ act \in [Requests -> Nat \cup {NoValue}]
    /\ acquired \in [Requests -> BOOLEAN]
    /\ pc \in [Requests -> Pc]
    /\ opPc \in OpPc
    /\ opAct \in ActType \cup {NoValue}
    /\ faults \in Nat /\ expiries \in Nat /\ losses \in Nat /\ aborts \in Nat
    /\ updates \in Nat

\* "Within the limit orders are stored, beyond it none": no commit takes the
\* number of orders past the limit in force at that moment, also while operators
\* change the limit, and whatever Redis lets through.
NeverSoldPastLimit == [][orders' # orders => Cardinality(orders') <= limit']_vars

\* The per-user limit holds as long as the Redis hash is intact and no call
\* fails, with locks that expire early, crashes, stale caches and a lagging
\* replica.
PerUserLimitWithRedis ==
    faults = 0 /\ losses = 0 => \A u \in Users : Bought(u) <= PerUser

\* The Redis counter never hides quota: without faults, lost keys, aborts and
\* limit changes, it and the requests that took from it cover what is left,
\* although reconciliations overwrite it with values read from a replica.
CounterCoversQuota ==
    /\ counter # NoValue
    /\ faults = 0 /\ losses = 0 /\ aborts = 0 /\ updates = 0
    => counter + Cardinality({r \in Requests : acquired[r]}) >= limit - sold

\* What the comment on CountUserFlashOrders says: the order count keeps a user
\* from buying again shortly afterwards, even if Redis fails.
PerUserLimitAlways == \A u \in Users : Bought(u) <= PerUser
=============================================================================
