----------------------------- MODULE ShopRedeem -----------------------------
(***************************************************************************)
(* Redeeming one shop item for points (shop_service.go Redeem, shop_repo.go *)
(* DeductStock, the redeem counter of cache/manager.go).                   *)
(*                                                                         *)
(* The stock lives in N bucket rows of businessDB and is deducted under    *)
(* row locks; a Redis counter in front of it turns requests away once the  *)
(* item is sold out; a Redis lock per user serialises that user's          *)
(* requests.  One action is one Redis command, one SQL statement or one    *)
(* commit, so requests of all pods interleave between any two of them.     *)
(* What the transaction does to points_outbox is module PointsOutbox.      *)
(***************************************************************************)
EXTENDS RedisLock, Integers, FiniteSets, Functions

CONSTANTS N,            \* bucket rows of the item (stockBucketCount); 1 is also an item without buckets
          Total,        \* stock of the item when it is seeded
          Qty,          \* quantity of each request
          Home,         \* bucketIndex: the bucket a user's requests try first
          KeepsExamined,\* the database keeps the lock of a row an UPDATE examined and did not match
          NoValue,      \* a Redis key that does not exist, nothing read yet
          MaxFaults,    \* bound: Redis or SQL calls that fail, or whose reply is lost
          MaxExpiries,  \* bound: lock or counter keys whose TTL runs out
          MaxAborts,    \* bound: crashes of a pod and cancelled requests
          MaxEvents     \* bound: all of these together

Requests == Clients   \* one call of Redeem each; the lock key is the user
Users == Keys
Buckets == 0 .. N - 1

ASSUME ShopAssumption ==
    /\ N \in Nat \ {0}
    /\ Total \in Nat
    /\ Qty \in [Requests -> Nat \ {0}]
    /\ Home \in [Users -> Buckets]
    /\ KeepsExamined \in BOOLEAN
    /\ NoValue \notin Int
    /\ MaxFaults \in Nat
    /\ MaxExpiries \in Nat
    /\ MaxAborts \in Nat
    /\ MaxEvents \in Nat

VARIABLES
    bucket,    \* committed stock of each bucket row
    took,      \* the row an open transaction has deducted from and locked
    attempt,   \* loop counter of DeductStock
    counter,   \* redeem:stock:<item>
    replica,   \* total stock as the read replica shows it
    seen,      \* item.Stock as a request read it
    acquired,  \* acquiredRedis && !committed
    soldOut,   \* the request failed with ErrStockInsufficient
    pc,        \* where a request is inside Redeem
    orders,    \* requests whose order is committed
    opSeen,    \* total an operator's ReconcileItemRedeemStock has read
    faults, expiries, aborts   \* used so far, against the bounds

reqVars == <<took, attempt, seen, acquired, soldOut, pc>>
lockVars == <<redisLock, lockTokens>>
bounds == <<faults, expiries, aborts>>
vars == <<bucket, counter, replica, orders, opSeen, reqVars, lockVars, bounds>>

NoBucket == N

\* The steps of Redeem; "deduct" and "commit" have an open transaction.
Pc == {"lock", "peak", "find", "acquire", "points", "deduct", "commit",
       "settle", "unlock", "end"}

\* makeBuckets: equal shares, the remainder to the first buckets.
MakeBuckets ==
    [b \in Buckets |-> Total \div N + IF b < Total % N THEN 1 ELSE 0]

TotalStock == SumFunction(bucket)

Init ==
    /\ LockInit
    /\ bucket = MakeBuckets
    /\ took = [r \in Requests |-> NoBucket]
    /\ attempt = [r \in Requests |-> 0]
    /\ counter = NoValue
    /\ replica = Total
    /\ seen = [r \in Requests |-> NoValue]
    /\ acquired = [r \in Requests |-> FALSE]
    /\ soldOut = [r \in Requests |-> FALSE]
    /\ pc = [r \in Requests |-> "lock"]
    /\ orders = {}
    /\ opSeen = NoValue
    /\ faults = 0 /\ expiries = 0 /\ aborts = 0

Goto(r, to) == pc' = [pc EXCEPT ![r] = to]

\* The joint bound on adverse events.
MayHappen == faults + expiries + aborts < MaxEvents

\* A call of the request fails.
Fault ==
    /\ MayHappen
    /\ faults < MaxFaults
    /\ faults' = faults + 1
    /\ UNCHANGED <<expiries, aborts>>

-----------------------------------------------------------------------------
(* Before the transaction.                                                 *)

\* acquireLock: held by another request, or Redis failed (with or without
\* the key set): the request is rejected and registers no deferred Unlock.
AcquireLock(r) ==
    /\ pc[r] = "lock"
    /\ \/ Lock(r) /\ Goto(r, "peak") /\ UNCHANGED bounds
       \/ ~LockFree(r) /\ Goto(r, "end") /\ UNCHANGED <<lockVars, bounds>>
       \/ Fault /\ Goto(r, "end") /\ UNCHANGED lockVars
       \/ Fault /\ LockReplyLost(r) /\ Goto(r, "end")
    /\ UNCHANGED <<bucket, counter, replica, orders, opSeen,
                   took, attempt, seen, acquired, soldOut>>

\* The key exists and is not positive.
CounterSpent == counter # NoValue /\ counter <= 0

\* IsRedeemSoldOut; an error reads as "not sold out".
IsRedeemSoldOut(r) ==
    /\ pc[r] = "peak"
    /\ \/ /\ CounterSpent
          /\ Goto(r, "unlock")
          /\ UNCHANGED bounds
       \/ /\ ~CounterSpent
          /\ Goto(r, "find")
          /\ UNCHANGED bounds
       \/ Fault /\ Goto(r, "find")
    /\ UNCHANGED <<bucket, counter, replica, orders, opSeen, lockVars,
                   took, attempt, seen, acquired, soldOut>>

\* FindItemByID with fillItemStock: the sum of the buckets on the replica; if
\* that query fails, the stock column of shop_items, which still holds the
\* seeded total; or the lookup itself fails.
FindItem(r) ==
    /\ pc[r] = "find"
    /\ \/ seen' = [seen EXCEPT ![r] = replica] /\ UNCHANGED bounds
       \/ seen' = [seen EXCEPT ![r] = Total] /\ Fault
       \/ seen' = [seen EXCEPT ![r] = 0] /\ Fault
    /\ Goto(r, IF seen'[r] < Qty[r] THEN "unlock" ELSE "acquire")
    /\ UNCHANGED <<bucket, counter, replica, orders, opSeen, lockVars,
                   took, attempt, acquired, soldOut>>

\* The value the script works on: the key, seeded from item.Stock if absent.
Seeded(r) == IF counter = NoValue THEN seen[r] ELSE counter

\* Slip: the script tests stock < 0.
ScriptGrantsAtZero(r) == Seeded(r) >= 0

\* The script refuses when stock <= 0.
ScriptGrants(r) == Seeded(r) > 0

\* TryAcquireRedeem takes one from the counter, whatever the quantity.  On an
\* error the request goes on without it, the script run or not.
TryAcquireRedeem(r) ==
    /\ pc[r] = "acquire"
    /\ \/ /\ ~ScriptGrants(r)
          /\ counter' = Seeded(r)
          /\ Goto(r, "unlock")
          /\ UNCHANGED <<acquired, bounds>>
       \/ /\ ScriptGrants(r)
          /\ counter' = Seeded(r) - 1
          /\ acquired' = [acquired EXCEPT ![r] = TRUE]
          /\ Goto(r, "points")
          /\ UNCHANGED bounds
       \/ /\ Fault
          /\ counter' \in {counter, IF ScriptGrants(r) THEN Seeded(r) - 1 ELSE Seeded(r)}
          /\ Goto(r, "points")
          /\ UNCHANGED acquired
    /\ UNCHANGED <<bucket, replica, orders, opSeen, lockVars,
                   took, attempt, seen, soldOut>>

\* The user is found and can pay, or the request fails here (user unknown, not
\* enough points, query error).
CheckPoints(r) ==
    /\ pc[r] = "points"
    /\ Goto(r, "deduct") \/ Goto(r, "settle")
    /\ UNCHANGED <<bucket, counter, replica, orders, opSeen, lockVars, bounds,
                   took, attempt, seen, acquired, soldOut>>

-----------------------------------------------------------------------------
(* The transaction.                                                        *)

\* The row the next UPDATE of DeductStock is about.
NextRow(r) == (Home[KeyOf[r]] + attempt[r]) % N

\* The row locks of an open transaction: the row it updated and, in InnoDB at
\* REPEATABLE READ (mysql.go sets no isolation level), every row an UPDATE of
\* it examined in vain.  PostgreSQL keeps only the former.
RowLocks(r) ==
    IF pc[r] \notin {"deduct", "commit"} THEN {}
    ELSE {took[r]} \cup
         {b \in Buckets : KeepsExamined /\ \E k \in 0 .. attempt[r] - 1 :
                                              b = (Home[KeyOf[r]] + k) % N}

\* The next UPDATE of r has to wait for a lock of s.
WaitsFor(r, s) == r # s /\ pc[r] = "deduct" /\ attempt[r] < N /\ NextRow(r) \in RowLocks(s)

\* The next UPDATE can run: nobody else holds its row.
DeductReady(r) == attempt[r] < N /\ \A s \in Requests : ~WaitsFor(r, s)

\* r waits in a circle.  A row has one holder, so a set of requests each of
\* which waits for one of them and is waited for by one of them is made of
\* circles.
InCircle(r) ==
    \E C \in SUBSET Requests :
        /\ r \in C
        /\ \A c \in C : (\E d \in C : WaitsFor(c, d)) /\ (\E d \in C : WaitsFor(d, c))

\* Slip: the last bucket is never tried.
DeductExhaustedEarly(r) == attempt[r] >= N - 1

\* Slip: the loop over the buckets has no end.
DeductExhaustedNever(r) == FALSE

\* Every bucket was tried.
DeductExhausted(r) == attempt[r] = N

\* Slip: the update without its stock condition.
BucketAlwaysFits(r, b) == TRUE

\* WHERE stock >= quantity.
BucketFits(r, b) == bucket[b] >= Qty[r]

\* DeductStock, one conditional UPDATE per step: from the user's home bucket
\* round all buckets until one has enough.  Redeem turns every error of it into
\* ErrStockInsufficient: a failed statement, and the one the database answers
\* to the transaction it picks to break a circle of waits.
DeductStock(r) ==
    /\ pc[r] = "deduct"
    /\ \/ /\ DeductReady(r)
          /\ BucketFits(r, NextRow(r))
          /\ took' = [took EXCEPT ![r] = NextRow(r)]
          /\ Goto(r, "commit")
          /\ UNCHANGED <<attempt, soldOut, bounds>>
       \/ /\ DeductReady(r)
          /\ ~BucketFits(r, NextRow(r))
          /\ attempt' = [attempt EXCEPT ![r] = @ + 1]
          /\ UNCHANGED <<pc, took, soldOut, bounds>>
       \/ /\ DeductExhausted(r) \/ InCircle(r)
          /\ soldOut' = [soldOut EXCEPT ![r] = TRUE]
          /\ Goto(r, "settle")
          /\ UNCHANGED <<took, attempt, bounds>>
       \/ /\ Fault
          /\ soldOut' = [soldOut EXCEPT ![r] = TRUE]
          /\ Goto(r, "settle")
          /\ UNCHANGED <<took, attempt>>
    /\ UNCHANGED <<bucket, counter, replica, orders, opSeen, lockVars,
                   seen, acquired>>

\* The deduction, the order, the points record and the outbox row commit
\* together, and the row locks are released.
CommitTx(r) ==
    /\ bucket' = [bucket EXCEPT ![took[r]] = @ - Qty[r]]
    /\ orders' = orders \cup {r}

EndTx(r) == took' = [took EXCEPT ![r] = NoBucket]

\* The rest of the transaction: it commits; fails and is rolled back; or
\* commits while its reply is lost, which Redeem takes for a failure.
Commit(r) ==
    /\ pc[r] = "commit"
    /\ \/ /\ CommitTx(r)
          /\ acquired' = [acquired EXCEPT ![r] = FALSE]
          /\ Goto(r, "unlock")
          /\ UNCHANGED bounds
       \/ /\ Fault
          /\ Goto(r, "settle")
          /\ UNCHANGED <<bucket, orders, acquired>>
       \/ /\ Fault
          /\ CommitTx(r)
          /\ Goto(r, "settle")
          /\ UNCHANGED acquired
    /\ EndTx(r)
    /\ UNCHANGED <<counter, replica, opSeen, lockVars, attempt, seen, soldOut>>

-----------------------------------------------------------------------------
(* The deferred functions, last registered first.                          *)

\* Slip: every failure that is not a sold-out leaves the counter alone.
ReleasedNever == counter

\* ReleaseRedeem: INCR, which starts from zero when the key is gone.
Released == IF counter = NoValue THEN 1 ELSE counter + 1

\* A request that took from the counter and did not commit gives it back, or
\* sets the counter to zero if the database said "sold out".  The error of
\* either call is dropped.
Settle(r) ==
    /\ pc[r] = "settle"
    /\ \/ /\ counter' = IF ~acquired[r] THEN counter
                        ELSE IF soldOut[r] THEN 0
                        ELSE Released
          /\ UNCHANGED bounds
       \/ acquired[r] /\ Fault /\ UNCHANGED counter
    /\ acquired' = [acquired EXCEPT ![r] = FALSE]
    /\ Goto(r, "unlock")
    /\ UNCHANGED <<bucket, replica, orders, opSeen, lockVars,
                   took, attempt, seen, soldOut>>

ReleaseLock(r) ==
    /\ pc[r] = "unlock"
    /\ \/ Unlock(r) /\ UNCHANGED bounds
       \/ PopToken(r) /\ Fault /\ UNCHANGED redisLock
    /\ Goto(r, "end")
    /\ UNCHANGED <<bucket, counter, replica, orders, opSeen,
                   took, attempt, seen, acquired, soldOut>>

-----------------------------------------------------------------------------
(* The surroundings.                                                       *)

\* The requests of R stop where they are: open transactions roll back, what
\* they took from the counter stays taken.
Stop(R) ==
    /\ MayHappen /\ aborts < MaxAborts
    /\ aborts' = aborts + 1
    /\ pc' = [r \in Requests |-> IF r \in R THEN "end" ELSE pc[r]]
    /\ took' = [r \in Requests |-> IF r \in R THEN NoBucket ELSE took[r]]
    /\ acquired' = [r \in Requests |-> r \notin R /\ acquired[r]]
    /\ UNCHANGED <<bucket, counter, replica, orders, opSeen, attempt, seen,
                   soldOut, faults, expiries>>

\* The client goes away: ctx is cancelled, every later call of the request
\* fails, the deferred Redis calls included.
Cancel(r) ==
    /\ pc[r] \notin {"lock", "end"}
    /\ Stop({r})
    /\ PopToken(r)
    /\ UNCHANGED redisLock

\* A pod dies with all its requests.
Crash(p) ==
    /\ \E r \in Requests : PodOf[r] = p /\ pc[r] \notin {"lock", "end"}
    /\ Stop({r \in Requests : PodOf[r] = p /\ pc[r] # "lock"})
    /\ LoseTokens(p)

\* The TTL of a user's lock (10 s) runs out.
ExpireLock(u) ==
    /\ MayHappen /\ expiries < MaxExpiries
    /\ LockExpires(u)
    /\ expiries' = expiries + 1
    /\ UNCHANGED <<bucket, counter, replica, orders, opSeen, reqVars, faults, aborts>>

\* The TTL of the counter (redeemStockTTL) runs out, or Redis lost the key.
ExpireCounter ==
    /\ MayHappen /\ expiries < MaxExpiries
    /\ counter # NoValue
    /\ counter' = NoValue
    /\ expiries' = expiries + 1
    /\ UNCHANGED <<bucket, replica, orders, opSeen, reqVars, lockVars, faults, aborts>>

\* The replica catches up with the primary.
Replicate ==
    /\ replica # TotalStock
    /\ replica' = TotalStock
    /\ UNCHANGED <<bucket, counter, orders, opSeen, reqVars, lockVars, bounds>>

\* ReconcileItemRedeemStock (operator): read the total, set the counter.
ReconcileRead ==
    /\ opSeen = NoValue
    /\ opSeen' = replica
    /\ UNCHANGED <<bucket, counter, replica, orders, reqVars, lockVars, bounds>>

ReconcileSet ==
    /\ opSeen # NoValue
    /\ counter' = opSeen
    /\ opSeen' = NoValue
    /\ UNCHANGED <<bucket, replica, orders, reqVars, lockVars, bounds>>

-----------------------------------------------------------------------------
Redeem(r) ==
    \/ AcquireLock(r) \/ IsRedeemSoldOut(r) \/ FindItem(r) \/ TryAcquireRedeem(r)
    \/ CheckPoints(r) \/ DeductStock(r) \/ Commit(r) \/ Settle(r) \/ ReleaseLock(r)

Next ==
    \/ \E r \in Requests : Redeem(r) \/ Cancel(r)
    \/ \E p \in Pods : Crash(p)
    \/ \E u \in Users : ExpireLock(u)
    \/ ExpireCounter
    \/ Replicate
    \/ ReconcileRead \/ ReconcileSet

Spec == Init /\ [][Next]_vars

\* Requests that have begun run on: calls return, and the database grants a
\* row lock to a waiting transaction or breaks the circle it waits in.  That
\* some request moves is enough, for each takes finitely many steps.
FairSpec == Spec /\ WF_vars(\E r \in Requests : pc[r] # "lock" /\ Redeem(r))

-----------------------------------------------------------------------------
(* Properties.                                                             *)

TypeOK ==
    /\ LockTypeOK
    /\ bucket \in [Buckets -> Int]
    /\ took \in [Requests -> Buckets \cup {NoBucket}]
    /\ attempt \in [Requests -> 0 .. N]
    /\ counter \in Nat \cup {NoValue}
    /\ replica \in Int
    /\ seen \in [Requests -> Int \cup {NoValue}]
    /\ acquired \in [Requests -> BOOLEAN]
    /\ soldOut \in [Requests -> BOOLEAN]
    /\ pc \in [Requests -> Pc]
    /\ orders \subseteq Requests
    /\ opSeen \in Int \cup {NoValue}
    /\ faults \in Nat /\ expiries \in Nat /\ aborts \in Nat

\* Zero oversell: whatever the Redis layer lets through, the row locks keep
\* every bucket row at or above zero.
NoOversell == \A b \in Buckets : bucket[b] >= 0

\* The database says "sold out" only if no bucket can serve the request, even
\* though the buckets are tried one by one while other transactions commit and
\* roll back.  That includes the request the database fails to break a circle
\* of waits, if all requests are for one quantity: the rows the circle has
\* locked are then all rows, each too small.  (With different quantities such
\* a request is told "sold out" while a bucket behind another one's lock would
\* do: the false sold-out that the loop is there to avoid.)
SoldOutMeansNoBucketFits ==
    \A r \in Requests :
        /\ soldOut[r] /\ faults = 0
        /\ attempt[r] = N \/ \A s \in Requests : Qty[s] = Qty[r]
        => \A b \in Buckets : bucket[b] < Qty[r]

\* While no lock expires, the lock admits one request per user at a time, on
\* whatever pods the user's requests run.
OneRedeemPerUser ==
    expiries = 0 =>
        \A r, s \in Requests :
            /\ pc[r] \notin {"lock", "end"} /\ pc[s] \notin {"lock", "end"}
            /\ KeyOf[r] = KeyOf[s]
            => r = s

\* Some bucket can still serve a request.
StockOnSale == \E r \in Requests, b \in Buckets : bucket[b] >= Qty[r]

\* The Redis layer never hides stock: for requests of one quantity, and as long
\* as no call fails, no key expires and no request is cut off, the counter and
\* the requests that have taken from it cover the stock that is left for as
\* long as some bucket can serve a request, operators' reconciliations, stale
\* replica reads and circles of waiting transactions included.
CounterCoversStock ==
    /\ counter # NoValue
    /\ \A r, s \in Requests : Qty[r] = Qty[s]
    /\ faults = 0 /\ expiries = 0 /\ aborts = 0
    /\ StockOnSale
    => counter + Cardinality({r \in Requests : acquired[r]}) >= TotalStock

\* What the comment on IsRedeemSoldOut says: the counter is zero only when the
\* item is really sold out, no item on sale is turned away.
CounterZeroMeansSoldOut ==
    counter = 0 /\ (\A r \in Requests : ~acquired[r]) => TotalStock = 0

\* No request waits for ever for a row lock, though requests walk the rows from
\* different homes and keep the locks of the rows they have passed: every
\* request that has begun ends.
EveryRequestEnds ==
    <>[](\A r \in Requests : pc[r] \in {"lock", "end"})
=============================================================================
