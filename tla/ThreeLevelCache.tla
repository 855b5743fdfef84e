-------------------------- MODULE ThreeLevelCache --------------------------
(***************************************************************************)
(* cache/strategy.go for one key: a cache in every pod (L1), Redis (L2) and  *)
(* the row in the database.  A miss is loaded once per pod (singleflight)    *)
(* and once among pods (a lock in Redis); several of the writes into the     *)
(* caches run in goroutines of their own and land whenever they like.        *)
(*                                                                           *)
(* A row is the set of the changes it contains, so that a copy shows which   *)
(* changes it misses; no row is the empty set.  A user's row also contains   *)
(* the password hash, a field that is left out of the JSON form.             *)
(***************************************************************************)
EXTENDS HttpBreakers

CONSTANTS Nobody,
          HashOf      \* [Requests -> hash of the password the request sets]

VARIABLES row,        \* the row in the database
          replica,    \* the row in the replica
          l1,         \* [Pods -> entry]
          l2,         \* entry
          flight,     \* [Pods -> the singleflight call of the key]
          late,       \* writes into a cache on their way, in goroutines
          src,        \* holder of lock:source:<key>: a pod, or Nobody
          redis,      \* BOOLEAN: does it answer
          db,         \* "up", "fails" (every call, at once) or "hangs"
          deploy      \* the deployment and its configuration, fixed

cacheVars == <<row, replica, l1, l2, flight, late, src, redis, db, deploy>>

Miss == {"miss"}
Absent == {}

\* "pw" is the hash of the password the user has at the beginning.
Hashes == {"pw"} \cup {HashOf[r] : r \in Requests}

\* Slip: the hash is part of the JSON form.
EncodedWithHash(v) == v

\* The JSON form in L1 and L2 (model.User, json:"-"); null when there is no row.
Encoded(v) == v \ Hashes

NoFlight == [pc |-> "none", val |-> Absent, fillL2 |-> FALSE, ok |-> TRUE,
             fresh |-> FALSE, lead |-> Nobody]

CacheInit ==
    /\ l1 = [p \in Pods |-> Miss]
    /\ l2 = Miss
    /\ flight = [p \in Pods |-> NoFlight]
    /\ late = {}
    /\ src = Nobody
    /\ redis = TRUE /\ db = "up"

\* cache.degrade.read_skip_l2 and write_async, or an open breaker.
ReadDegraded(p) == deploy.readSkipL2 \/ IsActive(p)
WriteDegraded(p) == deploy.writeAsync \/ IsActive(p)

HasL2 == deploy.l2 /\ redis
L2Hit == HasL2 /\ l2 # Miss

\* Users are read from the master.  Activities are read from a replica
\* (RWDB.Read), or from the master while no replica is healthy.
HasReplica == deploy.key = "activity" /\ deploy.slaves
ReadRows == IF HasReplica THEN {replica, row} ELSE {row}

\* A write into a cache: to a pod's L1, to L2, or a message on the channel.
Write(to, val, by) == [to |-> to, val |-> val, by |-> by]

-----------------------------------------------------------------------------
(* The singleflight call of a pod.  Each operator is a step of the leader.  *)

Flies(p, f) == flight' = [flight EXCEPT ![p] = f]

Goes(p, pc) == Flies(p, [flight[p] EXCEPT !.pc = pc])

\* The result is known; the callers get it when the call has landed.
Ends(p, val, ok) == Flies(p, [flight[p] EXCEPT !.pc = "end", !.val = val, !.ok = ok])

Loads(p, fill) == Flies(p, [flight[p] EXCEPT !.pc = "load", !.fillL2 = fill])

\* sf.Do: the first caller starts the call, degraded reads load at once.
Do(p, r, degraded) ==
    IF flight[p].pc # "none" THEN UNCHANGED flight
    ELSE Flies(p, [NoFlight EXCEPT !.pc = IF degraded THEN "load" ELSE "check", !.lead = r])

\* sourceOnce: look again, before the lock is asked for.
CheckAgain(p) ==
    /\ flight[p].pc = "check"
    /\ IF l1[p] # Miss THEN Ends(p, l1[p], TRUE)
       ELSE IF L2Hit THEN Ends(p, l2, TRUE)
       ELSE IF deploy.l2 THEN Goes(p, "lock")
       ELSE Loads(p, FALSE)
    /\ UNCHANGED <<row, replica, l1, l2, late, src, redis, db, deploy>>

\* Redis down: no lock, and L2 is not filled.
SourceLock(p) ==
    /\ flight[p].pc = "lock"
    /\ IF ~ redis THEN Loads(p, FALSE) /\ UNCHANGED src
       ELSE IF src = Nobody THEN Loads(p, TRUE) /\ src' = p
       ELSE Goes(p, "spin") /\ UNCHANGED src
    /\ UNCHANGED <<row, replica, l1, l2, late, redis, db, deploy>>

\* Slip: the wait has no end.
SpinGivesUpNever(p) == FALSE /\ Loads(p, TRUE)

\* After lockSpinTimes rounds the pod loads without the lock.
SpinGivesUp(p) == Loads(p, TRUE)

SpinWaitSource(p) ==
    /\ flight[p].pc = "spin"
    /\ \/ l1[p] # Miss /\ Ends(p, l1[p], TRUE)
       \/ l1[p] = Miss /\ L2Hit /\ Ends(p, l2, TRUE)
       \/ l1[p] = Miss /\ ~ L2Hit /\ SpinGivesUp(p)
    /\ UNCHANGED <<row, replica, l1, l2, late, src, redis, db, deploy>>

\* loadAndFill, the loader.  Its context has no deadline (WithoutCancel), so
\* it hangs as long as the database does.
Load(p) ==
    /\ flight[p].pc = "load"
    /\ \/ /\ db = "up"
          /\ \E v \in ReadRows : Flies(p, [flight[p] EXCEPT !.pc = "fill2", !.val = v, !.fresh = TRUE])
       \/ db = "fails" /\ Ends(p, Absent, FALSE)
    /\ UNCHANGED <<row, replica, l1, l2, late, src, redis, db, deploy>>

\* No user is an untyped nil and goes to safeSetNull; no activity is a typed
\* nil pointer, and goes to fillCache as the value null.
FillsInline(v) == v # Absent \/ deploy.key = "activity"

\* fillCache writes L2 before it returns; safeSetNull starts goroutines.
FillL2(p) ==
    /\ flight[p].pc = "fill2"
    /\ Goes(p, "fill1")
    /\ LET f == flight[p]
       IN IF FillsInline(f.val)
          THEN /\ l2' = IF f.fillL2 /\ HasL2 THEN Encoded(f.val) ELSE l2
               /\ UNCHANGED late
          ELSE /\ late' = late \cup {Write(p, Absent, f.lead)}
                               \cup (IF f.fillL2 /\ deploy.l2 THEN {Write("l2", Absent, f.lead)} ELSE {})
               /\ UNCHANGED l2
    /\ UNCHANGED <<row, replica, l1, src, redis, db, deploy>>

FillL1(p) ==
    /\ flight[p].pc = "fill1"
    /\ Ends(p, flight[p].val, TRUE)
    /\ l1' = IF FillsInline(flight[p].val) THEN [l1 EXCEPT ![p] = Encoded(flight[p].val)] ELSE l1
    /\ UNCHANGED <<row, replica, l2, late, src, redis, db, deploy>>

\* Deferred Unlock, which compares the token, and the end of the call.
Landed(p) ==
    /\ flight[p].pc = "end"
    /\ src' = IF redis /\ src = p THEN Nobody ELSE src
    /\ Flies(p, NoFlight)
    /\ UNCHANGED <<row, replica, l1, l2, late, redis, db, deploy>>

-----------------------------------------------------------------------------
(* The goroutines.                                                          *)

\* Publish reaches the pods that are subscribed, if Redis answers; a pod then
\* drops its L1 entry.  An L2 write fails with Redis.
LateWrite(w) ==
    /\ w \in late
    /\ l1' = IF w.to \in Pods THEN [l1 EXCEPT ![w.to] = w.val] ELSE l1
    /\ l2' = IF w.to = "l2" /\ HasL2 THEN w.val ELSE l2
    /\ late' = (late \ {w}) \cup (IF w.to = "channel" /\ HasL2
                                  THEN {Write(p, Miss, w.by) : p \in Pods} ELSE {})
    /\ UNCHANGED <<row, replica, flight, src, redis, db, deploy>>

\* Slip: the copy of the pod itself is forgotten.
DeleteL1Skipped(p) == UNCHANGED l1

\* Delete of strategy.go, in two steps.  Its L2 error is dropped, and no other
\* pod hears of it.
DeleteL1(p) == l1' = [l1 EXCEPT ![p] = Miss]

DeleteL2 == l2' = IF HasL2 THEN Miss ELSE l2

\* Set of strategy.go: first deletion, then L2, the channel and the second
\* deletion; degraded, an event that no consumer handles, or L2 later.
SetStrategy(p, r, val) ==
    /\ l1' = [l1 EXCEPT ![p] = Miss]
    /\ IF WriteDegraded(p)
       THEN /\ late' = late \cup (IF deploy.sender \/ ~ deploy.l2 THEN {}
                                  ELSE {Write("l2", Encoded(val), r)})
            /\ UNCHANGED l2
       ELSE IF deploy.l2 /\ ~ redis THEN UNCHANGED <<l2, late>>
       ELSE /\ l2' = IF deploy.l2 THEN Encoded(val) ELSE l2
            /\ late' = late \cup {Write(p, Miss, r)}
                            \cup (IF deploy.l2 THEN {Write("channel", Miss, r)} ELSE {})

-----------------------------------------------------------------------------
(* TTLs and outages.                                                        *)

ExpireL1(p) ==
    /\ l1[p] # Miss
    /\ l1' = [l1 EXCEPT ![p] = Miss]
    /\ UNCHANGED <<row, replica, l2, flight, late, src, redis, db, deploy>>

ExpireL2 ==
    /\ l2 # Miss
    /\ l2' = Miss
    /\ UNCHANGED <<row, replica, l1, flight, late, src, redis, db, deploy>>

\* lock:source lives ten seconds; the loader may take longer.
ExpireSource ==
    /\ src # Nobody
    /\ Harm("lease")
    /\ src' = Nobody
    /\ UNCHANGED <<row, replica, l1, l2, flight, late, redis, db, deploy>>

RedisFails ==
    /\ redis /\ deploy.l2
    /\ Harm("redis")
    /\ redis' = FALSE
    /\ UNCHANGED <<row, replica, l1, l2, flight, late, src, db, deploy>>

RedisAnswers ==
    /\ ~ redis
    /\ redis' = TRUE
    /\ UNCHANGED <<row, replica, l1, l2, flight, late, src, db, deploy>>

DatabaseFails ==
    /\ db = "up"
    /\ Disturb
    /\ db' \in {"fails", "hangs"}
    /\ UNCHANGED <<row, replica, l1, l2, flight, late, src, redis, deploy>>

DatabaseAnswers ==
    /\ db # "up"
    /\ db' = "up"
    /\ UNCHANGED <<row, replica, l1, l2, flight, late, src, redis, deploy>>

\* The replica catches up, some time.
Replicate ==
    /\ HasReplica /\ replica # row
    /\ replica' = row
    /\ UNCHANGED <<row, l1, l2, flight, late, src, redis, db, deploy>>

FlightStep(p) ==
    \/ CheckAgain(p) \/ SourceLock(p) \/ SpinWaitSource(p)
    \/ Load(p) \/ FillL2(p) \/ FillL1(p)
=============================================================================
