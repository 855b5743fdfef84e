--------------------------- MODULE UserAccounts ---------------------------
(***************************************************************************)
(* The requests that read and write one cached row: register, login, change  *)
(* of password and of profile and Google login of service/auth and           *)
(* handler/user_handler over repository/user_repo, the points of the outbox  *)
(* worker, and the flash-sale activity of service/shop, which is cached in   *)
(* the same way.  deploy.key says which of the keys the row is cached under: *)
(* "uid", "email" or "activity".                                             *)
(***************************************************************************)
EXTENDS ThreeLevelCache

CONSTANTS MaxFailures,   \* security.account_lock.max_failures
          Cpus           \* bcrypt slots of a pod: the number of its cores

VARIABLES rq,            \* [Requests -> progress and result]
          fails,         \* account locks of the email: [Stores -> count and lock]
          \* History, which no step of the code reads.
          began,         \* [Requests -> changes finished on its pod before it began]
          committed,     \* requests whose change was committed
          secret,        \* hash of the password last set, or "none"
          raced,         \* changes a cache or a read has missed behind their deletions
          lost           \* what the row has lost again, with the request it was lost to

history == <<committed, secret>>

accountVars == <<rq, fails, began, committed, secret, raced, lost>>

Pod(r) == deploy.pod[r]
Op(r) == deploy.op[r]

\* The account lock is kept in Redis (Nobody's) or in the memory of each pod.
Stores == Pods \cup {Nobody}
LockStore(r) == IF deploy.l2 THEN Nobody ELSE Pod(r)
NoFailure == [count |-> 0, locked |-> FALSE]

AccountInit ==
    /\ rq = [r \in Requests |-> [pc |-> IF deploy.op[r] = "none" THEN "done" ELSE "new",
                                 got |-> Miss, fresh |-> FALSE, shared |-> FALSE, ok |-> TRUE,
                                 typed |-> "none", old |-> FALSE, res |-> "none"]]
    /\ began = [r \in Requests |-> {}]
    /\ committed = {} /\ raced = {} /\ lost = {}
    /\ secret = IF "pw" \in row THEN "pw" ELSE "none"
    /\ fails = [s \in Stores |-> NoFailure]

Does(r, pc) == rq' = [rq EXCEPT ![r].pc = pc]

Gets(r, v, fresh, pc) == rq' = [rq EXCEPT ![r].got = v, ![r].fresh = fresh, ![r].pc = pc]

\* The outbox worker and the ticker of the flash sales call the repositories
\* without the chain, and without the deadline of a request.
WorkerOps == {"points", "flip"}
Worker(r) == Op(r) \in WorkerOps

\* A statement comes back with an error.  The handlers answer it with 200 or 400.
Errs(r) == db = "fails" \/ (db = "hangs" /\ ~ Worker(r))

GivesUp(r) == Errs(r) /\ Does(r, "leave")

\* The look-up goes by the key that is not modelled.
ByOtherKey(r) ==
    \/ deploy.key = "email" /\ Op(r) \in {"read", "password", "profile"}
    \/ deploy.key = "uid" /\ Op(r) \in {"register", "login", "bind"}

\* What a request does first, and what with the copy it got.
FirstStep(r) ==
    CASE Worker(r) -> "update"
      [] Op(r) = "publish" -> "insert"
      [] Op(r) = "edit" \/ (Op(r) = "browse" /\ ~ deploy.l2) -> "direct"
      [] ByOtherKey(r) -> "other"
      [] OTHER -> "get"

NextStep(r, v) ==
    CASE Op(r) \in {"register", "bind"} /\ v = Absent -> "insert"
      [] Op(r) \in {"bind", "edit", "profile"} /\ v # Absent -> "save"
      [] Op(r) = "password" /\ v # Absent -> "acquire"
      [] Op(r) = "login" -> "verify"
      [] OTHER -> "leave"

\* Every user write but the points one deletes both keys of the row.  The
\* ticker deletes the key of the list only.
Invalidates(r) ==
    Op(r) \in {"password", "bind", "profile", "edit"} \/ (Op(r) = "points" /\ deploy.key = "uid")

-----------------------------------------------------------------------------
(* Get of strategy.go, up to the singleflight call.                         *)

GetL1(r) ==
    /\ rq[r].pc = "get"
    /\ LET p == Pod(r)
       IN IF l1[p] # Miss
          THEN Gets(r, l1[p], FALSE, IF Op(r) = "browse" /\ l1[p] = Absent THEN "direct"
                                     ELSE NextStep(r, l1[p]))
          ELSE Does(r, IF ReadDegraded(p) THEN "joinDegraded"
                       ELSE IF deploy.l2 THEN "get2" ELSE "join")
    /\ UNCHANGED <<cacheVars, fails, history>>

\* A hit fills L1 in a goroutine.  The bloom filter is asked on a miss, and
\* its answer is not used.
GetL2(r) ==
    /\ rq[r].pc = "get2"
    /\ IF L2Hit
       THEN /\ Gets(r, l2, FALSE, IF Op(r) = "browse" /\ l2 = Absent THEN "direct"
                                  ELSE NextStep(r, l2))
            /\ late' = late \cup {Write(Pod(r), l2, r)}
       ELSE Does(r, "join") /\ UNCHANGED late
    /\ UNCHANGED <<row, replica, l1, l2, flight, src, redis, db, deploy, fails, history>>

JoinFlight(r) ==
    /\ rq[r].pc \in {"join", "joinDegraded"}
    /\ Do(Pod(r), r, rq[r].pc = "joinDegraded")
    /\ rq' = [rq EXCEPT ![r].pc = "wait",
                        ![r].shared = flight[Pod(r)].pc \in {"fill2", "fill1", "end"}]
    /\ UNCHANGED <<row, replica, l1, l2, late, src, redis, db, deploy, fails, history>>

\* The call has landed: its callers go on, after an error with a query of
\* their own.
Answered(p) ==
    /\ Landed(p)
    /\ LET f == flight[p]
           Waits(r) == rq[r].pc = "wait" /\ Pod(r) = p
       IN rq' = [r \in Requests |->
                    IF ~ Waits(r) THEN rq[r]
                    ELSE IF ~ f.ok \/ (Op(r) = "browse" /\ f.val = Absent)
                         THEN [rq[r] EXCEPT !.pc = "direct"]
                    ELSE [rq[r] EXCEPT !.got = f.val, !.fresh = f.fresh,
                                       !.pc = NextStep(r, f.val)]]
    /\ UNCHANGED <<fails, history>>

DirectRead(r) ==
    /\ rq[r].pc = "direct"
    /\ \/ db = "up" /\ \E v \in ReadRows : Gets(r, v, TRUE, NextStep(r, v))
       \/ GivesUp(r)
    /\ UNCHANGED <<cacheVars, fails, history>>

\* FindByID of a row cached under the email, or FindByEmail: from a cache of
\* that other key, which is taken to be up to date, or from the database.
OtherKeyRead(r) ==
    /\ rq[r].pc = "other"
    /\ \/ Gets(r, Encoded(row), FALSE, NextStep(r, row))
       \/ db = "up" /\ Gets(r, row, TRUE, NextStep(r, row))
       \/ GivesUp(r)
    /\ UNCHANGED <<cacheVars, fails, history>>

-----------------------------------------------------------------------------
(* The writes.                                                              *)

CacheUnchanged == UNCHANGED <<replica, l1, l2, flight, late, src, redis, db, deploy>>

\* The row is written.  Without an answer the caller takes it for an error and
\* leaves the keys alone.
Commits(r, new, pc) ==
    /\ row' = new
    /\ committed' = committed \cup {r}
    /\ secret' = IF Op(r) \in {"register", "password"} THEN HashOf[r] ELSE secret
    /\ \/ db = "up" /\ Does(r, pc)
       \/ Errs(r) /\ rq' = [rq EXCEPT ![r].res = "kept", ![r].pc = "leave"]

\* createUserWithRetry, or Create: the unique index on the email decides.  A
\* new user leaves the caches alone; a new activity is put into them.
Insert(r) ==
    /\ rq[r].pc = "insert"
    /\ \/ /\ row = Absent
          /\ Commits(r, {"row", r} \cup (IF Op(r) = "register" THEN {HashOf[r]} ELSE {}),
                     IF Op(r) = "publish" THEN "set" ELSE "leave")
       \/ /\ (db = "up" /\ row # Absent /\ Does(r, "leave")) \/ GivesUp(r)
          /\ UNCHANGED <<row, history>>
    /\ CacheUnchanged /\ UNCHANGED fails

\* ChangePassword: one bcrypt slot, at once or never, until it returns.  A busy
\* pod is the only error of a service that is answered with a 5xx.
Hashing(p) ==
    {q \in Requests : /\ Op(q) = "password" /\ Pod(q) = p
                      /\ rq[q].pc \in {"old", "update", "lookup", "del1", "del2"}}

AcquireBcrypt(r) ==
    /\ rq[r].pc = "acquire"
    /\ IF Cardinality(Hashing(Pod(r))) < Cpus THEN Does(r, "old")
       ELSE rq' = [rq EXCEPT ![r].ok = FALSE, ![r].pc = "leave"]
    /\ UNCHANGED <<cacheVars, fails, history>>

CompareOld(r) ==
    /\ rq[r].pc = "old"
    /\ Does(r, IF rq[r].typed \in rq[r].got THEN "update" ELSE "leave")
    /\ UNCHANGED <<cacheVars, fails, history>>

\* Slip: the pod's cached copy is changed and written back.
UpdatedFromCopy(r) ==
    LET v == IF l1[Pod(r)] \in {Miss, Absent} THEN row ELSE l1[Pod(r)]
    IN (IF Op(r) = "password" THEN (v \ Hashes) \cup {HashOf[r]} ELSE v) \cup {r}

\* UpdatePoints, UpdatePassword and TransitionStaleStatuses change their
\* columns in one statement.
Updated(r) ==
    (IF Op(r) = "password" THEN (row \ Hashes) \cup {HashOf[r]} ELSE row) \cup {r}

\* The keys are deleted after the commit.  UpdatePassword has to look up the
\* email for its key.
AfterWrite(r) ==
    IF ~ Invalidates(r) THEN "leave"
    ELSE IF Op(r) = "password" /\ deploy.key = "email" THEN "lookup"
    ELSE "del1"

Update(r) ==
    /\ rq[r].pc = "update"
    /\ \/ row # Absent /\ Commits(r, Updated(r), AfterWrite(r))
       \/ /\ (db = "up" /\ row = Absent /\ Does(r, "leave")) \/ GivesUp(r)
          /\ UNCHANGED <<row, history>>
    /\ CacheUnchanged /\ UNCHANGED fails

\* An error is dropped, and the key of the email stays.
LookupEmail(r) ==
    /\ rq[r].pc = "lookup"
    /\ \/ db = "up" /\ Does(r, "del1")
       \/ Errs(r) /\ rq' = [rq EXCEPT ![r].res = "kept", ![r].pc = "leave"]
    /\ UNCHANGED <<cacheVars, fails, history>>

\* Save, and UpdateActivity, write every column of the copy the request holds.
Save(r) ==
    /\ rq[r].pc = "save"
    /\ \/ Commits(r, rq[r].got \cup {r}, AfterWrite(r))
       \/ GivesUp(r) /\ UNCHANGED <<row, history>>
    /\ CacheUnchanged /\ UNCHANGED fails

DeleteKeys(r) ==
    \/ /\ rq[r].pc = "del1"
       /\ DeleteL1(Pod(r))
       /\ Does(r, "del2")
       /\ UNCHANGED <<row, replica, l2, flight, late, src, redis, db, deploy, fails, history>>
    \/ /\ rq[r].pc = "del2"
       /\ DeleteL2
       /\ Does(r, "leave")
       /\ UNCHANGED <<row, replica, l1, flight, late, src, redis, db, deploy, fails, history>>

\* CreateFlashActivity: Set with the activity just created.
SetCache(r) ==
    /\ rq[r].pc = "set"
    /\ SetStrategy(Pod(r), r, {"row", r})
    /\ Does(r, "leave")
    /\ UNCHANGED <<row, replica, flight, src, redis, db, deploy, fails, history>>

-----------------------------------------------------------------------------
(* Login, once the user has been looked up.                                  *)

\* A store that does not answer has nothing to say.
StoreAnswers == deploy.l2 => redis

IsAccountLocked(r) == StoreAnswers /\ fails[LockStore(r)].locked

\* recordFailureScript, or the store of the pod: count and lock in one step.
RecordFailure(s) ==
    LET n == fails[s].count + 1
    IN [fails EXCEPT ![s] = [count |-> n, locked |-> @.locked \/ n >= MaxFailures]]

ClearFailures(s) == [fails EXCEPT ![s] = NoFailure]

LoginEnds(r, res) == rq' = [rq EXCEPT ![r].res = res, ![r].pc = "leave"]

\* An unknown user, a locked account, or on to the comparison.
CheckLock(r) ==
    /\ rq[r].pc = "verify"
    /\ IF rq[r].got = Absent THEN LoginEnds(r, "unknown")
       ELSE IF IsAccountLocked(r) THEN LoginEnds(r, "locked")
       ELSE Does(r, "compare")
    /\ UNCHANGED <<cacheVars, fails, history>>

\* The comparison with the hash of the copy.  An error of the store is dropped.
Compare(r) ==
    /\ rq[r].pc = "compare"
    /\ IF rq[r].typed \in rq[r].got
       THEN /\ LoginEnds(r, "in")
            /\ fails' = IF StoreAnswers THEN ClearFailures(LockStore(r)) ELSE fails
       ELSE /\ LoginEnds(r, "wrong")
            /\ fails' = IF StoreAnswers THEN RecordFailure(LockStore(r)) ELSE fails
    /\ UNCHANGED <<cacheVars, history>>

\* The TTL of the key: of the counter, then of the lock.
ExpireFailures ==
    /\ fails[Nobody] # NoFailure
    /\ fails' = ClearFailures(Nobody)
    /\ UNCHANGED <<cacheVars, rq, history>>

\* In memory the lock ends by the clock, and the count stays until cleanup.
CleanupFailures(p) ==
    /\ fails[p] # NoFailure
    /\ fails' = IF fails[p].locked THEN [fails EXCEPT ![p].locked = FALSE] ELSE ClearFailures(p)
    /\ UNCHANGED <<cacheVars, rq, history>>

CacheStep(r) ==
    \/ GetL1(r) \/ GetL2(r) \/ JoinFlight(r) \/ DirectRead(r) \/ OtherKeyRead(r)
    \/ Insert(r) \/ AcquireBcrypt(r) \/ CompareOld(r) \/ Update(r) \/ LookupEmail(r)
    \/ Save(r) \/ DeleteKeys(r) \/ SetCache(r)
    \/ CheckLock(r) \/ Compare(r)
=============================================================================
