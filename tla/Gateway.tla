------------------------------ MODULE Gateway ------------------------------
(***************************************************************************)
(* A request from its arrival at a pod to its answer: concurrency limit,     *)
(* breaker, the service with its cached row, and the report to the breaker,  *)
(* whose state in turn decides how the next request uses the caches          *)
(* (router/router.go wires the chain).                                       *)
(***************************************************************************)
EXTENDS UserAccounts

CONSTANT Deployments      \* the deployments, requests and fault budgets considered

UserOps == {"register", "login", "read", "profile", "points", "password", "bind", "none"}
ActivityOps == {"publish", "browse", "edit", "flip", "none"}

\* The path of a route, which names its breaker: profiles are read and changed
\* under one path.
Path(op) == IF op = "profile" THEN "read" ELSE op

\* The routes of the operators have no breaker (router.go).
AdminOps == {"publish", "edit"}

\* A user who is there has registered; activities have no password.
ASSUME DeployAssumption ==
    /\ HashOf \in [Requests -> Hashes \ {"pw"}]
    /\ \A q, r \in Requests : HashOf[q] = HashOf[r] => q = r
    /\ Hashes \cap (Requests \cup {"row", "miss", "none"}) = {}
    /\ Requests \cap {"row", "miss", "none"} = {}
    /\ Nobody \notin Pods /\ {"l2", "channel"} \cap Pods = {}
    /\ \A d \in Deployments :
          /\ d.pod \in [Requests -> Pods] /\ d.route \in [Requests -> Routes]
          /\ \A q, r \in {x \in Requests : d.op[x] \notin AdminOps \cup WorkerOps \cup {"none"}} :
                d.route[q] = d.route[r] <=> Path(d.op[q]) = Path(d.op[r])
          /\ \/ /\ d.key \in {"uid", "email"} /\ d.row \in {Absent, {"row", "pw"}}
                /\ d.op \in [Requests -> UserOps]
             \/ /\ d.key = "activity" /\ d.row \in {Absent, {"row"}}
                /\ d.op \in [Requests -> ActivityOps]
          /\ {d.l2, d.sender, d.readSkipL2, d.writeAsync, d.slaves} \subseteq BOOLEAN
          /\ d.budget \in 0 .. MaxFaults

vars == <<faultVars, degradeVars, breakerVars, cacheVars, accountVars>>

Route(r) == deploy.route[r]

\* Requests whose route has a breaker.
Guarded(r) == ~ Worker(r) /\ Op(r) \notin AdminOps

GatewayInit ==
    /\ deploy \in Deployments
    /\ row = deploy.row /\ replica = deploy.row
    /\ DegradeInit /\ BreakerInit /\ CacheInit /\ AccountInit
    /\ FaultInit(deploy.budget)

\* A change that has deleted the keys of the row.  Create does not, so the null entry that the
\* look-up of a Google login has left outlives the user it creates.
DeletesKeys(w) ==
    Invalidates(w) /\ rq[w].res # "kept" /\ ~ (Op(w) = "bind" /\ rq[w].got = Absent)

\* Changes finished on the pod: what a request that begins now may rely on.
Finished(p) == {w \in committed : rq[w].pc = "done" /\ Pod(w) = p /\ DeletesKeys(w)}

Begins(r, pc, typed) ==
    /\ rq[r].pc = "new"
    /\ rq' = [rq EXCEPT ![r].pc = pc, ![r].typed = typed,
                        ![r].old = typed \notin {"none", secret}]
    /\ began' = [began EXCEPT ![r] = Finished(Pod(r))]
    /\ UNCHANGED <<faultVars, degradeVars, epoch, odd, cacheVars, fails, history>>

\* The password that is typed: the current one, or the first.
Typeable(r) == IF Op(r) \in {"login", "password"} THEN {secret, "pw"} \ {"none"} ELSE {"none"}

\* The limit, then the breaker: nothing can come between them that matters.
Arrive(r) ==
    /\ ~ Worker(r)
    /\ TryAcquire(Pod(r))
    /\ IF Guarded(r) THEN Admit(Pod(r), r, Route(r)) ELSE UNCHANGED <<breakers, ticket>>
    /\ \E typed \in Typeable(r) : Begins(r, FirstStep(r), typed)

\* Answered with 503, by the one or the other.
TurnedAway(r) ==
    /\ ~ Worker(r)
    /\ slots[Pod(r)] >= Limit \/ (Guarded(r) /\ Refuses(Pod(r), Route(r)))
    /\ Begins(r, "done", "none")
    /\ UNCHANGED <<breakers, slots, ticket>>

WorkerBegins(r) ==
    /\ Worker(r)
    /\ Begins(r, FirstStep(r), "none")
    /\ UNCHANGED <<breakers, slots, ticket>>

Answers(r, ok) ==
    /\ rq[r].pc = "leave"
    /\ Does(r, "done")
    /\ IF Guarded(r) THEN Report(Pod(r), r, ok)
       ELSE /\ IF Worker(r) THEN UNCHANGED slots ELSE Release(Pod(r))
            /\ UNCHANGED <<degradeVars, breakers, epoch, ticket, odd>>

Leave(r) ==
    /\ Answers(r, rq[r].ok)
    /\ UNCHANGED <<faultVars, cacheVars, began, fails, history>>

\* A panic of a handler is a failure to the breaker; gin answers it with 500.
Panics(r) ==
    /\ Guarded(r)
    /\ Disturb
    /\ Answers(r, FALSE)
    /\ UNCHANGED <<cacheVars, began, fails, history>>

\* Steps of the row's caches leave the chain alone, and the other way round.
Inside(A) == A /\ UNCHANGED <<faultVars, degradeVars, breakerVars, began>>

\* A fill that lands with a copy without a committed change, which the row
\* has, behind the deletion that was to remove such copies; or a read of a
\* replica that lags.
OldCopyLands(w) ==
    LET p == Pod(w)
    IN /\ w \in row
       /\ \/ l1'[p] # l1[p] /\ l1'[p] # Miss /\ w \notin l1'[p] /\ rq[w].pc # "del1"
          \/ l2' # l2 /\ l2' # Miss /\ w \notin l2' /\ rq[w].pc \notin {"del1", "del2"}
          \/ flight[p].pc = "load" /\ flight'[p].pc = "fill2" /\ w \notin flight'[p].val
          \/ \E r \in Requests :
               /\ rq[r].pc = "direct" /\ Pod(r) = p
               /\ rq'[r].got # rq[r].got /\ w \notin rq'[r].got

Progress ==
    /\ \/ \E r \in Requests :
             Arrive(r) \/ TurnedAway(r) \/ WorkerBegins(r) \/ Leave(r)
       \/ \E r \in Requests : Inside(CacheStep(r))
       \/ \E p \in Pods : Inside(Answered(p))
       \/ \E p \in Pods : Inside(FlightStep(p) /\ UNCHANGED <<rq, fails, history>>)
       \/ \E w \in late : Inside(LateWrite(w) /\ UNCHANGED <<rq, fails, history>>)
       \/ \E p \in Pods : /\ StoreActive(p)
                          /\ UNCHANGED <<faultVars, breakerVars, cacheVars, rq, began, fails, history>>
    /\ raced' = raced \cup {w \in committed : OldCopyLands(w)}
    /\ lost' = lost \cup ((row \ row') \X (committed' \ committed))

Surroundings ==
    /\ \/ Inside(ExpireFailures) \/ \E p \in Pods : Inside(CleanupFailures(p))
       \/ Inside(((\E p \in Pods : ExpireL1(p)) \/ ExpireL2 \/ RedisAnswers \/ DatabaseAnswers \/ Replicate)
                 /\ UNCHANGED <<rq, fails, history>>)
       \/ /\ ExpireSource \/ RedisFails \/ DatabaseFails
          /\ UNCHANGED <<degradeVars, breakerVars, rq, began, fails, history>>
       \/ \E p \in Pods : Reload(p) /\ UNCHANGED <<cacheVars, rq, began, fails, history>>
       \/ \E r \in Requests : Panics(r)
    /\ UNCHANGED <<raced, lost>>

Next == Progress \/ Surroundings

\* The pods run on: a goroutine or request that can take a step takes one.
\* Nothing makes a database that hangs, or the replica, go on.
GatewaySpec == GatewayInit /\ [][Next]_vars /\ WF_vars(Progress)

-----------------------------------------------------------------------------
(* Properties.                                                             *)

\* The requests that write a whole row from a copy.
Overwrites(b) == Op(b) \in {"bind", "profile", "edit"}

\* A change, or a hash, that the row once had and a request has taken from it.
Undone(x) == \E b \in Requests : <<x, b>> \in lost

(* A request that begins on the pod where a change has finished, its keys    *)
(* deleted, works on a copy with the change, whatever it is: a read, a       *)
(* login, a purchase, or a request that will save the copy.  Unless a load   *)
(* that had read the row before the commit filled a cache behind the         *)
(* deletion (strategy.go:306-337), the request joined such a load, the       *)
(* replica lagged, the deletion in Redis failed, or a request that saves     *)
(* whole rows has undone the change.                                         *)
ReadsOwnPodsWrites ==
    \A r \in Requests :
        rq[r].got # Miss =>
            \A w \in began[r] :
                \/ w \in rq[r].got
                \/ w \in raced \/ rq[r].shared
                \/ "redis" \in harm
                \/ Undone(w)

(* A committed change is undone only by a request that saves the whole row   *)
(* from a copy without the change (GoogleOAuthLogin, UpdateProfile,          *)
(* UpdateFlashActivity), and which began before the change was finished on   *)
(* its pod, or was served a stale copy as above: a save never undoes what it *)
(* had to see.  The hash of the current password goes only with such a save  *)
(* of a cached copy, which has none (model/user.go, json:"-"), or together   *)
(* with the change that set it.                                              *)
UndoneOnlyByStaleSaves ==
    /\ \A w \in Requests : Undone(w) => \E b \in Requests :
          /\ <<w, b>> \in lost /\ Overwrites(b) /\ w \notin rq[b].got
          /\ w \in began[b] => w \in raced \/ rq[b].shared \/ "redis" \in harm
    /\ Undone(secret) => \E b \in Requests :
          /\ <<secret, b>> \in lost /\ Overwrites(b) /\ secret \notin rq[b].got
          /\ ~ rq[b].fresh \/ \E w \in Requests : HashOf[w] = secret /\ <<w, b>> \in lost

\* A request got in with the password it typed.
Accepted(r) == rq[r].res = "in" \/ (Op(r) = "password" /\ r \in committed)

(* The current password is refused only when a cached copy answered the      *)
(* login, which has no hash (auth_service.go:317, model/user.go), when a     *)
(* save has emptied the hash, or when the login joined a load that had read  *)
(* the row before.  A password that had been replaced when the login or the  *)
(* change of password began is accepted only after such a joining, or when a *)
(* save has undone the change that replaced it: no cache keeps a hash alive, *)
(* which user_repo.go:209 is about.  The account is locked only after a      *)
(* refusal under the same lock.                                              *)
PasswordsAreCurrent ==
    \A r \in Requests :
        /\ rq[r].res = "wrong" /\ rq[r].typed = secret =>
              ~ rq[r].fresh \/ rq[r].shared \/ Undone(secret)
        /\ rq[r].old /\ Accepted(r) =>
              rq[r].shared \/ \E w \in Requests : Op(w) = "password" /\ Undone(w)
        /\ rq[r].res = "locked" =>
              \E q \in Requests : rq[q].res = "wrong" /\ LockStore(q) = LockStore(r)

\* Stuck behind a database that does not answer, without a deadline: in a
\* worker, or in the loader of a singleflight call and with everybody who joins it.
HangsInDatabase(r) ==
    /\ db = "hangs"
    /\ \/ Worker(r) /\ rq[r].pc = "update"
       \/ rq[r].pc = "wait" /\ flight[Pod(r)].pc = "load"

(* Every request ends, and with it every singleflight call: nobody waits for *)
(* ever for the lock of the source, for a leader, a bcrypt slot or a breaker *)
(* -- except, while the database hangs, for a loader: the comment of         *)
(* strategy.go:196-203 has its context keep the deadline of the request, but *)
(* context.WithoutCancel drops that too, so leader and joiners wait as long  *)
(* as the database does.                                                     *)
EveryCallEnds == <>[](\A r \in Requests : rq[r].pc = "done" \/ HangsInDatabase(r))
=============================================================================
