----------------------------- MODULE IdleSession -----------------------------
(***************************************************************************)
(* The life of idle sessions: Start, Heartbeat, Stop and StopDevice of       *)
(* idle_service.go, the scan for dead sessions, the keyspace events, the     *)
(* backfill of the active set and the heartbeat flusher, over the rows and   *)
(* Redis keys of idle_repo.go.  What settling pays is module IdleSettle.     *)
(*                                                                           *)
(* An actor is a request, the scanner of a pod or the event handler of a pod.*)
(* One action is one SQL statement, transaction or Redis command.  Replicas, *)
(* the 30 s caches of all pods and the answers they give are one set: a read *)
(* returns what the row holds or what it held a short while ago.  That while *)
(* is shorter than the grace of a new session, and the grace shorter than a  *)
(* heartbeat key lives (30 s, 2 * 30 s and 90 s in the configuration).       *)
(***************************************************************************)
EXTENDS ScanSharding

CONSTANTS Devices,    \* the devices of one user
          NoDevice,   \* none
          UserShard,  \* sessionSetShard of that user
          MaxDevices, \* maxDevices
          Calls,      \* requests
          Op, DevOf,  \* what a request does and to which device
          MaxRecs     \* bound: idle_records

ASSUME SessionAssumption ==
    /\ UserShard \in Shards /\ IsFiniteSet(Devices) /\ NoDevice \notin Devices
    /\ MaxDevices \in Nat \ {0}
    /\ Op \in [Calls -> {"start", "beat", "stop", "stop device"}]
    /\ DevOf \in [Calls -> Devices]
    /\ MaxRecs \in Nat

VARIABLES active,    \* id of the active record of a device, 0 if there is none
          recs,      \* records so far
          recent,    \* values of active[d] a read may still return
          hb,        \* devices whose heartbeat key is set, or whose last_heartbeat_at is fresh
          listed,    \* members of the active set
          inbox,     \* expired events a pod has not handled
          locked,    \* idle:settle-lock:<user>:<device>
          pending,   \* heartbeats in the flusher of the pods
          pc, at,    \* where an actor is, and with which device
          work,      \* records it has to settle
          snap,      \* records there were when a Start counted the devices
          unlisted,  \* ghost: devices whose active session was taken off the set, or not put there
          raced      \* ghost: a Start counted while another one created, or counted what was not

rowVars == <<active, recs, recent>>
keyVars == <<hb, listed, inbox, locked, pending>>
actorVars == <<pc, at, work, snap>>
sessionVars == <<rowVars, keyVars, actorVars, unlisted, raced>>
clusterVars == <<leaderVars, shardVars>>

Scanner(p) == <<"scan", p>>
Handler(p) == <<"event", p>>
Actors == Calls \cup {Scanner(p) : p \in Pods} \cup {Handler(p) : p \in Pods}

ASSUME ActorAssumption == \A p \in Pods : Scanner(p) \notin Calls /\ Handler(p) \notin Calls

SessionTypeOK ==
    /\ active \in [Devices -> 0 .. MaxRecs]
    /\ recs \in 0 .. MaxRecs
    /\ recent \in [Devices -> SUBSET (0 .. MaxRecs)]
    /\ hb \subseteq Devices /\ listed \subseteq Devices /\ pending \subseteq Devices
    /\ inbox \in [Pods -> SUBSET Devices]
    /\ locked \in [Devices -> Pods \cup {NoPod}]
    /\ DOMAIN pc = Actors /\ at \in [Actors -> Devices \cup {NoDevice}]
    /\ \A a \in Actors : work[a] \subseteq Devices \X (1 .. MaxRecs)
    /\ snap \in [Actors -> 0 .. MaxRecs]

\* Sessions that were started and have gone on for a while.
SessionInit(started, requests) ==
    /\ \E f \in [Devices -> 0 .. Cardinality(started)] :
          /\ {f[d] : d \in started} = 1 .. Cardinality(started)
          /\ \A d \in Devices \ started : f[d] = 0
          /\ active = f
    /\ recs = Cardinality(started)
    /\ recent = [d \in Devices |-> {}]
    /\ hb = started /\ listed = IF conf.redis THEN started ELSE {}
    /\ inbox = [p \in Pods |-> {}]
    /\ locked = [d \in Devices |-> NoPod]
    /\ pending = {}
    /\ pc = [a \in Actors |-> IF a \in requests THEN Op[a] ELSE "idle"]
    /\ at = [a \in Actors |-> IF a \in Calls THEN DevOf[a] ELSE NoDevice]
    /\ work = [a \in Actors |-> {}]
    /\ snap = [a \in Actors |-> 0]
    /\ unlisted = {} /\ raced = FALSE

Goto(a, to) == pc' = [pc EXCEPT ![a] = to]

\* What a read of the active record of a device may return.
Reads(d) == {active[d]} \cup recent[d]

\* The row changes; the old value may still be read.
SetActive(d, id) ==
    /\ active' = [active EXCEPT ![d] = id]
    /\ recent' = [recent EXCEPT ![d] = @ \cup {active[d]}]

\* Replicas and caches have caught up and the grace of a session is over.
Settles(d) ==
    /\ recent[d] # {}
    /\ recent' = [recent EXCEPT ![d] = {}]
    /\ UNCHANGED <<active, recs, keyVars, actorVars, unlisted, raced, clusterVars, faultVars>>

\* Within the grace window of a session that has just started.
Young(d) == 0 \in recent[d]

-----------------------------------------------------------------------------
(* The steps the operations are made of.                                     *)

\* FindActiveByDevice: where the actor goes on after an error, without a record, and with one
\* within and after its grace.
FindActiveByDevice(a, onError, onNone, onYoung, onFound) ==
    /\ \/ \E id \in Reads(at[a]) :
             LET to == IF id = 0 THEN onNone
                       ELSE IF Young(at[a]) /\ id = active[at[a]] THEN onYoung ELSE onFound
             IN  /\ work' = [work EXCEPT ![a] = IF to = "settle" THEN {<<at[a], id>>} ELSE {}]
                 /\ Goto(a, to)
                 /\ UNCHANGED faultVars
       \/ Disturb /\ Goto(a, onError) /\ UNCHANGED work
    /\ UNCHANGED <<rowVars, keyVars, at, snap, unlisted, raced, clusterVars>>

\* A query that fails ends the request.
Fails(c) ==
    /\ Disturb
    /\ Goto(c, "end")
    /\ UNCHANGED <<rowVars, keyVars, at, work, snap, unlisted, raced, clusterVars>>

\* FindActiveAll.
FindActiveAll(f) == f \in [Devices -> 0 .. MaxRecs] /\ \A d \in Devices : f[d] \in Reads(d)

\* TouchHeartbeat: the Redis key; without Redis the row of an active session, at once or
\* when the flusher gets to it.
Touched(d) ==
    IF conf.redis \/ (~conf.persists /\ active[d] # 0) THEN hb \cup {d} ELSE hb
Recorded(d) == IF conf.persists THEN pending \cup {d} ELSE pending

Listed(d) == IF conf.redis THEN listed \cup {d} ELSE listed

\* Where an actor goes when its work is done.
AfterWork(a) ==
    IF a \notin Calls THEN "unlock" ELSE IF Op[a] = "start" THEN "create" ELSE "end"

\* settleSession for the oldest record of the work: the mark succeeds only on the active row.
\* A session without points is closed and nothing else; one with points goes on to
\* finalizeSettlement; an error ends a request.
SettleSession(a) ==
    /\ pc[a] = "settle" /\ work[a] # {}
    /\ LET w == CHOOSE w \in work[a] : \A v \in work[a] : w[2] <= v[2]
           d == w[1]
       IN  \/ /\ active[d] = w[2]
              /\ SetActive(d, 0)
              /\ \/ Goto(a, "delete key") /\ at' = [at EXCEPT ![a] = d] /\ UNCHANGED work
                 \/ UNCHANGED <<pc, at>> /\ work' = [work EXCEPT ![a] = @ \ {w}]
              /\ unlisted' = unlisted \ {d}
              /\ UNCHANGED faultVars
           \/ /\ active[d] # w[2]
              /\ work' = [work EXCEPT ![a] = @ \ {w}]
              /\ UNCHANGED <<active, recent, pc, at, unlisted, faultVars>>
           \/ /\ Disturb
              /\ work' = [work EXCEPT ![a] = {}]
              /\ Goto(a, IF a \in Calls THEN "end" ELSE "unlock")
              /\ UNCHANGED <<active, recent, at, unlisted>>
    /\ UNCHANGED <<recs, keyVars, snap, raced, clusterVars>>

\* All of the work is done.
SettledAll(a) ==
    /\ pc[a] = "settle" /\ work[a] = {}
    /\ Goto(a, AfterWork(a))
    /\ UNCHANGED <<rowVars, keyVars, at, work, snap, unlisted, raced, clusterVars, faultVars>>

\* DeleteHeartbeat of finalizeSettlement and of the handler's clean-up.
DeleteHeartbeat(a) ==
    /\ pc[a] = "delete key"
    /\ hb' = IF conf.redis THEN hb \ {at[a]} ELSE hb
    /\ Goto(a, "unlist")
    /\ UNCHANGED <<rowVars, listed, inbox, locked, pending, at, work, snap, unlisted, raced,
                   clusterVars, faultVars>>

\* RemoveActiveSession, by user and device: it takes a newer session off the set too.  A
\* request goes on with its own device.
RemoveActiveSession(a) ==
    /\ pc[a] = "unlist"
    /\ listed' = listed \ {at[a]}
    /\ unlisted' = IF active[at[a]] # 0 THEN unlisted \cup {at[a]} ELSE unlisted
    /\ work' = [work EXCEPT ![a] = {w \in @ : w[1] # at[a]}]
    /\ at' = [at EXCEPT ![a] = IF a \in Calls THEN DevOf[a] ELSE @]
    /\ Goto(a, IF a \in Calls THEN "settle" ELSE "unlock")
    /\ UNCHANGED <<rowVars, hb, inbox, locked, pending, snap, raced, clusterVars, faultVars>>

-----------------------------------------------------------------------------
(* Requests.                                                                 *)

\* Start: a session of the device that is there already is returned.
StartCheck(c) ==
    /\ pc[c] = "start"
    /\ FindActiveByDevice(c, "end", "count", "end", "end")

\* Slip: a full house is not full.
FullOffByOne(n) == n > MaxDevices

\* evictOldestIfFull: len(allActive) >= maxDev.
Full(n) == n >= MaxDevices

\* evictOldestIfFull settles one session, the oldest it reads.
EvictOldestIfFull(c) ==
    /\ pc[c] = "count"
    /\ \/ /\ \E f \in [Devices -> 0 .. MaxRecs] :
                /\ FindActiveAll(f)
                /\ LET found == {<<d, f[d]>> : d \in {e \in Devices : f[e] # 0}}
                   IN  work' = [work EXCEPT ![c] =
                                  IF Full(Cardinality(found))
                                  THEN {w \in found : \A v \in found : w[2] <= v[2]} ELSE {}]
                /\ raced' = (raced \/ f # active)
          /\ snap' = [snap EXCEPT ![c] = recs]
          /\ Goto(c, "settle")
          /\ UNCHANGED <<rowVars, keyVars, at, unlisted, clusterVars, faultVars>>
       \/ Fails(c)

\* EnsureUniqueIndex: one active record of a user and device.
Conflicts(d) == active[d] # 0

\* Create: INSERT ... ON CONFLICT DO NOTHING, the time of the start as that of the last
\* heartbeat.  After a conflict, and after an error even if
\* the row was written, the session is looked up again.
Create(c) ==
    /\ pc[c] = "create"
    /\ \/ /\ ~Conflicts(at[c]) /\ recs < MaxRecs
          /\ recs' = recs + 1
          /\ SetActive(at[c], recs')
          /\ raced' = (raced \/ recs # snap[c])
          /\ unlisted' = unlisted \cup (IF conf.redis THEN {at[c]} ELSE {})
          /\ hb' = IF conf.redis THEN hb ELSE hb \cup {at[c]}
          /\ \/ Goto(c, "touch") /\ UNCHANGED faultVars
             \/ Goto(c, "find again") /\ Disturb
       \/ /\ Conflicts(at[c])
          /\ Goto(c, "find again")
          /\ UNCHANGED <<rowVars, hb, raced, unlisted, faultVars>>
    /\ snap' = [snap EXCEPT ![c] = 0]
    /\ UNCHANGED <<listed, inbox, locked, pending, at, work, clusterVars>>

\* The existing session is what Start returns, or its error.
FindAgain(c) ==
    /\ pc[c] = "find again"
    /\ FindActiveByDevice(c, "end", "end", "touch", "touch")

\* TouchHeartbeat of Start; its error is dropped.
TouchFirst(c) ==
    /\ pc[c] = "touch"
    /\ \/ hb' = Touched(at[c]) /\ UNCHANGED faultVars
       \/ hb' = hb /\ Disturb
    /\ Goto(c, "list")
    /\ UNCHANGED <<rowVars, listed, inbox, locked, pending, at, work, snap, unlisted, raced,
                   clusterVars>>

\* Slip: a session is listed when it sends its first heartbeat.
AddActiveSessionLater(c) == listed' = listed /\ unlisted' = unlisted \ {at[c]}

\* SADD.
AddActiveSession(c) == listed' = Listed(at[c]) /\ unlisted' = unlisted \ {at[c]}

\* AddActiveSession of Start; its error is dropped.
ListSession(c) ==
    /\ pc[c] = "list"
    /\ \/ AddActiveSession(c) /\ UNCHANGED faultVars
       \/ UNCHANGED <<listed, unlisted>> /\ Disturb
    /\ Goto(c, "end")
    /\ UNCHANGED <<rowVars, hb, inbox, locked, pending, at, work, snap, raced, clusterVars>>

IsHeartbeatAlive(d) == conf.redis /\ d \in hb

\* Heartbeat: a key that is there is enough.
Heartbeat(c) ==
    /\ pc[c] = "beat"
    /\ \/ Goto(c, IF IsHeartbeatAlive(at[c]) THEN "renew" ELSE "confirm") /\ UNCHANGED faultVars
       \/ Goto(c, "confirm") /\ Disturb
    /\ UNCHANGED <<rowVars, keyVars, at, work, snap, unlisted, raced, clusterVars>>

\* Otherwise the session is looked up.
ConfirmActive(c) ==
    /\ pc[c] = "confirm"
    /\ FindActiveByDevice(c, "end", "end", "renew", "renew")

\* TouchHeartbeat and Record.  The active set is not touched.
TouchHeartbeat(c) ==
    /\ pc[c] = "renew"
    /\ \/ hb' = Touched(at[c]) /\ pending' = Recorded(at[c]) /\ UNCHANGED faultVars
       \/ UNCHANGED <<hb, pending>> /\ Disturb
    /\ Goto(c, "end")
    /\ UNCHANGED <<rowVars, listed, inbox, locked, at, work, snap, unlisted, raced, clusterVars>>

\* Stop settles what it reads, one after the other.
Stop(c) ==
    /\ pc[c] = "stop"
    /\ \/ /\ \E f \in [Devices -> 0 .. MaxRecs] :
                /\ FindActiveAll(f)
                /\ work' = [work EXCEPT ![c] = {<<d, f[d]>> : d \in {e \in Devices : f[e] # 0}}]
          /\ Goto(c, "settle")
          /\ UNCHANGED <<rowVars, keyVars, at, snap, unlisted, raced, clusterVars, faultVars>>
       \/ Fails(c)

StopDevice(c) ==
    /\ pc[c] = "stop device"
    /\ FindActiveByDevice(c, "end", "end", "settle", "settle")

\* The pod dies under a request, or its context is cancelled.
CutOff(c) ==
    /\ pc[c] # "end"
    /\ Disturb
    /\ Goto(c, "end")
    /\ UNCHANGED <<rowVars, keyVars, at, work, snap, unlisted, raced, clusterVars>>

-----------------------------------------------------------------------------
(* The scanner.                                                              *)

\* collectDeadSessions: the heartbeat key is missing.
Dead(d) == d \notin hb

\* The members of the shards a pod scans.
ScanActiveSessions(p) == IF conf.redis /\ UserShard \in Scans(p) THEN listed ELSE {}

\* Without Redis: the records a replica shows as active, whatever the shard.
FindStaleActive(p, d) == IF ~conf.redis /\ Scans(p) # {} THEN Reads(d) \ {0} ELSE {}

\* One member or record of a scan that has no heartbeat.
ScanTimeout(p) ==
    /\ phase[p] = "up" /\ pc[Scanner(p)] = "idle"
    /\ \E d \in Devices :
          /\ Dead(d)
          /\ at' = [at EXCEPT ![Scanner(p)] = d]
          /\ \/ /\ d \in ScanActiveSessions(p)
                /\ Goto(Scanner(p), "look up") /\ UNCHANGED work
             \/ /\ \E id \in FindStaleActive(p, d) :
                      work' = [work EXCEPT ![Scanner(p)] = {<<d, id>>}]
                /\ Goto(Scanner(p), "settle")
    /\ UNCHANGED <<rowVars, keyVars, snap, unlisted, raced, clusterVars, faultVars>>

\* settleDeadSessions: no record or an error takes the member off the set, a young session is
\* left alone.
SettleDeadSession(p) ==
    /\ pc[Scanner(p)] = "look up"
    /\ FindActiveByDevice(Scanner(p), "unlist", "unlist", "unlock", "settle")

\* The worker is free again.
ScanDone(p) ==
    /\ pc[Scanner(p)] = "unlock"
    /\ Goto(Scanner(p), "idle")
    /\ at' = [at EXCEPT ![Scanner(p)] = NoDevice]
    /\ UNCHANGED <<rowVars, keyVars, work, snap, unlisted, raced, clusterVars, faultVars>>

-----------------------------------------------------------------------------
(* Keyspace events.                                                          *)

\* A device is silent for as long as the key lives; every pod that listens hears of it, or,
\* at worst, none.  Without Redis the time of the last heartbeat just gets old.
HeartbeatExpires(d) ==
    /\ d \in hb /\ ~Young(d)
    /\ hb' = hb \ {d}
    /\ \/ /\ inbox' = [p \in Pods |-> IF conf.redis /\ conf.evented /\ phase[p] = "up"
                                      THEN inbox[p] \cup {d} ELSE inbox[p]]
          /\ UNCHANGED faultVars
       \/ UNCHANGED inbox /\ conf.evented /\ Disturb
    /\ UNCHANGED <<rowVars, listed, locked, pending, actorVars, unlisted, raced, clusterVars>>

\* handleHBExpired: other pods' shards are dropped; the lock is taken or the event is dropped.
HandleHBExpired(p) ==
    /\ phase[p] = "up" /\ pc[Handler(p)] = "idle"
    /\ \E d \in inbox[p] :
          /\ inbox' = [inbox EXCEPT ![p] = @ \ {d}]
          /\ IF OwnsByShard(p, UserShard) /\ locked[d] = NoPod
             THEN /\ locked' = [locked EXCEPT ![d] = p]
                  /\ at' = [at EXCEPT ![Handler(p)] = d]
                  /\ Goto(Handler(p), "look up")
             ELSE UNCHANGED <<locked, at, pc>>
    /\ UNCHANGED <<rowVars, hb, listed, pending, work, snap, unlisted, raced, clusterVars, faultVars>>

\* No record or an error: the key and the member are cleaned up; a young session is touched.
HandlerLooksUp(p) ==
    /\ pc[Handler(p)] = "look up"
    /\ FindActiveByDevice(Handler(p), "delete key", "delete key", "renew young", "settle")

HandlerTouches(p) ==
    /\ pc[Handler(p)] = "renew young"
    /\ hb' = hb \cup {at[Handler(p)]}
    /\ Goto(Handler(p), "unlock")
    /\ UNCHANGED <<rowVars, listed, inbox, locked, pending, at, work, snap, unlisted, raced,
                   clusterVars, faultVars>>

HandlerUnlocks(p) ==
    LET a == Handler(p) IN
    /\ pc[a] = "unlock"
    /\ locked' = IF locked[at[a]] = p THEN [locked EXCEPT ![at[a]] = NoPod] ELSE locked
    /\ Goto(a, "idle")
    /\ at' = [at EXCEPT ![a] = NoDevice]
    /\ UNCHANGED <<rowVars, hb, listed, inbox, pending, work, snap, unlisted, raced,
                   clusterVars, faultVars>>

\* The TTL of the lock of a pod that died runs out.
SettleLockExpires(d) ==
    /\ locked[d] # NoPod /\ pc[Handler(locked[d])] = "idle"
    /\ locked' = [locked EXCEPT ![d] = NoPod]
    /\ UNCHANGED <<rowVars, hb, listed, inbox, pending, actorVars, unlisted, raced, clusterVars, faultVars>>

-----------------------------------------------------------------------------
(* The flusher, and what happens to a pod that stops and starts.             *)

\* BatchUpdateHeartbeat: the rows that are still active; with Redis nobody reads their time.
BatchUpdateHeartbeat == IF conf.redis THEN hb ELSE hb \cup {d \in pending : active[d] # 0}

\* Flush drains the map and updates the rows; a batch that fails is lost.
Flush ==
    /\ pending # {}
    /\ \/ hb' = BatchUpdateHeartbeat /\ UNCHANGED faultVars
       \/ UNCHANGED hb /\ Disturb
    /\ pending' = {}
    /\ UNCHANGED <<rowVars, listed, inbox, locked, actorVars, unlisted, raced, clusterVars>>

\* A pod is gone: its scanner, its handler and the events it has not handled with it.
LeaveSessions(p) ==
    /\ pc' = [pc EXCEPT ![Scanner(p)] = "idle", ![Handler(p)] = "idle"]
    /\ work' = [work EXCEPT ![Scanner(p)] = {}, ![Handler(p)] = {}]
    /\ at' = [at EXCEPT ![Scanner(p)] = NoDevice, ![Handler(p)] = NoDevice]
    /\ inbox' = [inbox EXCEPT ![p] = {}]
    /\ UNCHANGED <<rowVars, hb, listed, locked, pending, snap, unlisted, raced>>

\* FindAllActive: the devices a replica shows an active record of.
FindAllActive(ds) == \A d \in Devices : \E id \in Reads(d) : (d \in ds) <=> (id # 0)

\* BackfillActiveSessions of a pod that starts: every session found is listed.
BackfillActiveSessions ==
    /\ \E ds \in SUBSET Devices :
          /\ FindAllActive(ds)
          /\ listed' = IF conf.redis THEN listed \cup ds ELSE listed
    /\ unlisted' = unlisted \ listed'
    /\ UNCHANGED <<rowVars, hb, inbox, locked, pending, actorVars, raced>>

StartStep(c) ==
    \/ StartCheck(c) \/ EvictOldestIfFull(c) \/ Create(c) \/ FindAgain(c) \/ TouchFirst(c)
    \/ ListSession(c)
CallStep(c) ==
    \/ StartStep(c) \/ Heartbeat(c) \/ ConfirmActive(c) \/ TouchHeartbeat(c)
    \/ Stop(c) \/ StopDevice(c) \/ CutOff(c)
SettleStep(a) ==
    SettleSession(a) \/ SettledAll(a) \/ DeleteHeartbeat(a) \/ RemoveActiveSession(a)
ScanStep(p) == ScanTimeout(p) \/ SettleDeadSession(p) \/ ScanDone(p) \/ SettleStep(Scanner(p))
EventStep(p) ==
    \/ HandleHBExpired(p) \/ HandlerLooksUp(p) \/ HandlerTouches(p) \/ HandlerUnlocks(p)
    \/ SettleStep(Handler(p))

SessionStep ==
    \/ \E c \in Calls : CallStep(c) \/ SettleStep(c)
    \/ \E p \in Pods : ScanStep(p) \/ EventStep(p)
    \/ \E d \in Devices : Settles(d) \/ HeartbeatExpires(d) \/ SettleLockExpires(d)
    \/ Flush

\* Requests go on to their end, pods scan and handle events, time passes.
SessionFairness ==
    LET v == <<sessionVars, clusterVars, faultVars>> IN
    /\ WF_v(\E c \in Calls : CallStep(c) \/ SettleStep(c))
    /\ \A p \in Pods : WF_v(ScanStep(p)) /\ WF_v(EventStep(p))
    /\ \A d \in Devices : WF_v(Settles(d) \/ HeartbeatExpires(d))
    /\ WF_v(Flush \/ \E d \in Devices : SettleLockExpires(d))

-----------------------------------------------------------------------------
\* A user has no more sessions than MaxDevices, unless a Start counted the devices while another
\* one created a session or saw a count that was no longer true: the count and the INSERT are
\* not one transaction.
DevicesWithinLimit ==
    Cardinality({d \in Devices : active[d] # 0}) <= MaxDevices \/ raced

\* A session whose device has gone silent is settled in the end, by whichever pod scans its
\* shard, unless it is missing from the active set: a Start that did not get to add it, a read
\* that did not find it, or the clean-up of an earlier session of the device that came late.
EverySessionEnds ==
    \A d \in Devices : <>[](active[d] = 0 \/ d \in unlisted \/ \A p \in Up : UserShard \notin Scans(p))
=============================================================================
