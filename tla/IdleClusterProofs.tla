-------------------------- MODULE IdleClusterProofs --------------------------
(***************************************************************************)
(* Safety of the cluster for any number of pods, devices and requests and   *)
(* any deployment: who may lead, and how many sessions a user has.          *)
(***************************************************************************)
EXTENDS IdleCluster, FiniteSetTheorems, WellFoundedInduction, TLAPS

Late == "late renewal" \in harm

-----------------------------------------------------------------------------
(* Leadership.                                                               *)

\* A process that is not there has nothing in memory.
DownIsEmpty ==
    \A p \in Pods : phase[p] = "down" => p \notin token \cup believes /\ reply[p] = "none"

\* Between the SETNX and the use of its reply the key is the pod's, unless it was too slow.
WinnersHoldTheLease ==
    \A p \in Pods : phase[p] = "up" /\ reply[p] = "won" => (Late \/ lease = p) /\ p \notin believes

\* A pod that goes on believing has the key and the token to renew it, or was late.
LeadersHoldTheLease ==
    \A p \in Pods : phase[p] = "up" /\ p \in believes => Late \/ (lease = p /\ p \in token)

\* A poll never runs ahead of the clock, so a period that is new to it is one that has begun.
PollsFollowTheClock == \A p \in Pods : lastKey[p] <= period

\* A token is stored with the flag, and forgotten before it.
TokensAreBelieved ==
    token \subseteq believes /\ \A p \in Pods : reply[p] = "lost" => p \notin token

LeaderInv ==
    /\ LeaderTypeOK
    /\ PollsFollowTheClock
    /\ DownIsEmpty
    /\ TokensAreBelieved
    /\ WinnersHoldTheLease
    /\ LeadersHoldTheLease

\* The variables the invariant speaks of.
leaderInvVars == <<phase, electVars, jobVars>>

\* At the start of a deployment nobody leads.
LEMMA LeaderStart == ClusterInit => LeaderInv
<1> SUFFICES ASSUME NEW d \in Deployments, LeaderInit(d.conf, d.today), d.today \in 0 .. MaxPeriod
             PROVE  LeaderInv
  BY ClusterAssumption DEF ClusterInit
<1>1. LeaderTypeOK
  BY PodAssumption DEF LeaderInit, LeaderTypeOK
<1>2. DownIsEmpty /\ TokensAreBelieved /\ WinnersHoldTheLease /\ LeadersHoldTheLease
  BY DEF LeaderInit, DownIsEmpty, TokensAreBelieved, WinnersHoldTheLease, LeadersHoldTheLease
<1>3. PollsFollowTheClock
  BY PodAssumption DEF LeaderInit, PollsFollowTheClock
<1> QED
  BY <1>1, <1>2, <1>3 DEF LeaderInv

\* Steps of the other components.
LEMMA LeaderFrame ==
  ASSUME LeaderInv, UNCHANGED leaderInvVars, harm \subseteq harm'
  PROVE  LeaderInv'
BY DEF leaderInvVars, electVars, jobVars, LeaderInv, LeaderTypeOK, PollsFollowTheClock, DownIsEmpty, TokensAreBelieved,
       WinnersHoldTheLease, LeadersHoldTheLease, Late

\* One tick: the command.
LEMMA LeaderTick ==
  ASSUME LeaderInv, NEW p \in Pods, TryAcquireOrRenew(p)
  PROVE  LeaderInv'
<1> USE DEF jobVars, faultVars
<1>1. /\ LeaderTypeOK /\ phase[p] = "up" /\ reply[p] = "none"
      /\ UNCHANGED <<phase, believes, jobVars, harm>>
  BY DEF TryAcquireOrRenew, LeaderInv
<1>2. CASE /\ p \in believes /\ ~RefreshLock(p)
           /\ reply' = [reply EXCEPT ![p] = "lost"]
           /\ token' = token \ {p}
           /\ UNCHANGED lease
  <2>1. LeaderTypeOK' /\ PollsFollowTheClock' /\ DownIsEmpty' /\ TokensAreBelieved'
    BY <1>1, <1>2 DEF LeaderInv, LeaderTypeOK, PollsFollowTheClock, DownIsEmpty, TokensAreBelieved
  <2>2. WinnersHoldTheLease'
    BY <1>1, <1>2 DEF LeaderInv, LeaderTypeOK, WinnersHoldTheLease, Late
  <2>3. LeadersHoldTheLease'
    BY <1>1, <1>2 DEF LeaderInv, LeaderTypeOK, LeadersHoldTheLease, RefreshLock, Late
  <2> QED
    BY <2>1, <2>2, <2>3 DEF LeaderInv
<1>3. CASE /\ p \notin believes /\ LeaseFree(p)
           /\ reply' = [reply EXCEPT ![p] = "won"]
           /\ lease' = p
           /\ UNCHANGED token
  <2>1. LeaderTypeOK' /\ PollsFollowTheClock' /\ DownIsEmpty' /\ TokensAreBelieved'
    BY <1>1, <1>3 DEF LeaderInv, LeaderTypeOK, PollsFollowTheClock, DownIsEmpty, TokensAreBelieved
  <2>2. WinnersHoldTheLease'
    BY <1>1, <1>3, PodAssumption DEF LeaderInv, LeaderTypeOK, WinnersHoldTheLease, LeaseFree, Late
  <2>3. LeadersHoldTheLease'
    BY <1>1, <1>3, PodAssumption DEF LeaderInv, LeaderTypeOK, LeadersHoldTheLease, LeaseFree, Late
  <2> QED
    BY <2>1, <2>2, <2>3 DEF LeaderInv
<1> QED
  BY <1>2, <1>3 DEF TryAcquireOrRenew

\* The use of its reply, or its loss.
LEMMA LeaderReply ==
  ASSUME LeaderInv, NEW p \in Pods, SetLeader(p) \/ TickReplyLost(p)
  PROVE  LeaderInv'
<1> USE DEF jobVars, faultVars
<1>1. /\ LeaderTypeOK /\ reply[p] # "none"
      /\ UNCHANGED <<phase, lease, jobVars, harm>>
      /\ reply' = [reply EXCEPT ![p] = "none"]
  BY DEF SetLeader, TickReplyLost, Disturb, LeaderInv
<1>2. CASE SetLeader(p)
  <2>0. phase[p] # "down" /\ reply[p] \in {"won", "lost"}
    BY <1>1 DEF LeaderInv, LeaderTypeOK, DownIsEmpty
  <2>1. LeaderTypeOK' /\ PollsFollowTheClock' /\ DownIsEmpty' /\ TokensAreBelieved'
    <3>1. CASE reply[p] = "won"
      BY <1>1, <1>2, <2>0, <3>1 DEF LeaderInv, LeaderTypeOK, PollsFollowTheClock, DownIsEmpty, TokensAreBelieved, SetLeader
    <3>2. CASE reply[p] = "lost"
      <4>1. p \notin token
        BY <3>2 DEF LeaderInv, TokensAreBelieved
      <4> QED
        BY <1>1, <1>2, <2>0, <3>2, <4>1 DEF LeaderInv, LeaderTypeOK, PollsFollowTheClock, DownIsEmpty, TokensAreBelieved, SetLeader
    <3> QED
      BY <2>0, <3>1, <3>2
  <2>2. WinnersHoldTheLease' /\ LeadersHoldTheLease'
    BY <1>1, <1>2 DEF LeaderInv, LeaderTypeOK, WinnersHoldTheLease, LeadersHoldTheLease,
                      SetLeader, Late
  <2> QED
    BY <2>1, <2>2 DEF LeaderInv
<1>3. CASE TickReplyLost(p)
  <2>1. LeaderTypeOK' /\ PollsFollowTheClock' /\ DownIsEmpty' /\ TokensAreBelieved'
    BY <1>1, <1>3 DEF LeaderInv, LeaderTypeOK, PollsFollowTheClock, DownIsEmpty,
                      TokensAreBelieved, TickReplyLost
  <2>2. WinnersHoldTheLease' /\ LeadersHoldTheLease'
    BY <1>1, <1>3 DEF LeaderInv, LeaderTypeOK, WinnersHoldTheLease, LeadersHoldTheLease,
                      TickReplyLost, Late
  <2> QED
    BY <2>1, <2>2 DEF LeaderInv
<1> QED
  BY <1>2, <1>3

\* The TTL: a pod that renews in time keeps its key.
LEMMA LeaderExpiry ==
  ASSUME LeaderInv, LeaseExpires
  PROVE  LeaderInv'
<1>1. /\ LeaderTypeOK /\ lease \in Pods /\ lease' = NoPod
      /\ UNCHANGED <<phase, token, believes, reply, jobVars>>
      /\ harm \subseteq harm'
  BY DEF LeaseExpires, LeaderInv, LeaderTypeOK, Harm, faultVars
<1>2. phase[lease] = "up" /\ (reply[lease] = "won" \/ lease \in believes) => Late'
  BY <1>1 DEF LeaseExpires, LeaderInv, LeaderTypeOK, TokensAreBelieved, WinnersHoldTheLease,
              LeadersHoldTheLease, Harm, Late, Up, faultVars
<1>3. LeaderTypeOK' /\ PollsFollowTheClock' /\ DownIsEmpty' /\ TokensAreBelieved'
  BY <1>1 DEF LeaderInv, LeaderTypeOK, PollsFollowTheClock, DownIsEmpty, TokensAreBelieved, jobVars
<1>4. WinnersHoldTheLease'
  BY <1>1, <1>2 DEF LeaderInv, WinnersHoldTheLease, Late
<1>5. LeadersHoldTheLease'
  BY <1>1, <1>2 DEF LeaderInv, LeadersHoldTheLease, Late
<1> QED
  BY <1>3, <1>4, <1>5 DEF LeaderInv

\* A pod gives up, ends, dies or starts.
LEMMA LeaderLife ==
  ASSUME LeaderInv, NEW p \in Pods,
         \/ StopElector(p) \/ LoopExit(p) \/ Crash(p)
         \/ StartPod(p) /\ UNCHANGED faultVars
  PROVE  LeaderInv'
<1> USE DEF jobVars, faultVars, Harm
<1>0. LeaderTypeOK
  BY DEF LeaderInv
<1>1. CASE StopElector(p)
  <2>1. LeaderTypeOK' /\ PollsFollowTheClock' /\ DownIsEmpty' /\ TokensAreBelieved'
    BY <1>0, <1>1 DEF LeaderInv, LeaderTypeOK, PollsFollowTheClock, DownIsEmpty, TokensAreBelieved, StopElector, Release
  <2>2. WinnersHoldTheLease' /\ LeadersHoldTheLease'
    BY <1>0, <1>1 DEF LeaderInv, LeaderTypeOK, WinnersHoldTheLease, LeadersHoldTheLease,
                      StopElector, Release, RefreshLock, Late
  <2> QED
    BY <2>1, <2>2 DEF LeaderInv
<1>2. CASE LoopExit(p)
  <2>1. LeaderTypeOK' /\ PollsFollowTheClock' /\ DownIsEmpty' /\ TokensAreBelieved'
    BY <1>0, <1>2 DEF LeaderInv, LeaderTypeOK, PollsFollowTheClock, DownIsEmpty, TokensAreBelieved, LoopExit, Release
  <2>2. /\ lease' = lease \/ lease = p
        /\ token' = token \ {p} /\ believes' = believes \ {p}
        /\ phase' = [phase EXCEPT ![p] = "down"] /\ UNCHANGED <<reply, harm>>
    BY <1>2 DEF LoopExit, Release, RefreshLock
  <2>3. phase[p] = "closing"
    BY <1>2 DEF LoopExit
  <2>4. WinnersHoldTheLease' /\ LeadersHoldTheLease'
    BY <1>0, <2>2, <2>3 DEF LeaderInv, LeaderTypeOK, WinnersHoldTheLease, LeadersHoldTheLease, Late
  <2> QED
    BY <2>1, <2>4 DEF LeaderInv
<1>3. CASE Crash(p)
  <2>1. LeaderTypeOK' /\ PollsFollowTheClock' /\ DownIsEmpty' /\ TokensAreBelieved'
    BY <1>0, <1>3 DEF LeaderInv, LeaderTypeOK, PollsFollowTheClock, DownIsEmpty, TokensAreBelieved, Crash
  <2>2. WinnersHoldTheLease' /\ LeadersHoldTheLease'
    BY <1>0, <1>3 DEF LeaderInv, LeaderTypeOK, WinnersHoldTheLease, LeadersHoldTheLease,
                      Crash, Late
  <2> QED
    BY <2>1, <2>2 DEF LeaderInv
<1>4. CASE StartPod(p) /\ UNCHANGED faultVars
  <2>1. LeaderTypeOK' /\ PollsFollowTheClock' /\ DownIsEmpty' /\ TokensAreBelieved'
    BY <1>0, <1>4 DEF LeaderInv, LeaderTypeOK, PollsFollowTheClock, DownIsEmpty, TokensAreBelieved, StartPod, electVars
  <2>2. WinnersHoldTheLease' /\ LeadersHoldTheLease'
    BY <1>0, <1>4 DEF LeaderInv, LeaderTypeOK, DownIsEmpty, TokensAreBelieved, WinnersHoldTheLease,
                      LeadersHoldTheLease, StartPod, electVars, Late
  <2> QED
    BY <2>1, <2>2 DEF LeaderInv
<1> QED
  BY <1>1, <1>2, <1>3, <1>4

\* The scheduler reads the flag and writes nothing of the election.
LEMMA LeaderJobs ==
  ASSUME LeaderInv, PeriodEnds \/ \E p \in Pods : RunPeriod(p)
  PROVE  LeaderInv'
<1>1. LeaderTypeOK /\ UNCHANGED <<phase, lease, token, believes, reply>> /\ harm \subseteq harm'
  BY DEF LeaderInv, PeriodEnds, RunPeriod, Harm, faultVars, electVars
<1>2. DownIsEmpty' /\ TokensAreBelieved' /\ WinnersHoldTheLease' /\ LeadersHoldTheLease'
  BY <1>1 DEF LeaderInv, DownIsEmpty, TokensAreBelieved, WinnersHoldTheLease,
              LeadersHoldTheLease, Late
<1>3. CASE PeriodEnds
  <2>1. period' = period + 1 /\ period' \in 0 .. MaxPeriod /\ UNCHANGED <<lastKey, resets>>
    <3>1. period < MaxPeriod /\ period' = period + 1 /\ UNCHANGED <<lastKey, resets>>
      BY <1>3 DEF PeriodEnds
    <3>2. period \in 0 .. MaxPeriod /\ MaxPeriod \in Nat
      BY <1>1, PodAssumption DEF LeaderTypeOK
    <3> QED
      BY <3>1, <3>2
  <2>2. LeaderTypeOK'
    BY <1>1, <2>1 DEF LeaderTypeOK
  <2>3. PollsFollowTheClock'
    BY <1>1, <2>1 DEF LeaderInv, LeaderTypeOK, PollsFollowTheClock
  <2> QED
    BY <1>2, <2>2, <2>3 DEF LeaderInv
<1>4. ASSUME NEW p \in Pods, RunPeriod(p)
      PROVE  LeaderInv'
  <2>1. period \in 1 .. MaxPeriod /\ UNCHANGED period
    BY <1>1, <1>4, PodAssumption DEF LeaderInv, LeaderTypeOK, PollsFollowTheClock, RunPeriod
  <2>2. lastKey' = [lastKey EXCEPT ![p] = period] /\ resets' \subseteq resets \cup {period}
    BY <1>4 DEF RunPeriod
  <2>3. LeaderTypeOK'
    BY <1>1, <2>1, <2>2 DEF LeaderTypeOK
  <2>4. PollsFollowTheClock'
    BY <1>1, <2>1, <2>2 DEF LeaderInv, LeaderTypeOK, PollsFollowTheClock
  <2> QED
    BY <1>2, <2>3, <2>4 DEF LeaderInv
<1> QED
  BY <1>3, <1>4

\* What the requests, the scanners and the event handlers do leaves the election alone.
LEMMA SessionsOutside ==
  ASSUME SessionStep
  PROVE  UNCHANGED <<clusterVars, harm>>
<1> USE DEF faultVars, Disturb
<1>2. ASSUME NEW a, NEW e, NEW n, NEW y, NEW f, FindActiveByDevice(a, e, n, y, f)
      PROVE  UNCHANGED <<clusterVars, harm>>
  BY <1>2 DEF FindActiveByDevice
<1>3. ASSUME NEW c \in Calls, Fails(c)
      PROVE  UNCHANGED <<clusterVars, harm>>
  BY <1>3 DEF Fails
<1>4. ASSUME NEW c \in Calls, StartStep(c)
      PROVE  UNCHANGED <<clusterVars, harm>>
  BY <1>2, <1>3, <1>4 DEF StartStep, StartCheck, EvictOldestIfFull, Create, FindAgain, TouchFirst,
                          ListSession
<1>5. ASSUME NEW c \in Calls, CallStep(c)
      PROVE  UNCHANGED <<clusterVars, harm>>
  BY <1>2, <1>3, <1>4, <1>5 DEF CallStep, Heartbeat, ConfirmActive, TouchHeartbeat, Stop,
                                StopDevice, CutOff
<1>6. ASSUME NEW a, SettleStep(a)
      PROVE  UNCHANGED <<clusterVars, harm>>
  BY <1>6 DEF SettleStep, SettleSession, SettledAll, DeleteHeartbeat, RemoveActiveSession
<1>7. ASSUME NEW p \in Pods, ScanStep(p) \/ EventStep(p)
      PROVE  UNCHANGED <<clusterVars, harm>>
  BY <1>2, <1>6, <1>7 DEF ScanStep, ScanTimeout, SettleDeadSession, ScanDone, EventStep,
                          HandleHBExpired, HandlerLooksUp, HandlerTouches, HandlerUnlocks
<1>8. ASSUME NEW d \in Devices, Settles(d) \/ HeartbeatExpires(d) \/ SettleLockExpires(d)
      PROVE  UNCHANGED <<clusterVars, harm>>
  BY <1>8 DEF Settles, HeartbeatExpires, SettleLockExpires
<1>9. CASE Flush
  BY <1>9 DEF Flush
<1> QED
  BY <1>5, <1>6, <1>7, <1>8, <1>9 DEF SessionStep

\* Every step of the cluster preserves what leadership rests on.
LEMMA LeaderNext == LeaderInv /\ [ClusterNext]_clusterAllVars => LeaderInv'
<1> SUFFICES ASSUME LeaderInv, [ClusterNext]_clusterAllVars
             PROVE  LeaderInv'
  OBVIOUS
<1>1. CASE LeaderStep
  BY <1>1, LeaderTick, LeaderReply, LeaderExpiry, LeaderJobs DEF LeaderStep, LeaderWork
<1>2. CASE ShardStep
  <2>1. UNCHANGED leaderInvVars /\ UNCHANGED harm
    BY <1>2 DEF ShardStep, Reconcile, AliveExpires, DiscoverPods, DnsUpdates, leaderVars,
                leaderInvVars, faultVars, Disturb
  <2> QED
    BY <2>1, LeaderFrame
<1>3. CASE SessionStep
  BY <1>3, SessionsOutside, LeaderFrame DEF clusterVars, leaderVars, leaderInvVars
<1>4. ASSUME NEW p \in Pods, PodStep(p)
      PROVE  LeaderInv'
  BY <1>4, LeaderLife DEF PodStep
<1>5. CASE UNCHANGED clusterAllVars
  BY <1>5, LeaderFrame DEF clusterAllVars, clusterVars, leaderVars, leaderInvVars, faultVars
<1> QED
  BY <1>1, <1>2, <1>3, <1>4, <1>5 DEF ClusterNext

\* A running pod that believes to lead without holding the lease was late with a renewal, in
\* every deployment: LeaderElector keeps its state on an error and gives it up on a refusal.
THEOREM StaleLeaders == ClusterSpec => []StaleLeaderHasACause
<1>1. LeaderInv => StaleLeaderHasACause
  BY DEF LeaderInv, LeadersHoldTheLease, StaleLeaderHasACause, Late, Up
<1> QED
  BY <1>1, LeaderStart, LeaderNext, PTL DEF ClusterSpec

\* Two pods that lead at the same time.
TwoLeaders == \E p, q \in Up : p # q /\ {p, q} \subseteq believes

\* So no two running pods take themselves for the leader, and run the singleton jobs twice,
\* unless a renewal was late.
THEOREM OneLeader == ClusterSpec => [](TwoLeaders => "late renewal" \in harm)
<1>1. StaleLeaderHasACause => (TwoLeaders => "late renewal" \in harm)
  BY DEF StaleLeaderHasACause, TwoLeaders
<1> QED
  BY <1>1, StaleLeaders, PTL

-----------------------------------------------------------------------------
(* The limit on devices.                                                     *)

\* Devices with a session.
Act == {d \in Devices : active[d] # 0}

Starts == {c \in Calls : Op[c] = "start"}

\* Where a Start can be, and where it is between its count and its INSERT.
Busy == {"settle", "delete key", "unlist", "create"}
StartPlaces == Busy \cup {"idle", "start", "count", "find again", "touch", "list", "end"}

DeviceTypeOK ==
    /\ active \in [Devices -> Nat] /\ recs \in Nat
    /\ DOMAIN pc = Actors /\ DOMAIN work = Actors /\ DOMAIN snap = Actors
    /\ \A c \in Starts : snap[c] \in Nat /\ snap[c] <= recs /\ pc[c] \in StartPlaces
    /\ \A c \in Calls \ Starts : pc[c] # "create"

\* The sessions a Start has to evict are there and equally old.
Evicting(c) ==
    /\ work[c] # {}
    /\ \A w \in work[c] : /\ w[1] \in Devices /\ active[w[1]] = w[2] /\ w[2] \in Nat \ {0}
                          /\ \A v \in work[c] : v[2] = w[2]

Room == Cardinality(Act) < MaxDevices

\* A Start that no other has overtaken since its count goes on to its INSERT with room for it.
RoomFor(c) ==
    pc[c] \in Busy => Room \/ (pc[c] = "settle" /\ Evicting(c))

DeviceInv ==
    /\ DeviceTypeOK
    /\ DevicesWithinLimit
    /\ \A c \in Starts : raced \/ snap[c] # recs \/ RoomFor(c)

\* The requests that start a session are among the actors.
LEMMA StartsAreActors == Starts \subseteq Calls /\ Calls \subseteq Actors
BY DEF Starts, Actors

\* A user has finitely many active sessions, so that they can be counted.
LEMMA ActFinite ==
  ASSUME SessionAssumption
  PROVE  IsFiniteSet(Act) /\ Cardinality(Act) \in Nat
<1>1. Act \in SUBSET Devices
  BY DEF Act
<1> QED
  BY <1>1, FS_Subset, FS_CardinalityType, SessionAssumption

\* Steps that change no row and no count.
LEMMA DeviceQuiet ==
  ASSUME DeviceInv, UNCHANGED <<active, recs, snap, raced>>,
         DOMAIN pc' = Actors, DOMAIN work' = Actors,
         \A c \in Starts :
            \/ pc'[c] = pc[c] /\ work'[c] = work[c]
            \/ /\ pc'[c] \in StartPlaces
               /\ pc'[c] \in Busy => Room \/ raced \/ snap[c] # recs,
         \A c \in Calls \ Starts : pc'[c] = pc[c] \/ pc'[c] # "create"
  PROVE  DeviceInv'
<1>1. Act' = Act
  BY DEF Act
<1>2. Room' = Room /\ DevicesWithinLimit' = DevicesWithinLimit
  BY <1>1 DEF Room, DevicesWithinLimit, Act
<1>3. DeviceTypeOK'
  BY DEF DeviceInv, DeviceTypeOK
<1>4. ASSUME NEW c \in Starts
      PROVE  (raced \/ snap[c] # recs \/ RoomFor(c))'
  <2>1. CASE pc'[c] = pc[c] /\ work'[c] = work[c]
    BY <1>2, <2>1 DEF DeviceInv, RoomFor, Evicting
  <2>2. CASE pc'[c] \in Busy => Room \/ raced \/ snap[c] # recs
    BY <1>2, <2>2 DEF RoomFor
  <2> QED
    BY <2>1, <2>2
<1> QED
  BY <1>2, <1>3, <1>4 DEF DeviceInv

\* The mark of settleSession, by whomever: one session less, or none.
LEMMA DeviceSettle ==
  ASSUME DeviceInv, NEW a \in Actors, SettleSession(a)
  PROVE  DeviceInv'
<1> DEFINE w == CHOOSE w \in work[a] : \A v \in work[a] : w[2] <= v[2]
<1> HIDE DEF w
<1>1. /\ pc[a] = "settle" /\ work[a] # {} /\ UNCHANGED <<recs, snap, raced>>
      /\ \/ active[w[1]] = w[2] /\ active' = [active EXCEPT ![w[1]] = 0]
         \/ active[w[1]] # w[2] /\ UNCHANGED active
         \/ UNCHANGED active /\ pc' = [pc EXCEPT ![a] = IF a \in Calls THEN "end" ELSE "unlock"]
  BY DEF SettleSession, SetActive, Goto, w
<1>2. /\ DOMAIN pc' = Actors /\ DOMAIN work' = Actors
      /\ \A c \in Starts : c # a => pc'[c] = pc[c] /\ work'[c] = work[c]
  BY DEF SettleSession, Goto, DeviceInv, DeviceTypeOK, Starts, Actors
<1>3. /\ a \in Starts => pc'[a] \in StartPlaces
      /\ \A c \in Calls \ Starts : pc'[c] # "create"
  <2>1. \/ UNCHANGED pc
        \/ pc' = [pc EXCEPT ![a] = "delete key"]
        \/ pc' = [pc EXCEPT ![a] = IF a \in Calls THEN "end" ELSE "unlock"]
    BY DEF SettleSession, Goto
  <2> QED
    BY <2>1, StartsAreActors DEF DeviceInv, DeviceTypeOK, StartPlaces, Busy
<1>4. active' \in [Devices -> Nat] /\ \A d \in Devices : active'[d] = active[d] \/ active'[d] = 0
  BY <1>1 DEF DeviceInv, DeviceTypeOK
<1>5. Act' \subseteq Act
  BY <1>4 DEF Act
<1>6. IsFiniteSet(Act) /\ Cardinality(Act) \in Nat /\ MaxDevices \in Nat
  BY ActFinite, SessionAssumption
<1>7. /\ Cardinality(Act') \in Nat /\ Cardinality(Act') <= Cardinality(Act)
      /\ Act' # Act => Cardinality(Act') < Cardinality(Act)
  BY <1>5, <1>6, FS_Subset, FS_CardinalityType
<1>8. DevicesWithinLimit'
  BY <1>1, <1>6, <1>7 DEF DeviceInv, DevicesWithinLimit, Act
<1>9. Act' # Act => Room' \/ raced
  BY <1>6, <1>7 DEF DeviceInv, DevicesWithinLimit, Room, Act
<1>10. Room => Room'
  BY <1>6, <1>7 DEF Room, SessionAssumption
<1>11. DeviceTypeOK'
  BY <1>1, <1>2, <1>3, <1>4 DEF DeviceInv, DeviceTypeOK
<1>12. ASSUME NEW c \in Starts, ~raced, snap[c] = recs
       PROVE  RoomFor(c)'
  <2>0. RoomFor(c)
    BY <1>12 DEF DeviceInv
  <2>1. CASE Room'
    BY <2>1 DEF RoomFor
  <2>2. CASE ~Room'
    <3>1. UNCHANGED active
      <4>1. Act' = Act
        BY <1>9, <1>12, <2>2
      <4>2. \A d \in Devices : active'[d] = active[d]
        BY <1>4, <4>1 DEF Act
      <4> QED
        BY <1>4, <4>2 DEF DeviceInv, DeviceTypeOK
    <3>2. CASE c # a
      BY <1>2, <1>10, <2>0, <2>2, <3>1, <3>2 DEF RoomFor, Evicting
    <3>3. CASE c = a
      <4>1. Evicting(a)
        BY <1>1, <1>10, <2>0, <2>2, <3>3 DEF RoomFor, Busy
      <4>2. w \in work[a]
        BY <4>1 DEF Evicting, w
      <4>3. active[w[1]] = w[2] /\ w[1] \in Devices /\ w[2] # 0
        BY <4>1, <4>2 DEF Evicting
      <4>4. active' # [active EXCEPT ![w[1]] = 0]
        BY <3>1, <4>3 DEF DeviceInv, DeviceTypeOK
      <4>5. pc'[a] = "end"
        BY <1>1, <3>3, <4>3, <4>4 DEF DeviceInv, DeviceTypeOK, Starts
      <4> QED
        BY <3>3, <4>5 DEF RoomFor, Busy
    <3> QED
      BY <3>2, <3>3
  <2> QED
    BY <2>1, <2>2
<1> QED
  BY <1>1, <1>8, <1>11, <1>12 DEF DeviceInv

\* A nonempty set of records has an oldest one.
LEMMA OldestExists ==
  ASSUME NEW S, S # {}, \A w \in S : w[2] \in Nat
  PROVE  \E w \in S : \A v \in S : w[2] <= v[2]
<1> DEFINE T == {w[2] : w \in S}
<1>1. T \subseteq Nat /\ T # {}
  OBVIOUS
<1>2. PICK n \in T : \A m \in T : ~(<<m, n>> \in OpToRel(<, Nat))
  BY <1>1, WFMin, NatLessThanWellFounded
<1>3. ASSUME NEW m \in T
      PROVE  n <= m
  <2>1. m \in Nat /\ n \in Nat
    BY <1>1
  <2>2. ~(<<m, n>> \in OpToRel(<, Nat))
    BY <1>2
  <2>3. ~(m < n)
    BY <2>1, <2>2 DEF OpToRel
  <2> QED
    BY <2>1, <2>3
<1> QED
  BY <1>3

\* A Start counts: what it reads is the truth, or it is noted that it is not.
LEMMA DeviceCount ==
  ASSUME DeviceInv, NEW c \in Calls, EvictOldestIfFull(c)
  PROVE  DeviceInv'
<1> USE DEF rowVars
<1>1. CASE Fails(c)
  BY <1>1, DeviceQuiet DEF Fails, Goto, DeviceInv, DeviceTypeOK, Starts, Actors, StartPlaces, Busy
<1>2. CASE ~Fails(c)
  <2>1. PICK f \in [Devices -> 0 .. MaxRecs] :
          LET found == {<<d, f[d]>> : d \in {e \in Devices : f[e] # 0}}
          IN  /\ work' = [work EXCEPT ![c] = IF Full(Cardinality(found))
                               THEN {w \in found : \A v \in found : w[2] <= v[2]} ELSE {}]
              /\ raced' = (raced \/ f # active)
    BY <1>2 DEF EvictOldestIfFull
  <2> DEFINE found == {<<d, f[d]>> : d \in {e \in Devices : f[e] # 0}}
  <2>2. /\ pc[c] = "count" /\ snap' = [snap EXCEPT ![c] = recs] /\ pc' = [pc EXCEPT ![c] = "settle"]
        /\ UNCHANGED <<active, recs>>
    BY <1>2 DEF EvictOldestIfFull, Goto
  <2>3. DeviceTypeOK'
    <3>1. /\ DOMAIN pc' = Actors /\ DOMAIN work' = Actors /\ DOMAIN snap' = Actors
          /\ active' \in [Devices -> Nat] /\ recs' \in Nat
      BY <2>1, <2>2 DEF DeviceInv, DeviceTypeOK
    <3>2. ASSUME NEW s \in Starts
          PROVE  (snap[s] \in Nat /\ snap[s] <= recs /\ pc[s] \in StartPlaces)'
      <4>1. /\ snap'[s] = IF s = c THEN recs ELSE snap[s]
            /\ pc'[s] = IF s = c THEN "settle" ELSE pc[s]
        BY <2>2, StartsAreActors DEF DeviceInv, DeviceTypeOK
      <4>2. recs \in Nat /\ snap[s] \in Nat /\ snap[s] <= recs /\ pc[s] \in StartPlaces
        BY DEF DeviceInv, DeviceTypeOK
      <4>3. snap'[s] \in Nat /\ snap'[s] <= recs'
        BY <2>2, <4>1, <4>2
      <4>4. pc'[s] \in StartPlaces
        BY <4>1, <4>2 DEF StartPlaces, Busy
      <4> QED
        BY <4>3, <4>4
    <3>3. \A s \in Calls \ Starts : pc'[s] # "create"
      BY <2>2, StartsAreActors DEF DeviceInv, DeviceTypeOK
    <3> QED
      BY <3>1, <3>2, <3>3 DEF DeviceTypeOK
  <2>4. Act' = Act /\ Room' = Room /\ DevicesWithinLimit'
    BY <2>1, <2>2 DEF DeviceInv, DevicesWithinLimit, Act, Room
  <2>5. ASSUME NEW s \in Starts, s # c
        PROVE  (raced \/ snap[s] # recs \/ RoomFor(s))'
    BY <2>1, <2>2, <2>4, <2>5 DEF DeviceInv, DeviceTypeOK, RoomFor, Evicting, Starts, Actors
  <2>6. ASSUME f = active
        PROVE  RoomFor(c)'
    <3>1. IsFiniteSet(Act) /\ Cardinality(Act) \in Nat /\ MaxDevices \in Nat \ {0}
      BY ActFinite, SessionAssumption
    <3>2. IsFiniteSet(found) /\ Cardinality(found) = Cardinality(Act)
      <4> DEFINE g == [d \in Act |-> <<d, f[d]>>]
      <4>1. found = {<<d, f[d]>> : d \in Act}
        BY <2>6 DEF Act
      <4>2. g \in Bijection(Act, found)
        BY <4>1 DEF Bijection, Injection, Surjection, IsInjective
      <4> QED
        BY <3>1, <4>2, FS_Bijection DEF ExistsBijection
    <3> DEFINE oldest == {w \in found : \A v \in found : w[2] <= v[2]}
    <3>3. CASE Full(Cardinality(found))
      <4>1. found # {}
        BY <3>1, <3>2, <3>3, FS_EmptySet DEF Full
      <4>2. \A w \in found : w[1] \in Devices /\ active[w[1]] = w[2] /\ w[2] \in Nat \ {0}
        BY <2>6 DEF DeviceInv, DeviceTypeOK
      <4>3. oldest # {}
        BY <4>1, <4>2, OldestExists
      <4>4. \A w \in oldest : \A v \in oldest : v[2] = w[2]
        BY <4>2
      <4>5. work'[c] = oldest
        BY <2>1, <3>3 DEF DeviceInv, DeviceTypeOK, Actors
      <4> HIDE DEF found, oldest
      <4>6. Evicting(c)'
        BY <2>2, <4>2, <4>3, <4>4, <4>5 DEF Evicting, oldest
      <4> QED
        BY <2>2, <4>6 DEF RoomFor, DeviceInv, DeviceTypeOK, Actors
    <3>4. CASE ~Full(Cardinality(found))
      BY <2>4, <3>1, <3>2, <3>4 DEF Full, Room, RoomFor
    <3> QED
      BY <3>3, <3>4
  <2> QED
    BY <2>1, <2>3, <2>4, <2>5, <2>6 DEF DeviceInv
<1> QED
  BY <1>1, <1>2

\* The INSERT: a Start that had room and was not overtaken adds one session, and overtakes
\* every other that has counted.
LEMMA DeviceCreate ==
  ASSUME DeviceInv, NEW c \in Starts, Create(c)
  PROVE  DeviceInv'
<1> USE DEF rowVars
<1>1. /\ pc[c] = "create" /\ c \in Actors /\ snap' = [snap EXCEPT ![c] = 0] /\ UNCHANGED work
      /\ \/ pc' = [pc EXCEPT ![c] = "touch"]
         \/ pc' = [pc EXCEPT ![c] = "find again"]
  BY DEF Create, Goto, Starts, Actors
<1>2. /\ DOMAIN pc' = Actors /\ DOMAIN work' = Actors /\ DOMAIN snap' = Actors
      /\ \A s \in Starts : snap'[s] \in Nat /\ snap'[s] <= recs /\ pc'[s] \in StartPlaces
      /\ \A s \in Calls \ Starts : pc'[s] # "create"
  <2>1. DOMAIN pc' = Actors /\ DOMAIN work' = Actors /\ DOMAIN snap' = Actors
    BY <1>1 DEF DeviceInv, DeviceTypeOK
  <2>2. ASSUME NEW s \in Starts
        PROVE  snap'[s] \in Nat /\ snap'[s] <= recs /\ pc'[s] \in StartPlaces
    <3>0. snap'[s] = 0 \/ snap'[s] = snap[s]
      BY <1>1, StartsAreActors DEF DeviceInv, DeviceTypeOK
    <3>1. pc'[s] \in {"touch", "find again", pc[s]}
      BY <1>1, StartsAreActors DEF DeviceInv, DeviceTypeOK
    <3>2. recs \in Nat /\ snap[s] \in Nat /\ snap[s] <= recs /\ pc[s] \in StartPlaces
      BY DEF DeviceInv, DeviceTypeOK
    <3>3. snap'[s] \in Nat /\ snap'[s] <= recs
      BY <3>0, <3>2
    <3>4. pc'[s] \in StartPlaces
      BY <3>1, <3>2 DEF StartPlaces
    <3> QED
      BY <3>3, <3>4
  <2>3. \A s \in Calls \ Starts : pc'[s] # "create"
    BY <1>1, StartsAreActors DEF DeviceInv, DeviceTypeOK
  <2> QED
    BY <2>1, <2>2, <2>3
<1>3. CASE UNCHANGED <<active, recs, raced>>
  <2>1. Act' = Act /\ Room' = Room /\ DevicesWithinLimit'
    BY <1>3 DEF DeviceInv, DevicesWithinLimit, Act, Room
  <2>2. DeviceTypeOK'
    BY <1>3, <1>2 DEF DeviceInv, DeviceTypeOK
  <2>3. \A s \in Starts : (raced \/ snap[s] # recs \/ RoomFor(s))'
    <3>1. pc'[c] \notin Busy
      BY <1>1 DEF DeviceInv, DeviceTypeOK, Busy
    <3>2. \A s \in Starts : s # c => pc'[s] = pc[s] /\ work'[s] = work[s] /\ snap'[s] = snap[s]
      BY <1>1, StartsAreActors DEF DeviceInv, DeviceTypeOK
    <3> QED
      BY <1>3, <2>1, <3>1, <3>2 DEF DeviceInv, RoomFor, Evicting
  <2> QED
    BY <2>1, <2>2, <2>3 DEF DeviceInv
<1>4. CASE /\ recs' = recs + 1 /\ active' = [active EXCEPT ![at[c]] = recs']
           /\ raced' = (raced \/ recs # snap[c])
  <2>0. recs \in Nat /\ recs' \in Nat /\ active' \in [Devices -> Nat]
    <3>1. recs \in Nat /\ recs' \in Nat
      BY <1>4 DEF DeviceInv, DeviceTypeOK
    <3> QED
      BY <1>4, <3>1 DEF DeviceInv, DeviceTypeOK
  <2>1. DeviceTypeOK'
    BY <1>4, <1>2, <2>0 DEF DeviceInv, DeviceTypeOK
  <2>2. \A s \in Starts : snap'[s] # recs'
    BY <1>4, <1>2, <2>0
  <2>3. IsFiniteSet(Act) /\ Cardinality(Act) \in Nat /\ MaxDevices \in Nat
    BY ActFinite, SessionAssumption
  <2>4. Act' \subseteq Act \cup {at[c]}
    BY <1>4 DEF Act, DeviceInv, DeviceTypeOK
  <2>5. Cardinality(Act') \in Nat /\ Cardinality(Act') <= Cardinality(Act) + 1
    <3>1. /\ IsFiniteSet(Act \cup {at[c]})
          /\ Cardinality(Act \cup {at[c]}) <= Cardinality(Act) + 1
      BY <2>3, FS_AddElement
    <3>2. IsFiniteSet(Act') /\ Cardinality(Act') <= Cardinality(Act \cup {at[c]})
      BY <2>4, <3>1, FS_Subset
    <3> QED
      BY <2>3, <3>1, <3>2, FS_CardinalityType
  <2>6. raced' \/ Room
    BY <1>1, <1>4 DEF DeviceInv, RoomFor, Busy
  <2>7. DevicesWithinLimit'
    BY <2>3, <2>5, <2>6 DEF DevicesWithinLimit, Room, Act
  <2> QED
    BY <2>1, <2>2, <2>7 DEF DeviceInv
<1> QED
  BY <1>3, <1>4 DEF Create, SetActive

\* A look-up of the active record moves its actor, and no Start towards its INSERT.
LEMMA DeviceLookUp ==
  ASSUME DeviceInv, NEW a \in Actors, NEW e, NEW n, NEW y, NEW f, FindActiveByDevice(a, e, n, y, f),
         a \in Starts => {e, n, y, f} \subseteq StartPlaces \ Busy,
         "create" \notin {e, n, y, f}
  PROVE  DeviceInv'
<1>1. UNCHANGED <<active, recs, snap, raced>>
  BY DEF FindActiveByDevice, rowVars
<1>2. PICK to \in {e, n, y, f} : pc' = [pc EXCEPT ![a] = to]
  BY DEF FindActiveByDevice, Goto
<1>3. UNCHANGED work \/ \E x : work' = [work EXCEPT ![a] = x]
  BY DEF FindActiveByDevice
<1>4. DOMAIN pc' = Actors /\ DOMAIN work' = Actors
  BY <1>2, <1>3 DEF DeviceInv, DeviceTypeOK
<1>5. \A c \in Actors : c # a => pc'[c] = pc[c] /\ work'[c] = work[c]
  BY <1>2, <1>3 DEF DeviceInv, DeviceTypeOK
<1>6. pc'[a] = to
  BY <1>2 DEF DeviceInv, DeviceTypeOK
<1> QED
  BY <1>1, <1>2, <1>4, <1>5, <1>6, StartsAreActors, DeviceQuiet

\* What an actor does after the mark.
LEMMA DeviceFinish ==
  ASSUME DeviceInv, NEW a \in Actors, SettledAll(a) \/ DeleteHeartbeat(a) \/ RemoveActiveSession(a)
  PROVE  DeviceInv'
<1>1. UNCHANGED <<active, recs, snap, raced>>
  BY DEF SettledAll, DeleteHeartbeat, RemoveActiveSession, rowVars
<1>2. PICK to : pc' = [pc EXCEPT ![a] = to]
  BY DEF SettledAll, DeleteHeartbeat, RemoveActiveSession, Goto
<1>3. UNCHANGED work \/ \E x : work' = [work EXCEPT ![a] = x]
  BY DEF SettledAll, DeleteHeartbeat, RemoveActiveSession
<1>4. DOMAIN pc' = Actors /\ DOMAIN work' = Actors
  BY <1>2, <1>3 DEF DeviceInv, DeviceTypeOK
<1>5. \A c \in Actors : c # a => pc'[c] = pc[c] /\ work'[c] = work[c]
  BY <1>2, <1>3 DEF DeviceInv, DeviceTypeOK
<1>6. ASSUME a \in Calls
      PROVE  IF a \in Starts THEN pc'[a] \in Busy ELSE pc'[a] # "create"
  BY <1>6 DEF SettledAll, DeleteHeartbeat, RemoveActiveSession, Goto, AfterWork, Starts, Busy,
              DeviceInv, DeviceTypeOK
<1>7. ASSUME a \in Starts
      PROVE  Room \/ raced \/ snap[a] # recs
  <2>1. pc[a] \in Busy /\ ~(pc[a] = "settle" /\ Evicting(a))
    BY DEF SettledAll, DeleteHeartbeat, RemoveActiveSession, Evicting, Busy
  <2> QED
    BY <1>7, <2>1 DEF DeviceInv, RoomFor
<1> QED
  BY <1>1, <1>4, <1>5, <1>6, <1>7, StartsAreActors, DeviceQuiet DEF StartPlaces

\* A step of a request that has nothing to do with the count.
LEMMA DeviceElsewhere ==
  ASSUME DeviceInv, NEW c \in Calls, UNCHANGED <<active, recs, snap, raced, work>>,
         \/ pc[c] \notin StartPlaces /\ \E to : to # "create" /\ pc' = [pc EXCEPT ![c] = to]
         \/ \E to \in {"end", "list"} : pc' = [pc EXCEPT ![c] = to]
  PROVE  DeviceInv'
<1>1. PICK to : to # "create" /\ pc' = [pc EXCEPT ![c] = to]
  OBVIOUS
<1>2. c \in Starts => pc'[c] \in {"end", "list"}
  BY StartsAreActors DEF DeviceInv, DeviceTypeOK
<1>3. DOMAIN pc' = Actors /\ \A d \in Actors : d # c => pc'[d] = pc[d]
  BY <1>1 DEF DeviceInv, DeviceTypeOK
<1>4. pc'[c] # "create"
  BY <1>1, StartsAreActors DEF DeviceInv, DeviceTypeOK
<1>5. DOMAIN work' = Actors
  BY DEF DeviceInv, DeviceTypeOK
<1> QED
  BY <1>2, <1>3, <1>4, <1>5, StartsAreActors, DeviceQuiet DEF StartPlaces, Busy

\* Every step of a request preserves the limit of devices.
LEMMA DeviceCalls ==
  ASSUME DeviceInv, NEW c \in Calls, CallStep(c) \/ SettleStep(c)
  PROVE  DeviceInv'
<1> USE DEF rowVars, Goto
<1>0. c \in Actors
  BY StartsAreActors
<1>1. {"end", "count", "touch"} \subseteq StartPlaces \ Busy
  BY DEF StartPlaces, Busy
<1>2. CASE StartCheck(c)
  BY <1>0, <1>1, <1>2, DeviceLookUp DEF StartCheck
<1>3. CASE EvictOldestIfFull(c)
  BY <1>3, DeviceCount
<1>4. CASE Create(c)
  <2>1. c \in Starts
    BY <1>4 DEF Create, DeviceInv, DeviceTypeOK
  <2> QED
    BY <1>4, <2>1, DeviceCreate
<1>5. CASE FindAgain(c)
  BY <1>0, <1>1, <1>5, DeviceLookUp DEF FindAgain
<1>6. CASE TouchFirst(c) \/ ListSession(c) \/ CutOff(c)
  BY <1>6, DeviceElsewhere DEF TouchFirst, ListSession, CutOff
<1>7. CASE Heartbeat(c) \/ TouchHeartbeat(c)
  BY <1>7, DeviceElsewhere DEF Heartbeat, TouchHeartbeat, StartPlaces, Busy
<1>8. CASE ConfirmActive(c) \/ StopDevice(c)
  <2>1. c \notin Starts
    BY <1>8 DEF ConfirmActive, StopDevice, DeviceInv, DeviceTypeOK, StartPlaces, Busy
  <2>2. CASE ConfirmActive(c)
    BY <1>0, <2>1, <2>2, DeviceLookUp DEF ConfirmActive
  <2>3. CASE StopDevice(c)
    BY <1>0, <2>1, <2>3, DeviceLookUp DEF StopDevice
  <2> QED
    BY <1>8, <2>2, <2>3
<1>9. CASE Stop(c)
  <2>1. c \notin Starts
    BY <1>9 DEF Stop, DeviceInv, DeviceTypeOK, StartPlaces, Busy
  <2>2. CASE Fails(c)
    BY <2>2, DeviceElsewhere DEF Fails
  <2>3. CASE ~Fails(c)
    <3>1. /\ UNCHANGED <<active, recs, snap, raced>>
          /\ pc' = [pc EXCEPT ![c] = "settle"] /\ \E x : work' = [work EXCEPT ![c] = x]
      BY <1>9, <2>3 DEF Stop
    <3>2. /\ DOMAIN pc' = Actors /\ DOMAIN work' = Actors
          /\ \A a \in Actors : a # c => pc'[a] = pc[a] /\ work'[a] = work[a]
      BY <3>1 DEF DeviceInv, DeviceTypeOK
    <3>3. pc'[c] # "create"
      BY <1>0, <3>1 DEF DeviceInv, DeviceTypeOK
    <3> QED
      BY <2>1, <3>1, <3>2, <3>3, StartsAreActors, DeviceQuiet
  <2> QED
    BY <2>2, <2>3
<1>10. CASE SettleStep(c)
  BY <1>0, <1>10, DeviceSettle, DeviceFinish DEF SettleStep
<1> QED
  BY <1>2, <1>3, <1>4, <1>5, <1>6, <1>7, <1>8, <1>9, <1>10 DEF CallStep, StartStep

\* The scanner and the event handler of a pod settle, and never start.
LEMMA DevicePods ==
  ASSUME DeviceInv, NEW p \in Pods, ScanStep(p) \/ EventStep(p) \/ LeaveSessions(p)
  PROVE  DeviceInv'
<1> USE DEF rowVars, keyVars, Goto
<1>1. {Scanner(p), Handler(p)} \subseteq Actors \ Calls
  BY ActorAssumption DEF Actors
<1> HIDE DEF Scanner, Handler
<1>2. CASE SettleDeadSession(p) \/ HandlerLooksUp(p)
  <2>1. Scanner(p) \in Actors /\ Handler(p) \in Actors /\ Scanner(p) \notin Starts /\ Handler(p) \notin Starts
    BY <1>1, StartsAreActors
  <2>2. CASE FindActiveByDevice(Scanner(p), "unlist", "unlist", "unlock", "settle")
    BY <2>1, <2>2, DeviceLookUp
  <2>3. CASE FindActiveByDevice(Handler(p), "delete key", "delete key", "renew young", "settle")
    <3>1. "create" \notin {"delete key", "delete key", "renew young", "settle"}
      OBVIOUS
    <3> QED
      BY <2>1, <2>3, <3>1, DeviceLookUp
  <2> QED
    BY <1>2, <2>2, <2>3 DEF SettleDeadSession, HandlerLooksUp
<1>3. CASE SettleStep(Scanner(p)) \/ SettleStep(Handler(p))
  BY <1>1, <1>3, DeviceSettle, DeviceFinish DEF SettleStep
<1>4. CASE \/ ScanTimeout(p) \/ ScanDone(p) \/ HandleHBExpired(p)
           \/ HandlerTouches(p) \/ HandlerUnlocks(p) \/ LeaveSessions(p)
  <2>1. UNCHANGED <<active, recs, snap, raced>>
    BY <1>4 DEF ScanTimeout, ScanDone, HandleHBExpired, HandlerTouches, HandlerUnlocks, LeaveSessions
  <2>2. DOMAIN pc' = Actors /\ DOMAIN work' = Actors
    BY <1>4 DEF ScanTimeout, ScanDone, HandleHBExpired, HandlerTouches, HandlerUnlocks,
                LeaveSessions, DeviceInv, DeviceTypeOK
  <2>3. \A c \in Calls : pc'[c] = pc[c] /\ work'[c] = work[c]
    BY <1>1, <1>4, StartsAreActors
    DEF ScanTimeout, ScanDone, HandleHBExpired, HandlerTouches, HandlerUnlocks,
        LeaveSessions, DeviceInv, DeviceTypeOK
  <2> QED
    BY <2>1, <2>2, <2>3, StartsAreActors, DeviceQuiet
<1> QED
  BY <1>2, <1>3, <1>4 DEF ScanStep, EventStep

\* Steps that touch none of the variables the limit depends on.
LEMMA DeviceFrame ==
  ASSUME DeviceInv, UNCHANGED <<active, recs, snap, raced, pc, work>>
  PROVE  DeviceInv'
<1>1. DOMAIN pc' = Actors /\ DOMAIN work' = Actors
  BY DEF DeviceInv, DeviceTypeOK
<1> QED
  BY <1>1, DeviceQuiet

\* The sessions a deployment begins with are within the limit.
LEMMA DeviceStart == ClusterInit => DeviceInv
<1> SUFFICES ASSUME NEW d \in Deployments, SessionInit(d.started, d.calls),
                    d.started \subseteq Devices, Cardinality(d.started) <= MaxDevices
             PROVE  DeviceInv
  BY ClusterAssumption DEF ClusterInit
<1> DEFINE n == Cardinality(d.started)
<1>1. n \in Nat /\ IsFiniteSet(d.started)
  BY FS_Subset, FS_CardinalityType, SessionAssumption
<1>2. PICK f \in [Devices -> 0 .. n] :
        /\ \A e \in Devices \ d.started : f[e] = 0
        /\ active = f
  BY DEF SessionInit
<1>3. active \in [Devices -> Nat] /\ recs \in Nat
  BY <1>1, <1>2 DEF SessionInit
<1>4. /\ DOMAIN pc = Actors /\ DOMAIN work = Actors /\ DOMAIN snap = Actors
      /\ \A c \in Calls : snap[c] = 0 /\ pc[c] \in {Op[c], "idle"}
  BY StartsAreActors DEF SessionInit
<1>5. \A c \in Calls : Op[c] \in {"start", "beat", "stop", "stop device"}
  BY SessionAssumption
<1>6. DeviceTypeOK
  <2>1. \A c \in Starts : snap[c] \in Nat /\ snap[c] <= recs
    BY <1>3, <1>4, StartsAreActors
  <2>2. \A c \in Starts : pc[c] \in StartPlaces
    BY <1>4 DEF Starts, StartPlaces
  <2>3. \A c \in Calls : pc[c] # "create"
    BY <1>4, <1>5
  <2> QED
    BY <1>3, <1>4, <2>1, <2>2, <2>3 DEF DeviceTypeOK
<1>7. DevicesWithinLimit
  <2>1. Act \subseteq d.started
    BY <1>2 DEF Act
  <2>2. Cardinality(Act) <= n /\ Cardinality(Act) \in Nat
    BY <1>1, <2>1, FS_Subset, FS_CardinalityType
  <2>3. n <= MaxDevices /\ MaxDevices \in Nat
    BY SessionAssumption
  <2>4. Cardinality(Act) <= MaxDevices
    BY <1>1, <2>2, <2>3
  <2> QED
    BY <2>4 DEF DevicesWithinLimit, Act
<1>8. \A c \in Starts : RoomFor(c)
  BY <1>4 DEF RoomFor, Busy, Starts
<1> QED
  BY <1>6, <1>7, <1>8 DEF DeviceInv

\* Every step of the cluster preserves the limit of devices.
LEMMA DeviceNext == DeviceInv /\ [ClusterNext]_clusterAllVars => DeviceInv'
<1> SUFFICES ASSUME DeviceInv, [ClusterNext]_clusterAllVars
             PROVE  DeviceInv'
  OBVIOUS
<1> USE DEF sessionVars, rowVars, actorVars
<1>1. CASE UNCHANGED sessionVars
  BY <1>1, DeviceFrame
<1>2. CASE SessionStep
  <2>1. ASSUME NEW e \in Devices, Settles(e) \/ HeartbeatExpires(e) \/ SettleLockExpires(e)
        PROVE  DeviceInv'
    BY <2>1, DeviceFrame DEF Settles, HeartbeatExpires, SettleLockExpires
  <2>2. CASE Flush
    BY <2>2, DeviceFrame DEF Flush
  <2> QED
    BY <1>2, <2>1, <2>2, DeviceCalls, DevicePods DEF SessionStep
<1>3. ASSUME NEW p \in Pods, PodStep(p)
      PROVE  DeviceInv'
  <2>1. CASE BackfillActiveSessions
    BY <2>1, DeviceFrame DEF BackfillActiveSessions
  <2> QED
    BY <1>1, <1>3, <2>1, DevicePods DEF PodStep
<1>4. CASE UNCHANGED clusterAllVars
  BY <1>1, <1>4 DEF clusterAllVars
<1> QED
  BY <1>1, <1>2, <1>3, <1>4 DEF ClusterNext

\* A user never has more sessions than maxDevices, however requests, scans, events and pods
\* that die interleave, unless a Start counted what was not true any more or another one
\* created a session between its count and its INSERT.
THEOREM DeviceLimit == ClusterSpec => []DevicesWithinLimit
<1>1. DeviceInv => DevicesWithinLimit
  BY DEF DeviceInv
<1> QED
  BY <1>1, DeviceStart, DeviceNext, PTL DEF ClusterSpec
=============================================================================
