--------------------------- MODULE LeaderElection ---------------------------
(***************************************************************************)
(* The pods of a deployment, the election of a leader among them             *)
(* (cluster/leader.go over Lock, RefreshLock and Unlock of cache/l2.go) and  *)
(* the jobs of scheduler.go that only the leader runs.                       *)
(*                                                                           *)
(* A tick of the elector is a Redis command and, later, the use of its reply:*)
(* Stop runs in another goroutine and falls in between.  A tick that changes *)
(* nothing, a Lock that is refused or a renewal that succeeds, is no step, and*)
(* neither is one that fails: what it does is to let the lease run out under *)
(* a pod that goes on believing.                                             *)
(***************************************************************************)
EXTENDS Integers, FiniteSets, FaultBudget

CONSTANTS Pods,      \* ordinals of the StatefulSet, 0 .. n - 1
          NoPod,     \* nobody
          MaxPeriod  \* bound: period boundaries a behaviour crosses

ASSUME PodAssumption ==
    /\ Pods # {} /\ Pods = 0 .. Cardinality(Pods) - 1
    /\ NoPod \notin Pods
    /\ MaxPeriod \in Nat

VARIABLES conf,       \* the deployment: its switches, its replicas, and which of them may stop
          phase,      \* "down", "up", or "closing" once the shutdown has begun
          lease,      \* whose token the key idle:leader holds
          token,      \* pods whose lockTokens map holds their token
          believes,   \* LeaderElector.leader
          reply,      \* what a tick has to apply yet
          period,     \* the period it is
          lastKey,    \* scheduledJob.lastKey of each pod
          resets      \* periods ResetPeriod has run for

electVars == <<lease, token, believes, reply>>
jobVars == <<period, lastKey, resets>>
leaderVars == <<conf, phase, electVars, jobVars>>

LeaderTypeOK ==
    /\ phase \in [Pods -> {"down", "up", "closing"}]
    /\ lease \in Pods \cup {NoPod}
    /\ token \subseteq Pods
    /\ believes \subseteq Pods
    /\ reply \in [Pods -> {"none", "won", "lost"}]
    /\ period \in 0 .. MaxPeriod
    /\ lastKey \in [Pods -> 0 .. MaxPeriod]
    /\ resets \subseteq 1 .. MaxPeriod

Up == {p \in Pods : phase[p] = "up"}

\* initLeaderElection: an elector is made only if the election is enabled.
LeaderInit(config, today) ==
    /\ conf = config
    /\ phase = [p \in Pods |-> IF p \in config.replicas THEN "up" ELSE "down"]
    /\ lease = NoPod /\ token = {} /\ believes = {}
    /\ reply = [p \in Pods |-> "none"]
    /\ period = today /\ lastKey = [p \in Pods |-> today] /\ resets = 1 .. today

\* IsLeader: without an elector every pod may act.
IsLeader(p) == ~conf.elects \/ p \in believes

-----------------------------------------------------------------------------
(* LeaderElector.                                                            *)

\* RefreshLock succeeds: the key still holds the token this process stored.
RefreshLock(p) == p \in token /\ lease = p

\* Slip: a key that is already set is taken over.
LockTakenOver(p) == TRUE

\* SETNX succeeds.
LeaseFree(p) == lease = NoPod

\* The Redis half of tryAcquireOrRenew.  Lock stores its token with the reply; a
\* RefreshLock that finds the lease gone forgets it at once.
TryAcquireOrRenew(p) ==
    /\ conf.elects /\ phase[p] = "up" /\ reply[p] = "none"
    /\ \/ /\ p \in believes /\ ~RefreshLock(p)
          /\ reply' = [reply EXCEPT ![p] = "lost"]
          /\ token' = token \ {p}
          /\ UNCHANGED lease
       \/ /\ p \notin believes /\ LeaseFree(p)
          /\ reply' = [reply EXCEPT ![p] = "won"]
          /\ lease' = p
          /\ UNCHANGED token
    /\ UNCHANGED <<conf, phase, believes, jobVars, faultVars>>

\* setLeader with the reply, also when Stop has come in between.
SetLeader(p) ==
    /\ reply[p] # "none"
    /\ token' = IF reply[p] = "won" THEN token \cup {p} ELSE token
    /\ believes' = IF reply[p] = "won" THEN believes \cup {p} ELSE believes \ {p}
    /\ reply' = [reply EXCEPT ![p] = "none"]
    /\ UNCHANGED <<conf, phase, lease, jobVars, faultVars>>

\* The reply of a Lock does not arrive: the key is set and no token is stored.
TickReplyLost(p) ==
    /\ reply[p] = "won"
    /\ Disturb
    /\ reply' = [reply EXCEPT ![p] = "none"]
    /\ UNCHANGED <<conf, phase, lease, token, believes, jobVars>>

\* The lease of a pod that does not renew it runs out; so does, if its renewals fail
\* or come too late, that of a pod that would, or that has not even seen the reply of its SETNX.
LeaseExpires ==
    /\ lease # NoPod
    /\ \/ lease \notin Up /\ UNCHANGED faultVars
       \/ lease \notin token /\ reply[lease] # "won" /\ UNCHANGED faultVars
       \/ lease \in Up /\ (lease \in token \/ reply[lease] = "won") /\ Harm("late renewal")
    /\ lease' = NoPod
    /\ UNCHANGED <<conf, phase, token, believes, reply, jobVars>>

\* release: Unlock pops the token and deletes the key if it holds it, then setLeader(false).
Release(p) ==
    /\ lease' = IF RefreshLock(p) THEN NoPod ELSE lease
    /\ token' = token \ {p}
    /\ believes' = believes \ {p}

\* The shutdown of a pod cancels the background context and calls Stop; its ticks end.
StopElector(p) ==
    /\ phase[p] = "up" /\ p \in conf.fragile
    /\ Harm("shutdown")
    /\ phase' = [phase EXCEPT ![p] = "closing"]
    /\ Release(p)
    /\ UNCHANGED <<conf, reply, jobVars>>

\* The loop sees the cancelled context and releases once more, or sees stopCh and just ends.
LoopExit(p) ==
    /\ phase[p] = "closing" /\ reply[p] = "none"
    /\ phase' = [phase EXCEPT ![p] = "down"]
    /\ \/ Release(p)
       \/ token' = token \ {p} /\ believes' = believes \ {p} /\ UNCHANGED lease
    /\ UNCHANGED <<conf, reply, jobVars, faultVars>>

\* The process dies: its key stays in Redis until the TTL runs out.
Crash(p) ==
    /\ phase[p] = "up" /\ p \in conf.fragile
    /\ Harm("crash")
    /\ phase' = [phase EXCEPT ![p] = "down"]
    /\ token' = token \ {p}
    /\ believes' = believes \ {p}
    /\ reply' = [reply EXCEPT ![p] = "none"]
    /\ UNCHANGED <<conf, lease, jobVars>>

\* A pod starts.  runPeriod takes the period it is for done.
StartPod(p) ==
    /\ phase[p] = "down" /\ p \in conf.replicas
    /\ phase' = [phase EXCEPT ![p] = "up"]
    /\ lastKey' = [lastKey EXCEPT ![p] = period]
    /\ UNCHANGED <<conf, electVars, period, resets>>

-----------------------------------------------------------------------------
(* Scheduler.                                                                *)

\* A day or a week ends.  The first boundary after a start finds the election over, as a
\* poll is a minute and a tick a moment, unless something kept it from ending.
PeriodEnds ==
    /\ period < MaxPeriod
    /\ period' = period + 1
    /\ \/ (\E p \in Up : IsLeader(p)) /\ UNCHANGED faultVars
       \/ ~(\E p \in Up : IsLeader(p)) /\ Harm("no leader")
    /\ UNCHANGED <<conf, phase, electVars, lastKey, resets>>

\* Slip: without an elector nobody leads.
RunsJobElectedOnly(p) == p \in believes

\* resetPeriodIfLeader and the like.
RunsJob(p) == IsLeader(p)

\* runPeriod: a poll that finds a new period takes it for done and runs the job, which does
\* nothing on a pod that is not the leader.
RunPeriod(p) ==
    /\ phase[p] = "up" /\ lastKey[p] # period
    /\ lastKey' = [lastKey EXCEPT ![p] = period]
    /\ resets' = IF RunsJob(p) THEN resets \cup {period} ELSE resets
    /\ UNCHANGED <<conf, phase, electVars, period, faultVars>>

LeaderWork ==
    \/ \E p \in Pods : TryAcquireOrRenew(p) \/ SetLeader(p) \/ RunPeriod(p)
    \/ LeaseExpires
LeaderStep == LeaderWork \/ PeriodEnds \/ \E p \in Pods : TickReplyLost(p)

\* The electors tick, the jobs poll and a TTL that nobody renews runs out.  Without faults each
\* of them is soon at rest, so none keeps the others from their turn.
LeaderFairness ==
    /\ WF_<<leaderVars, faultVars>>(LeaderWork /\ UNCHANGED faults)
    /\ WF_<<leaderVars, faultVars>>(\E p \in Pods : LoopExit(p))

-----------------------------------------------------------------------------
\* A running pod believes to be the leader without the lease only after a renewal that was
\* late (the elector keeps its state on an error), or a first reply that outlived the lease:
\* otherwise no two pods run the singleton jobs at the same time.
StaleLeaderHasACause ==
    \A p \in Up \cap believes : lease # p => "late renewal" \in harm

\* While leadership stays where it is, every period's reset runs: the leader's own poll does
\* it, although every pod takes the period for done.
EveryPeriodIsReset ==
    \A t \in 1 .. MaxPeriod :
        <>[](period = t => t \in resets \/ harm # {} \/ Up = {})
=============================================================================
