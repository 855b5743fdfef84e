---------------------------- MODULE MCIdleCluster ----------------------------
(* Instances of IdleCluster for TLC. *)
EXTENDS IdleCluster, TLC

CONSTANTS d1, d2, start2, again1, beat1, stop, stop1

Ops == start2 :> "start" @@ again1 :> "start" @@ beat1 :> "beat"
       @@ stop :> "stop" @@ stop1 :> "stop device"
Targets == start2 :> d2 @@ again1 :> d1 @@ beat1 :> d1 @@ stop :> d1 @@ stop1 :> d1

Plain == [elects |-> FALSE, sharded |-> FALSE, failover |-> FALSE, headless |-> FALSE,
          redis |-> TRUE, evented |-> FALSE, persists |-> FALSE, replicas |-> {0}, fragile |-> {}]
Evented == [Plain EXCEPT !.evented = TRUE]
NoRedis == [Plain EXCEPT !.redis = FALSE, !.persists = TRUE]
Elected == [Plain EXCEPT !.elects = TRUE]
Static == [Plain EXCEPT !.sharded = TRUE, !.headless = TRUE]
Failover == [Plain EXCEPT !.sharded = TRUE, !.failover = TRUE, !.elects = TRUE]
Headless == [Failover EXCEPT !.headless = TRUE]

OnePod(c, calls, budget) ==
    [conf |-> c, today |-> MaxPeriod, started |-> {d1}, calls |-> calls, faults |-> budget]
AllPods(c, budget) ==
    [conf |-> [c EXCEPT !.replicas = Pods, !.fragile = Pods],
     today |-> MaxPeriod, started |-> {}, calls |-> {}, faults |-> budget]

\* One pod: an eviction and a new session of the device evicted, a stop and a start that
\* cross, events on a pod that may die, a database in place of Redis.  Two pods that hear of
\* the same events.  All pods: singleton jobs, static shards, the takeover with and without
\* the DNS, and a session whose own pod may die.
ScenarioSeq ==
    <<OnePod(Plain, {start2, again1}, 0),
      OnePod(Plain, {stop, again1}, 1),
      OnePod(Plain, {start2}, 2),
      OnePod(Evented, {again1}, 0),
      OnePod(Evented, {beat1, stop}, 0),
      [OnePod(Evented, {}, 1) EXCEPT !.conf.fragile = {0}],
      [OnePod(Evented, {}, 0) EXCEPT !.conf.replicas = {0, 1}],
      [OnePod(NoRedis, {beat1, stop1}, 1) EXCEPT !.today = 0],
      [AllPods(Elected, 2) EXCEPT !.today = 0],
      AllPods(Static, 2),
      AllPods(Failover, 2),
      AllPods(Headless, 1),
      [AllPods(Failover, 1) EXCEPT !.started = {d1}, !.conf.fragile = {1}]>>

Scenarios == {ScenarioSeq[i] : i \in DOMAIN ScenarioSeq}
=============================================================================
