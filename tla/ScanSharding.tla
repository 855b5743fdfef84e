---------------------------- MODULE ScanSharding ----------------------------
(***************************************************************************)
(* Which shards of the active set each pod scans: scan_sharding.go and the   *)
(* two background loops of idle_service.go, StartScanFailover and            *)
(* StartPodDiscovery.  The set of shards is 0 .. SetShards - 1; the pod with *)
(* index i of n scans those with shard % n = i.                              *)
(*                                                                           *)
(* A round of a loop is one step: what it reads changes over seconds.        *)
(***************************************************************************)
EXTENDS LeaderElection

CONSTANTS SetShards   \* ActiveSetShardCount

ASSUME ShardAssumption == SetShards \in Nat \ {0}

VARIABLES index,      \* scanPodIndex of each pod
          total,      \* scanPodTotal
          owned,      \* podSetShards
          reconciles, \* pods whose failover loop runs
          seen,       \* seenAlive of those loops
          alive,      \* indices whose key idle:pod-alive:<i> is set
          dns         \* A records of the headless service, as the resolver's cache has them

shardVars == <<index, total, owned, reconciles, seen, alive, dns>>

Shards == 0 .. SetShards - 1

ShardTypeOK ==
    /\ index \in [Pods -> Pods]
    /\ total \in [Pods -> 1 .. Cardinality(Pods)]
    /\ owned \in [Pods -> SUBSET Shards]
    /\ reconciles \subseteq Pods
    /\ seen \in [Pods -> SUBSET Pods]
    /\ alive \subseteq Pods
    /\ dns \in 0 .. Cardinality(Pods)

\* calcPodSetShards: everything if there is one pod.
CalcPodSetShards(i, n) == {s \in Shards : n <= 1 \/ s % n = i}

\* HC_POD_TOTAL.
Replicas == Cardinality(conf.replicas)

\* resolvePodTotal: the DNS in headless mode unless it answers nothing, else HC_POD_TOTAL.
ResolvePodTotal == IF conf.headless /\ dns > 0 THEN dns ELSE Replicas

\* resolvePodIndex, cut to the total by resolvePodShard, for good.
ResolvePodIndex(p) == IF p >= ResolvePodTotal THEN ResolvePodTotal - 1 ELSE p

\* Every pod was there when the deployment came up, before any was ready.
ShardInit ==
    /\ index = [p \in Pods |-> p]
    /\ total = [p \in Pods |-> Replicas]
    /\ owned = [p \in Pods |-> IF conf.sharded THEN CalcPodSetShards(p, Replicas) ELSE {}]
    /\ reconciles = IF conf.failover /\ Replicas > 1 THEN Up ELSE {}
    /\ seen = [p \in Pods |-> {}]
    /\ alive = {}
    /\ dns = Cardinality(Up)

\* NewIdleService on a pod that starts, and whether StartScanFailover stays.
ResolveShards(p) ==
    /\ index' = [index EXCEPT ![p] = ResolvePodIndex(p)]
    /\ total' = [total EXCEPT ![p] = ResolvePodTotal]
    /\ owned' = [owned EXCEPT ![p] = IF conf.sharded THEN CalcPodSetShards(index'[p], total'[p])
                                     ELSE {}]
    /\ reconciles' = IF conf.failover /\ total'[p] > 1 THEN reconciles \cup {p} ELSE reconciles
    /\ seen' = [seen EXCEPT ![p] = {}]
    /\ UNCHANGED <<alive, dns>>

\* The loops of a pod end with it.
LeaveShards(p) == reconciles' = reconciles \ {p} /\ UNCHANGED <<index, total, owned, seen, alive, dns>>

-----------------------------------------------------------------------------
\* Slip: the loop over the pods begins at one.
ComputeOwnedShardsFromOne(p, live) ==
    CalcPodSetShards(index[p], total[p])
        \cup (IF conf.elects /\ p \in believes
              THEN UNION {CalcPodSetShards(i, total[p]) : i \in (1 .. total[p] - 1) \ live} ELSE {})

\* ComputeOwnedShards: the leader adds the shards of every pod that is not in live, also of
\* one that was never seen alive.
ComputeOwnedShards(p, live) ==
    CalcPodSetShards(index[p], total[p])
        \cup (IF conf.elects /\ p \in believes
              THEN UNION {CalcPodSetShards(i, total[p]) : i \in (0 .. total[p] - 1) \ live} ELSE {})

\* One round of the failover loop: report, probe, and from the second round on take over.
\* Alive is who answers now and has answered before.  The comment of StartScanFailover
\* (idle_service.go, 186-189) has only pods taken over that were seen alive once and are gone;
\* the code takes every other index for dead, so a pod that has not registered yet, or that is
\* seen for the first time, is taken over too.
Reconcile(p) ==
    /\ phase[p] = "up" /\ p \in reconciles
    /\ LET now == {i \in alive : i < total[p]} \cup {index[p]}
           live == (seen[p] \cap now) \cup {index[p]}
       IN  /\ alive' = alive \cup {index[p]}
           /\ owned' = [owned EXCEPT ![p] = IF seen[p] = {} THEN CalcPodSetShards(index[p], total[p])
                                            ELSE ComputeOwnedShards(p, live)]
           /\ seen' = [seen EXCEPT ![p] = @ \cup now]
    /\ UNCHANGED <<index, total, reconciles, dns, leaderVars, faultVars>>

\* A liveness key runs out that no loop writes; or one that is written too late.
AliveExpires(i) ==
    /\ i \in alive
    /\ \/ i \notin {index[p] : p \in Up \cap reconciles} /\ UNCHANGED faultVars
       \/ i \in {index[p] : p \in Up \cap reconciles} /\ Disturb
    /\ alive' = alive \ {i}
    /\ UNCHANGED <<index, total, owned, reconciles, seen, dns, leaderVars>>

\* The records of the service follow the pods that are ready.
DnsUpdates ==
    /\ dns # Cardinality(Up)
    /\ dns' = Cardinality(Up)
    /\ UNCHANGED <<index, total, owned, reconciles, seen, alive, leaderVars, faultVars>>

\* One round of StartPodDiscovery: the total follows the DNS, the index never does.  The
\* shards are left to the failover loop where that is configured.
DiscoverPods(p) ==
    /\ conf.headless /\ phase[p] = "up"
    /\ dns >= 1 /\ dns # total[p]
    /\ total' = [total EXCEPT ![p] = dns]
    /\ owned' = IF conf.failover THEN owned
                ELSE [owned EXCEPT ![p] = CalcPodSetShards(index[p], dns)]
    /\ UNCHANGED <<index, reconciles, seen, alive, dns, leaderVars, faultVars>>

ShardStep ==
    \/ \E p \in Pods : Reconcile(p) \/ AliveExpires(p) \/ DiscoverPods(p)
    \/ DnsUpdates

\* The loops run and TTLs run out; without faults they come to rest.
ShardFairness == WF_<<shardVars, leaderVars, faultVars>>(ShardStep /\ UNCHANGED faults)

-----------------------------------------------------------------------------
\* ownsSessionByShard, the filter of the keyspace events: the configured share alone.
OwnsByShard(p, s) == ~conf.sharded \/ total[p] <= 1 \/ s % total[p] = index[p]

\* What a scan of the pod covers: scanTimeoutByRedis takes no shards for all of them, and
\* idleTimeoutScan does nothing on a pod that does not lead where scans are not sharded.
Scans(p) ==
    IF ~conf.sharded THEN IF IsLeader(p) THEN Shards ELSE {}
    ELSE IF owned[p] = {} THEN Shards ELSE owned[p]

\* In the end every shard of the active set is scanned by a running pod, whatever pods died,
\* left or came back, if the failover and the election are configured; with static shards
\* alone it holds while no pod leaves.  It is the code's rule that makes it hold, and not the
\* one its comment states: a leader that only took over pods it had seen alive would never
\* scan for one that died before the leader's first round.
EveryShardIsScanned ==
    <>[](\/ Up = {}
         \/ conf.sharded /\ ~(conf.failover /\ conf.elects) /\ harm \cap {"crash", "shutdown"} # {}
         \/ UNION {Scans(p) : p \in Up} = Shards)
=============================================================================
