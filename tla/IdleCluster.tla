---------------------------- MODULE IdleCluster ----------------------------
(***************************************************************************)
(* The pods of one deployment together: the election and the singleton jobs  *)
(* (LeaderElection), the shares of the scan (ScanSharding) and the sessions  *)
(* (IdleSession).  A pod crashes, shuts down in order and starts again.      *)
(***************************************************************************)
EXTENDS IdleSession

\* Where a behaviour starts: the deployment, the period, the sessions there are, the
\* requests to come and the fault budget.
CONSTANTS Deployments

ASSUME ClusterAssumption ==
    \A d \in Deployments :
        /\ (d.conf.failover \/ d.conf.headless) => d.conf.sharded
        /\ d.conf.fragile \subseteq d.conf.replicas /\ d.conf.replicas \subseteq Pods
        /\ d.today \in 0 .. MaxPeriod /\ d.started \subseteq Devices
        /\ Cardinality(d.started) <= MaxDevices
        /\ d.calls \subseteq Calls /\ d.faults \in 0 .. MaxFaults

clusterAllVars == <<clusterVars, sessionVars, faultVars>>

ClusterInit ==
    \E d \in Deployments :
        /\ LeaderInit(d.conf, d.today)
        /\ ShardInit
        /\ SessionInit(d.started, d.calls)
        /\ FaultInit(d.faults)

\* A shutdown ends when the job that runs has ended.
PodStep(p) ==
    \/ StopElector(p) /\ UNCHANGED <<shardVars, sessionVars>>
    \/ /\ LoopExit(p) /\ pc[Scanner(p)] = "idle"
       /\ LeaveShards(p) /\ LeaveSessions(p)
    \/ Crash(p) /\ LeaveShards(p) /\ LeaveSessions(p)
    \/ /\ StartPod(p) /\ ResolveShards(p) /\ BackfillActiveSessions
       /\ UNCHANGED faultVars

ClusterNext ==
    \/ LeaderStep /\ UNCHANGED <<shardVars, sessionVars>>
    \/ ShardStep /\ UNCHANGED sessionVars
    \/ SessionStep
    \/ \E p \in Pods : PodStep(p)

ClusterSpec ==
    /\ ClusterInit
    /\ [][ClusterNext]_clusterAllVars
    /\ LeaderFairness /\ ShardFairness /\ SessionFairness

-----------------------------------------------------------------------------
\* Every variable of the cluster has its type; no pod ever takes an index or a total that is
\* outside of the deployment.
ClusterTypeOK == LeaderTypeOK /\ ShardTypeOK /\ SessionTypeOK
=============================================================================
