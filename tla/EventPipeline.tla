--------------------------- MODULE EventPipeline ---------------------------
(***************************************************************************)
(* The event pipeline: a pod that produces events (MqProducer), the broker  *)
(* (MqBroker), a pod that consumes them (MqConsumers) and the task service  *)
(* the events feed (TaskProgress).  The pods crash and restart on their own.*)
(***************************************************************************)
EXTENDS MqProducer, MqConsumers

\* Where a behaviour starts: mq.type, what the broker holds, what the producing pod will send,
\* whether a consuming pod runs, the day, the Claim requests to come, whether the database has
\* a replica, and the fault budget.
\* A broker that already holds a message twice is paired with no producing pod: the duplicate
\* would be charged to that pod.
CONSTANTS Deployments

ASSUME DeploymentAssumption ==
    \A d \in Deployments :
        /\ d.kinds \subseteq Kinds /\ d.traffic \subseteq Msgs
        /\ d.backlog \in Seq(Msgs) /\ Len(d.backlog) <= MaxLog
        /\ d.traffic # {} => IsInjective(d.backlog)
        /\ d.today \in 1 .. MaxDay /\ d.claimers \subseteq Claimers
        /\ d.slaves \in BOOLEAN /\ d.faults \in 0 .. MaxFaults

pipelineVars == <<brokerVars, prodVars, consVars, taskVars, faultVars>>

PipelineInit ==
    /\ \E d \in Deployments :
          /\ ProducerInit(d.kinds, d.backlog, d.traffic)
          /\ ConsumerInit(d.consumes)
          /\ TaskInit(d.today, d.claimers, d.slaves)
          /\ FaultInit(d.faults)

PipelineNext ==
    \/ ProducerNext /\ UNCHANGED <<consVars, taskVars>>
    \/ ConsumerStep /\ UNCHANGED prodVars
    \/ TaskOwnStep /\ UNCHANGED <<brokerVars, prodVars, consVars>>

PipelineSpec ==
    /\ PipelineInit
    /\ [][PipelineNext]_pipelineVars
    /\ ProducerFairness
    /\ ConsumerFairness

-----------------------------------------------------------------------------
\* Every variable of the pipeline has its type, and the producer's queue stays within
\* QueueSize whatever is put back into it.
PipelineTypeOK == ProducerTypeOK /\ ConsumerTypeOK /\ TaskTypeOK
=============================================================================
