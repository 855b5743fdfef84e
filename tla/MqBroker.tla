------------------------------ MODULE MqBroker ------------------------------
(***************************************************************************)
(* The message broker as the adapters of internal/mq use it: what it has    *)
(* accepted, in order, and whether it can be reached.  It is shared by the  *)
(* producer (module MqProducer) and the consumers (module MqConsumers).     *)
(***************************************************************************)
EXTENDS FaultBudget, Sequences, FiniteSets

CONSTANTS Msgs,      \* events; two sends of one business event carry one event_id
          Kinds,     \* values of mq.type under consideration
          MaxLog     \* bound: messages the broker accepts

VARIABLES kind,      \* mq.type of this deployment
          log,       \* messages accepted so far: partition log, queue or in-process channel
          reachable  \* the broker answers

brokerVars == <<kind, log, reachable>>

\* factory.go NewProducer / NewConsumer / IsEnabled: the types with an adapter of their own;
\* "none" stands for every setting that gets the no-op adapters.
AllKinds == {"kafka", "rabbitmq", "rocketmq", "memory", "none"}

\* The types whose producer is built on producerBase.
Buffered(k) == k \in {"kafka", "rabbitmq", "rocketmq"}

ASSUME BrokerAssumption == Kinds \subseteq AllKinds /\ MaxLog \in Nat

BrokerTypeOK ==
    /\ kind \in Kinds
    /\ log \in Seq(Msgs)
    /\ reachable \in BOOLEAN

\* The broker stores ms behind what it has.
Accept(ms) == log' = log \o ms

\* How often the broker has stored m.
Copies(m) == Cardinality({i \in DOMAIN log : log[i] = m})
=============================================================================
