---------------------------- MODULE MqConsumers ----------------------------
(***************************************************************************)
(* The event consumer of one process: kafka_consumer.go with                *)
(* consumer_progress.go, and the consumers of rabbitmq.go, rocketmq.go and  *)
(* memory.go; the handler they call is the task service's                   *)
(* ApplyEventProgress (app.go initEventConsumer).                           *)
(*                                                                         *)
(* A delivery is an index of the broker's log.  It is fetched, looked up in *)
(* the dedup store, handled with retries, dead-lettered if that fails, and  *)
(* then committed and acknowledged.  Kafka's progress is the next index to  *)
(* read of the one partition under consideration: kept in memory and        *)
(* flushed to a file, or kept in a table; 0 is no progress recorded.        *)
(***************************************************************************)
EXTENDS MqBroker, TaskProgress

CONSTANTS Setups,     \* configurations: [store, ordered, latest, dlq]
          PoolSize,   \* deliveries handled at a time (worker_pool_size, prefetch)
          RetryMax,   \* retries of the handler
          Poison      \* messages whose JSON cannot be decoded

ASSUME ConsumerAssumption ==
    /\ Setups \subseteq [store : {"file", "sql"}, ordered : BOOLEAN, latest : BOOLEAN,
                         dlq : BOOLEAN]
    /\ PoolSize \in Nat \ {0} /\ RetryMax \in Nat
    /\ Poison \subseteq Msgs /\ Msgs = Events

VARIABLES
    cons,       \* the consumer: off, up, closing, dead in a process that runs on, or absent
    setup,      \* mq.kafka.consumer: progress store, ordered_commit, start_from_latest and
                \* whether dlq_local_path is set
    pos,        \* next index the kafka reader or the in-process channel yields
    mem, disk,  \* kafka progress in memory and on disk or in the table
    flight,     \* each delivery: where it is, failed attempts, the day its handler was
                \* called, progress row read
    fate,       \* how an index was settled first
    acked,      \* rabbitmq and rocketmq: what the broker will not deliver again
    again,      \* rocketmq: what the broker has put on its retry topic once
    seen,       \* kafka_consumer_dedup
    base        \* start_from_latest: where a reader that found no progress began

consVars == <<cons, setup, pos, mem, disk, flight, fate, acked, again, seen, base>>
consumerVars == <<brokerVars, consVars, taskVars, faultVars>>

Indices == 1 .. MaxLog
Landed == [at |-> "none", tries |-> 0, since |-> 0, row |-> 0]
InFlight == {i \in Indices : flight[i].at # "none"}
SqlStore == setup.store = "sql"

\* Without a consumer (NewConsumer failed) event-driven progress is disabled.
ConsumerInit(deployed) ==
    /\ cons = IF deployed THEN "off" ELSE "absent"
    /\ setup \in Setups
    /\ kind # "kafka" => ~setup.ordered /\ ~setup.latest
    /\ kind \in {"memory", "none"} \/ ~deployed => setup.store = "file"
    /\ pos = 1 /\ mem = 0 /\ disk = 0 /\ base = 0
    /\ flight = [i \in Indices |-> Landed]
    /\ fate = [i \in Indices |-> "none"]
    /\ acked = {} /\ again = {} /\ seen = {}

-----------------------------------------------------------------------------
(* Start, shutdown, crash. *)

\* Slip in StartAt: without recorded progress always from the end.
StartAtEnd(recorded) == IF recorded # 0 THEN recorded ELSE Len(log) + 1

\* spawnReader: from the recorded progress if there is one, else from StartOffset.
StartAt(recorded) ==
    IF recorded # 0 THEN recorded
    ELSE IF setup.latest THEN Len(log) + 1 ELSE 1

\* Get of the progress: an error is taken for "no progress recorded", of the table's query as
\* well as of the file's read or its JSON.  The file's is lasting: the next flush replaces it.
LoadProgress(recorded) ==
    \/ recorded = disk /\ UNCHANGED faultVars
    \/ /\ recorded = 0 /\ recorded # disk /\ kind = "kafka"
       /\ IF SqlStore THEN Disturb ELSE Harm("load")

\* Subscribe: an unreachable broker ends it with an error that is only logged.
ConsumerStart ==
    /\ cons = "off" /\ kind # "none"
    /\ IF reachable \/ kind = "memory"
       THEN /\ cons' = "up"
            /\ \E recorded \in {disk, 0} :
                  /\ LoadProgress(recorded)
                  /\ mem' = IF SqlStore THEN 0 ELSE recorded
                  /\ pos' = IF kind = "memory" THEN pos ELSE StartAt(recorded)
                  /\ base' = IF setup.latest /\ recorded = 0 THEN pos' ELSE base
       ELSE /\ cons' = "dead"
            /\ mem' = IF SqlStore THEN 0 ELSE disk
            /\ UNCHANGED <<pos, base, faultVars>>
    /\ UNCHANGED <<brokerVars, taskVars, setup, disk, flight, fate, acked, again, seen>>

\* bgCancel: the context of every fetch, handler and SQL commit is cancelled.
ConsumerStop ==
    /\ cons \in {"up", "dead"}
    /\ cons' = "closing"
    /\ Disturb
    /\ UNCHANGED <<brokerVars, taskVars, setup, pos, mem, disk, flight, fate, acked, again, seen, base>>

\* Subscribe returns after wg.Wait; the file store is flushed once more.
ConsumerExit ==
    /\ cons = "closing" /\ InFlight = {}
    /\ cons' = "off"
    /\ disk' = IF kind = "kafka" /\ ~SqlStore THEN mem ELSE disk
    /\ UNCHANGED <<brokerVars, taskVars, faultVars, setup, pos, mem, flight, fate, acked, again, seen, base>>

\* The channel of the in-process broker goes with the process.
ConsumerCrash ==
    /\ cons \in {"up", "closing", "dead"}
    /\ cons' = "off"
    /\ Harm("ccrash")
    /\ flight' = [i \in Indices |-> Landed]
    /\ pos' = IF kind = "memory" THEN Len(log) + 1 ELSE pos
    /\ UNCHANGED <<brokerVars, taskVars, setup, mem, disk, fate, acked, again, seen, base>>

\* The broker closes rabbitmq's delivery channel; nothing reconnects it.
ConnectionLost ==
    /\ kind = "rabbitmq" /\ cons = "up" /\ ~reachable
    /\ cons' = "dead"
    /\ UNCHANGED <<brokerVars, taskVars, faultVars, setup, pos, mem, disk, flight, fate, acked, again, seen, base>>

-----------------------------------------------------------------------------
(* One delivery. *)

Moved(i, at) == flight' = [flight EXCEPT ![i].at = at]
Called(i) == flight' = [flight EXCEPT ![i].at = "process", ![i].since = day]
Ended(i) == flight' = [flight EXCEPT ![i] = Landed]
Settle(i, how) == fate' = [fate EXCEPT ![i] = IF @ = "none" THEN how ELSE @]

\* Slip in Room: ordered_commit is ignored.
RoomUnordered == Cardinality(InFlight) < PoolSize

\* readerLoop: ordered_commit handles one message after the other.
Room == Cardinality(InFlight) < IF kind = "memory" \/ setup.ordered THEN 1 ELSE PoolSize

Deliver(i) ==
    /\ cons = "up" /\ i \in DOMAIN log /\ i \notin InFlight
    /\ Room
    /\ \/ kind \in {"kafka", "memory"} /\ i = pos /\ pos' = pos + 1
       \/ kind \in {"rabbitmq", "rocketmq"} /\ i \notin acked /\ UNCHANGED pos
    /\ kind # "memory" => reachable
    /\ IF kind = "memory" THEN Called(i) ELSE Moved(i, "fetched")
    /\ UNCHANGED <<brokerVars, taskVars, faultVars, cons, setup, mem, disk, fate, acked, again, seen, base>>

\* The message is decoded and its event id looked up (Seen); a failed lookup counts as unseen.
CheckSeen(i) ==
    /\ flight[i].at = "fetched"
    /\ \/ /\ log[i] \in Poison
          /\ Moved(i, "failed") /\ UNCHANGED <<fate, faultVars>>
       \/ /\ log[i] \notin Poison /\ SqlStore /\ log[i] \in seen
          /\ Moved(i, IF kind = "kafka" THEN "commit" ELSE "ack")
          /\ Settle(i, "skipped") /\ UNCHANGED faultVars
       \/ /\ log[i] \notin Poison
          /\ IF SqlStore /\ log[i] \in seen THEN Disturb ELSE UNCHANGED faultVars
          /\ Called(i) /\ UNCHANGED fate
    /\ UNCHANGED <<brokerVars, taskVars, cons, setup, pos, mem, disk, acked, again, seen, base>>

Handled(i) ==
    /\ flight[i].at = "process"
    /\ ApplyEventProgress(log[i], flight[i].since)
    /\ Moved(i, "commit")
    /\ Settle(i, "handled")
    /\ UNCHANGED <<brokerVars, cons, setup, pos, mem, disk, acked, again, seen, base>>

\* The handler returns an error or panics; a cancelled context makes it fail as well.
\* process and retryProcess try again after an error, unless the context is cancelled by then.
HandlerFailed(i) ==
    /\ flight[i].at = "process"
    /\ IF cons = "closing" THEN UNCHANGED faultVars ELSE Disturb
    /\ \/ Moved(i, "failed")
       \/ /\ flight[i].tries < RetryMax /\ cons # "closing"
          /\ flight' = [flight EXCEPT ![i].tries = @ + 1, ![i].since = day]
    /\ UNCHANGED <<brokerVars, taskVars, cons, setup, pos, mem, disk, fate, acked, again, seen, base>>

(* Out of attempts. *)

\* kafka: appendDLQ writes to a local file if one is configured; a failure to do so is only
\* logged.
GiveUpKafka(i) ==
    /\ kind = "kafka"
    /\ Moved(i, "commit")
    /\ \/ setup.dlq /\ Settle(i, "dead") /\ UNCHANGED faultVars
       \/ setup.dlq /\ Settle(i, "dropped") /\ Harm("cdisk")
       \/ ~setup.dlq /\ Settle(i, "dropped") /\ UNCHANGED faultVars
    /\ UNCHANGED <<acked, again>>

\* rabbitmq: Nack, with requeue during shutdown, else to the dead-letter exchange; on a lost
\* connection the broker requeues by itself.
GiveUpRabbit(i) ==
    /\ kind = "rabbitmq"
    /\ IF cons = "dead" \/ (cons = "closing" /\ log[i] \notin Poison)
       THEN UNCHANGED <<fate, acked>>
       ELSE Settle(i, "dead") /\ acked' = acked \cup {i}
    /\ Ended(i)
    /\ UNCHANGED <<again, faultVars>>

\* rocketmq: ConsumeRetryLater; the broker redelivers a bounded number of times (one here),
\* then moves the message to %DLQ%.
GiveUpRocket(i) ==
    /\ kind = "rocketmq"
    /\ IF i \in again
       THEN Settle(i, "dead") /\ acked' = acked \cup {i} /\ UNCHANGED again
       ELSE again' = again \cup {i} /\ UNCHANGED <<fate, acked>>
    /\ Ended(i)
    /\ UNCHANGED faultVars

\* memory: dropped.
GiveUpMemory(i) ==
    /\ kind = "memory"
    /\ Settle(i, "dropped")
    /\ Ended(i)
    /\ UNCHANGED <<acked, again, faultVars>>

GiveUp(i) ==
    /\ flight[i].at = "failed"
    /\ GiveUpKafka(i) \/ GiveUpRabbit(i) \/ GiveUpRocket(i) \/ GiveUpMemory(i)
    /\ UNCHANGED <<brokerVars, taskVars, cons, setup, pos, mem, disk, seen, base>>

\* Slip in CommitFile: the last to finish wins.
CommitFileOverwrites(i) ==
    /\ kind = "kafka" /\ ~SqlStore
    /\ mem' = i + 1
    /\ disk' = IF setup.ordered THEN mem' ELSE disk
    /\ Ended(i)
    /\ UNCHANGED <<seen, faultVars>>

\* offsetStore.set and, with ordered_commit, flush.
CommitFile(i) ==
    /\ kind = "kafka" /\ ~SqlStore
    /\ mem' = IF i + 1 > mem THEN i + 1 ELSE mem
    /\ \/ disk' = (IF setup.ordered THEN mem' ELSE disk) /\ UNCHANGED faultVars
       \/ setup.ordered /\ Disturb /\ UNCHANGED disk
    /\ Ended(i)
    /\ UNCHANGED seen

\* SQLProgressStore.Commit reads the progress row first.
CommitRead(i) ==
    /\ kind = "kafka" /\ SqlStore
    /\ flight' = [flight EXCEPT ![i].at = "save", ![i].row = disk]
    /\ UNCHANGED <<mem, disk, seen, faultVars>>

CommitBroker(i) ==
    /\ kind \in {"rabbitmq", "rocketmq"}
    /\ \/ seen' = (IF SqlStore THEN seen \cup {log[i]} ELSE seen) /\ UNCHANGED faultVars
       \/ SqlStore /\ (IF cons = "closing" THEN UNCHANGED faultVars ELSE Disturb) /\ UNCHANGED seen
    /\ Moved(i, "ack")
    /\ UNCHANGED <<mem, disk>>

CommitNothing(i) ==
    /\ kind = "memory"
    /\ Ended(i)
    /\ UNCHANGED <<mem, disk, seen, faultVars>>

CommitOffset(i) ==
    /\ flight[i].at = "commit"
    /\ CommitFile(i) \/ CommitRead(i) \/ CommitBroker(i) \/ CommitNothing(i)
    /\ UNCHANGED <<brokerVars, taskVars, cons, setup, pos, fate, acked, again, base>>

\* ... and then saves the row and the event id in the same transaction.
CommitSave(i) ==
    /\ flight[i].at = "save"
    /\ \/ /\ disk' = IF i + 1 > flight[i].row THEN i + 1 ELSE disk
          /\ seen' = IF log[i] \in Poison THEN seen ELSE seen \cup {log[i]}
          /\ UNCHANGED faultVars
       \/ (IF cons = "closing" THEN UNCHANGED faultVars ELSE Disturb) /\ UNCHANGED <<disk, seen>>
    /\ Ended(i)
    /\ UNCHANGED <<brokerVars, taskVars, cons, setup, pos, mem, fate, acked, again, base>>

\* The acknowledgement is lost with the connection.
Ack(i) ==
    /\ flight[i].at = "ack"
    /\ acked' = IF reachable /\ cons # "dead" THEN acked \cup {i} ELSE acked
    /\ Ended(i)
    /\ UNCHANGED <<brokerVars, taskVars, faultVars, cons, setup, pos, mem, disk, fate, again, seen, base>>

\* The flush ticker of the file store.
FlushOffsets ==
    /\ kind = "kafka" /\ ~SqlStore /\ cons \in {"up", "closing"}
    /\ mem # disk
    /\ disk' = mem
    /\ UNCHANGED <<brokerVars, taskVars, faultVars, cons, setup, pos, mem, flight, fate, acked, again, seen, base>>

DeliveryStep(i) ==
    \/ CheckSeen(i) \/ Handled(i) \/ HandlerFailed(i) \/ GiveUp(i)
    \/ CommitOffset(i) \/ CommitSave(i) \/ Ack(i)

ConsumerStep ==
    \/ ConsumerStart \/ ConsumerStop \/ ConsumerExit \/ ConsumerCrash \/ ConnectionLost
    \/ FlushOffsets
    \/ \E i \in Indices : Deliver(i) \/ DeliveryStep(i)

\* Goroutines run, the supervisor restarts the process, a shutdown ends.
ConsumerFairness ==
    WF_consumerVars(\/ ConsumerStart \/ ConsumerExit
                    \/ \E i \in Indices : Deliver(i) \/ DeliveryStep(i))

-----------------------------------------------------------------------------
ConsumerTypeOK ==
    /\ cons \in {"off", "up", "closing", "dead", "absent"}
    /\ setup \in Setups
    /\ {pos, mem, disk, base} \subseteq 0 .. MaxLog + 1
    /\ flight \in [Indices -> [at : {"none", "fetched", "process", "failed", "commit", "save", "ack"},
                               tries : 0 .. RetryMax, since : 0 .. MaxDay, row : 0 .. MaxLog + 1]]
    /\ fate \in [Indices -> {"none", "handled", "skipped", "dead", "dropped"}]
    /\ acked \subseteq Indices /\ again \subseteq Indices
    /\ seen \subseteq Msgs

\* kafka's local dead-letter file is not configured, or an append to it failed.
DlqFailed(i) == kind = "kafka" /\ fate[i] = "dropped" /\ (~setup.dlq \/ "cdisk" \in harm)

\* Handled, recognised as a duplicate, or kept in a dead-letter file or queue.
Accounted(i) == fate[i] \in {"handled", "skipped", "dead"}

\* kafka_consumer.go 516-518 ("the DLQ has been persisted, nothing is lost"): whatever crashes,
\* shutdowns, retries and failing stores do, the progress a restart resumes from (kafka) and an
\* acknowledgement (rabbitmq, rocketmq) cover only what was handled, recognised as a duplicate
\* or dead-lettered.  Three exceptions: appendDLQ reports nothing, so the offset also passes a
\* message its file could not take, against that comment; without ordered_commit a crash skips
\* what was in flight below the progress; and start_from_latest skips the backlog whenever a
\* reader starts before the first commit or cannot read the progress.
NothingSkipped ==
    \A i \in DOMAIN log :
        \/ Accounted(i)
        \/ DlqFailed(i)
        \/ kind \in {"rabbitmq", "rocketmq"} /\ i \notin acked
        \/ kind = "kafka" /\ i >= disk
        \/ kind = "kafka" /\ ~setup.ordered /\ (i \in InFlight \/ "ccrash" \in harm)
        \/ kind = "kafka" /\ i < base
        \/ kind \in {"memory", "none"}

\* A commit to the table between whose read and write another one was saved.
StaleSave(i) == SqlStore /\ ~setup.ordered /\ flight[i].at = "save" /\ flight[i].row < disk

\* The recorded progress only grows, whatever order the workers finish in, over crashes and
\* restarts; consumer_progress.go 33 and 207 and kafka_consumer.go 555 say so of every mode.
\* Two things take it back, and nothing else does: with concurrent commits the table's
\* Transaction reads the row and then saves, so the save that comes last wins, the smaller one
\* too (against those comments); and a file that could not be loaded is replaced by the next
\* flush.
OffsetNeverGoesBack ==
    [][disk' < disk => \/ "load" \in harm
                       \/ \E i \in Indices : StaleSave(i) /\ disk' = i + 1]_consumerVars

\* Whatever the broker has accepted is settled in the end, over crashes, shutdowns and outages,
\* unless the consumer died with the connection or could not subscribe (nothing restarts it in
\* a process that lives), or one of the exceptions of NothingSkipped applies.
EventuallySettled ==
    <>[](\A i \in DOMAIN log :
            \/ Accounted(i)
            \/ DlqFailed(i)
            \/ cons \in {"dead", "absent"}
            \/ kind = "kafka" /\ ~setup.ordered /\ "ccrash" \in harm
            \/ kind = "kafka" /\ setup.latest
            \/ kind \in {"memory", "none"})
=============================================================================
