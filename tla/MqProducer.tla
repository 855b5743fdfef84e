----------------------------- MODULE MqProducer -----------------------------
(***************************************************************************)
(* The asynchronous event producer of one process (producer_base.go) with   *)
(* the local dead-letter file (dlq.go) and what kafka.go, rabbitmq.go and   *)
(* rocketmq.go put behind it; memory.go and noop.go are the variants        *)
(* without a buffer.                                                        *)
(*                                                                         *)
(* Send only queues.  Background workers publish through a circuit breaker; *)
(* what cannot be published goes to the file, and a replay goroutine        *)
(* brings it back from there: it renames the file to a snapshot, publishes  *)
(* line by line, writes the rest back and removes the snapshot.  One action *)
(* is one channel operation, one broker call or its answer, or one file     *)
(* operation.                                                               *)
(***************************************************************************)
EXTENDS MqBroker, SequencesExt

CONSTANTS Workers,          \* rabbitmq: poolSize workers; kafka and rocketmq run one loop
          QueueSize,        \* capacity of producerBase.queue
          OverflowWorkers,  \* capacity of sendSem
          BatchSize,        \* rocketmq: messages per SendSync
          TripAfter,        \* consecutive failures that open the breaker (5 in the code)
          ProbeMax,         \* gobreaker MaxRequests (5 in the code)
          DlqLines,         \* lines that fit below dlqStore.maxBytes; 0 is a disabled DLQ
          ReplayBatchMax,   \* dlqStore.replayBatchMax
          DrainBudget       \* kafka loop: messages drained before the rest goes to the DLQ

ASSUME ProducerAssumption ==
    /\ Workers # {}
    /\ QueueSize \in Nat \ {0} /\ BatchSize \in Nat \ {0}
    /\ TripAfter \in Nat \ {0} /\ ProbeMax \in Nat \ {0}
    /\ ReplayBatchMax \in Nat \ {0} /\ DrainBudget \in Nat \ {0}
    /\ {OverflowWorkers, DlqLines} \subseteq Nat

VARIABLES
    life,      \* the process: up, Close has been called, gone; absent if there is none
    link,      \* its connection: up, cut, or none if the producer is a nopProducer
    sent,      \* a message and Send: never, not yet, in time, after Close, or to a nopProducer
    queue,     \* producerBase.queue
    worker,    \* each worker: where it is, what it holds, which loop it is in
    over,      \* the overflow goroutine of a message
    breaker,   \* the producer's gobreaker
    dlq,       \* lines of <topic>.dlq.jsonl; an empty sequence is no file
    snap,      \* lines of the .replaying snapshot; an empty sequence is no file
    replay,    \* the replay goroutine: where it is, next line, lines to write back
    late,      \* rabbitmq: a channel of the pool holds a confirmation nobody waited for
    lost       \* messages a copy of which was dropped

files == <<dlq, snap>>
ProducerHarm == {"disk", "full", "reply", "crash", "timeout"}
prodVars == <<life, link, sent, queue, worker, over, breaker, files, replay, late, lost>>
producerVars == <<brokerVars, prodVars, faultVars>>

Closed == [state |-> "closed", fails |-> 0, probes |-> 0, good |-> 0]
Open == [Closed EXCEPT !.state = "open"]
HalfOpen == [Closed EXCEPT !.state = "half"]

\* A worker's loop is its main loop, the drain after Close, or over.
Idle(loop) == [at |-> "take", gen |-> "closed", batch |-> <<>>, loop |-> loop, drained |-> 0]

\* The one loop goroutine of kafka and rocketmq.
LoopGoroutine(w) == kind \in {"kafka", "rocketmq"} /\ w = CHOOSE v \in Workers : TRUE

\* NewKafkaProducer and NewRocketMQProducer start one loop, NewRabbitMQProducer one worker
\* per channel; the in-process and the no-op producer start none.
Running(w) == kind = "rabbitmq" \/ LoopGoroutine(w)

ReplayIdle == [at |-> "idle", pos |-> 1, gen |-> "closed", failed |-> <<>>]

\* How NewProducer can end.  Kafka's writer connects when it is first used; rabbitmq dials and
\* rocketmq starts its client, which an outage makes fail, or may make fail.  initEventProducer
\* then runs the process with a nopProducer.
Dialled ==
    CASE kind = "rabbitmq" /\ ~reachable -> {"none"}
      [] kind = "rocketmq" /\ ~reachable -> {"up", "none"}
      [] OTHER -> {"up"}

\* A process starts: memory is empty, the two files are what the last process left.
Started ==
    /\ life' = "up"
    /\ link' \in Dialled
    /\ queue' = <<>>
    /\ worker' = [w \in Workers |->
                    Idle(IF Running(w) /\ link' = "up" THEN "main" ELSE "stopped")]
    /\ over' = [m \in Msgs |-> "none"]
    /\ breaker' = Closed
    /\ replay' = ReplayIdle
    /\ late' = FALSE

\* The broker already holds a backlog, sent earlier; traffic is what this pod will send, and
\* without any there is no producing pod.  Its first process has not started yet.
ProducerInit(kinds, backlog, traffic) ==
    /\ kind \in kinds
    /\ log = backlog
    /\ reachable = TRUE
    /\ life = IF traffic = {} THEN "absent" ELSE "gone"
    /\ link = "none"
    /\ sent = [m \in Msgs |-> IF m \in ToSet(backlog) THEN "intime"
                             ELSE IF m \in traffic THEN "no" ELSE "never"]
    /\ queue = <<>>
    /\ worker = [w \in Workers |-> Idle("stopped")]
    /\ over = [m \in Msgs |-> "none"]
    /\ breaker = Closed
    /\ dlq = <<>> /\ snap = <<>>
    /\ replay = ReplayIdle
    /\ late = FALSE
    /\ lost = {}

-----------------------------------------------------------------------------
(* The breaker (gobreaker, as kafka.go and newProducerBreaker configure it). *)

BreakerAdmits ==
    \/ breaker.state = "closed"
    \/ breaker.state = "half" /\ breaker.probes < ProbeMax

BreakerAdmitted ==
    IF breaker.state = "half" THEN [breaker EXCEPT !.probes = @ + 1] ELSE breaker

\* The result of a call admitted in state gen; one that belongs to an older state is ignored.
BreakerAfter(gen, ok) ==
    CASE gen # breaker.state -> breaker
      [] gen = "closed" /\ ok -> [breaker EXCEPT !.fails = 0]
      [] gen = "closed" /\ ~ok ->
            IF breaker.fails + 1 >= TripAfter THEN Open ELSE [breaker EXCEPT !.fails = @ + 1]
      [] gen = "half" /\ ok ->
            IF breaker.good + 1 >= ProbeMax THEN Closed ELSE [breaker EXCEPT !.good = @ + 1]
      [] OTHER -> Open

BreakerTimeout ==
    /\ breaker.state = "open"
    /\ breaker' = HalfOpen
    /\ UNCHANGED <<brokerVars, life, link, sent, queue, worker, over, files, replay, late, lost, faultVars>>

-----------------------------------------------------------------------------
(* dlqStore.append: each message becomes a line unless the file is full or  *)
(* cannot be written; append has no error to return, the message is gone.   *)

DlqRoom(ms) == IF Len(dlq) + Len(ms) <= DlqLines THEN Len(ms)
               ELSE IF Len(dlq) < DlqLines THEN DlqLines - Len(dlq) ELSE 0

DlqLinesAdded(ms) ==
    /\ dlq' = dlq \o SubSeq(ms, 1, DlqRoom(ms))
    /\ lost' = lost \cup ToSet(SubSeq(ms, DlqRoom(ms) + 1, Len(ms)))

DlqAppend(ms) ==
    \/ /\ DlqLinesAdded(ms)
       /\ harm' = IF DlqRoom(ms) < Len(ms) THEN harm \cup {"full"} ELSE harm
       /\ UNCHANGED faults
    \/ /\ ms # <<>>
       /\ Harm("disk")
       /\ lost' = lost \cup ToSet(ms)
       /\ UNCHANGED dlq

NoDlq == UNCHANGED <<dlq, lost, faultVars>>

-----------------------------------------------------------------------------
(* The answer to one broker call carrying ms, which the breaker admitted in *)
(* state gen (sendOne, publishConfirmed, sendBatchTopic).  A real failure   *)
(* goes to the DLQ, also when the broker has stored the message and only    *)
(* its confirmation is late.  A rabbitmq channel is not rebuilt after such  *)
(* a timeout: the late confirmation is read by the next publish on it.      *)

\* A rabbitmq connection that broke is never dialled again (recreate).
Connected == reachable /\ link = "up"

Confirmed(ms, gen) ==
    /\ Connected
    /\ Accept(ms)
    /\ breaker' = BreakerAfter(gen, TRUE)
    /\ NoDlq
    /\ UNCHANGED late

\* Slip in Unstored: a failed publish is not filed.
UnstoredIsDropped(ms, gen) ==
    /\ ~Connected
    /\ UNCHANGED log
    /\ breaker' = BreakerAfter(gen, FALSE)
    /\ NoDlq
    /\ late' = FALSE

Unstored(ms, gen) ==
    /\ ~Connected
    /\ UNCHANGED log
    /\ breaker' = BreakerAfter(gen, FALSE)
    /\ DlqAppend(ms)
    /\ late' = FALSE

Unconfirmed(ms, gen) ==
    /\ Connected
    /\ Accept(ms)
    /\ breaker' = BreakerAfter(gen, FALSE)
    /\ DlqLinesAdded(ms)
    /\ Harm("reply")
    /\ late' = (kind = "rabbitmq")

MistakenlyConfirmed(ms, gen) ==
    /\ late /\ ~reachable /\ link = "up"
    /\ UNCHANGED <<log, dlq, faultVars>>
    /\ breaker' = BreakerAfter(gen, TRUE)
    /\ lost' = lost \cup ToSet(ms)
    /\ late' = FALSE

Published(ms, gen) ==
    /\ Len(log) + Len(ms) <= MaxLog
    /\ \/ Confirmed(ms, gen)
       \/ Unstored(ms, gen)
       \/ Unconfirmed(ms, gen)
       \/ MistakenlyConfirmed(ms, gen)

-----------------------------------------------------------------------------
(* Send and SendSync, called by the services. *)

Overflowing == {m \in Msgs : over[m] # "none"}

\* producerBase.Send: queue, else an overflow goroutine, else the DLQ.
SendBuffered(m) ==
    \/ /\ Len(queue) < QueueSize
       /\ queue' = Append(queue, m)
       /\ UNCHANGED over
       /\ NoDlq
    \/ /\ Len(queue) = QueueSize
       /\ Cardinality(Overflowing) < OverflowWorkers
       /\ over' = [over EXCEPT ![m] = "spawned"]
       /\ UNCHANGED queue
       /\ NoDlq
    \/ /\ Len(queue) = QueueSize
       /\ Cardinality(Overflowing) >= OverflowWorkers
       /\ UNCHANGED <<queue, over>>
       /\ DlqAppend(<<m>>)

\* The process has a queue, workers and a dead-letter file.
HasBuffer == Buffered(kind) /\ link # "none"

\* nopProducer drops everything and reports success, in Send and in SendSync.
Dropped(m) == lost' = lost \cup {m} /\ UNCHANGED log

\* memoryBroker.publish drops what does not fit or what nobody has subscribed to yet.
PublishInMemory(m) ==
    \/ Len(log) < MaxLog /\ Accept(<<m>>) /\ UNCHANGED lost
    \/ Dropped(m)

SendUnbuffered(m) ==
    /\ IF kind = "memory" THEN PublishInMemory(m) ELSE Dropped(m)
    /\ UNCHANGED <<queue, over, dlq, faultVars>>

Sent(m) == sent' = [sent EXCEPT ![m] = IF Buffered(kind) /\ ~HasBuffer THEN "toNop"
                                       ELSE IF life = "up" THEN "intime" ELSE "afterClose"]

Send(m) ==
    /\ life \in {"up", "closing"}
    /\ sent[m] = "no"
    /\ Sent(m)
    /\ IF HasBuffer THEN SendBuffered(m) /\ UNCHANGED log ELSE SendUnbuffered(m)
    /\ UNCHANGED <<kind, reachable, life, link, worker, breaker, snap, replay, late>>

\* A call that goes through the breaker and back.
BreakerExecuted(ok) ==
    LET after == BreakerAfter(breaker.state, ok)
    IN  breaker' = IF after.state = "half" THEN [after EXCEPT !.probes = @ + 1] ELSE after

\* Published, or what publishConfirmed takes for it: the late confirmation of another message.
SyncPublished(m) ==
    /\ \/ /\ Connected /\ Len(log) < MaxLog
          /\ Accept(<<m>>)
          /\ UNCHANGED <<late, lost>>
       \/ /\ late /\ ~reachable /\ link = "up"
          /\ late' = FALSE
          /\ lost' = lost \cup {m}
          /\ UNCHANGED log
    /\ BreakerExecuted(TRUE)
    /\ Sent(m)
    /\ UNCHANGED faultVars

\* The caller is told of the failure and keeps the message, also when only the confirmation is
\* missing.
SyncFailed(m) ==
    /\ \/ /\ Connected /\ Len(log) < MaxLog
          /\ Accept(<<m>>) /\ Harm("reply")
          /\ late' = (kind = "rabbitmq")
       \/ /\ ~Connected
          /\ late' = FALSE
          /\ UNCHANGED <<log, faultVars>>
    /\ BreakerExecuted(FALSE)
    /\ UNCHANGED <<sent, lost>>

\* SendSync publishes at once.
SendSync(m) ==
    /\ life = "up" /\ HasBuffer
    /\ sent[m] = "no"
    /\ BreakerAdmits
    /\ SyncPublished(m) \/ SyncFailed(m)
    /\ UNCHANGED <<kind, reachable, life, link, queue, worker, over, files, replay>>

-----------------------------------------------------------------------------
(* The background workers. *)

\* collectBatch: rocketmq takes what is there up to BatchSize, the others one message.
Taken == LET n == IF kind = "rocketmq" THEN BatchSize ELSE 1
         IN  IF Len(queue) < n THEN Len(queue) ELSE n

Hold(w, at, ms) == worker' = [worker EXCEPT ![w].at = at, ![w].batch = ms, ![w].gen = breaker.state]

\* The worker has dealt with what it held; while draining, kafka counts this.
After(w) ==
    LET n == worker[w].drained + 1
    IN  IF worker[w].loop = "drain" /\ kind = "kafka"
        THEN [Idle("drain") EXCEPT !.drained = n,
                                   !.at = IF n >= DrainBudget THEN "giveup" ELSE "take"]
        ELSE Idle(worker[w].loop)

Settled(w) == worker' = [worker EXCEPT ![w] = After(w)]

\* Slip in Rejected: what an open breaker rejects is dropped.
RejectedIsDropped(w, ms) == Settled(w) /\ NoDlq

\* An open breaker hands the batch back (processMessage, drainMessage, requeue, requeueBatch):
\* rocketmq always puts it back after a pause; the others do so only while the breaker probes
\* and the producer is not being drained, and use the DLQ otherwise.
Rejected(w, ms) ==
    IF kind = "rocketmq" \/ (worker[w].loop = "main" /\ breaker.state = "half")
    THEN Hold(w, "backoff", ms) /\ NoDlq
    ELSE Settled(w) /\ DlqAppend(ms)

Take(w) ==
    /\ life # "gone"
    /\ worker[w].at = "take" /\ worker[w].loop # "stopped"
    /\ queue # <<>>
    /\ queue' = SubSeq(queue, Taken + 1, Len(queue))
    /\ LET ms == SubSeq(queue, 1, Taken)
       IN  IF BreakerAdmits
           THEN Hold(w, "sending", ms) /\ breaker' = BreakerAdmitted /\ NoDlq
           ELSE Rejected(w, ms) /\ UNCHANGED breaker
    /\ UNCHANGED <<brokerVars, life, link, sent, over, snap, replay, late>>

Answered(w) ==
    /\ life # "gone"
    /\ worker[w].at = "sending"
    /\ Published(worker[w].batch, worker[w].gen)
    /\ Settled(w)
    /\ UNCHANGED <<kind, reachable, life, link, sent, queue, over, snap, replay>>

\* Slip in Requeue: without the check for a full queue.
RequeueUnbounded(w) ==
    /\ life # "gone"
    /\ worker[w].at = "backoff"
    /\ queue' = queue \o worker[w].batch
    /\ Settled(w)
    /\ NoDlq
    /\ UNCHANGED <<brokerVars, life, link, sent, over, breaker, snap, replay, late>>

\* Back into the queue, or to the DLQ when it has filled up meanwhile.
Requeued(ms) ==
    LET room == QueueSize - Len(queue)
        n == IF Len(ms) < room THEN Len(ms) ELSE room
    IN  /\ queue' = queue \o SubSeq(ms, 1, n)
        /\ DlqAppend(SubSeq(ms, n + 1, Len(ms)))

\* The pause is over.
Requeue(w) ==
    /\ life # "gone"
    /\ worker[w].at = "backoff"
    /\ Requeued(worker[w].batch)
    /\ Settled(w)
    /\ UNCHANGED <<brokerVars, life, link, sent, over, breaker, snap, replay, late>>

\* closeCh is seen: the worker leaves its main loop and drains what is queued.
StartDrain(w) ==
    /\ life = "closing"
    /\ worker[w].at = "take" /\ worker[w].loop = "main"
    /\ worker' = [worker EXCEPT ![w] = Idle("drain")]
    /\ UNCHANGED <<brokerVars, life, link, sent, queue, over, breaker, files, replay, late, lost, faultVars>>

\* The queue is empty, or (kafka) the budget is used up and drainToDLQ files the rest.
StopWorker(w) ==
    /\ life # "gone"
    /\ worker[w].loop = "drain"
    /\ \/ worker[w].at = "take" /\ queue = <<>> /\ NoDlq
       \/ worker[w].at = "giveup" /\ DlqAppend(queue)
    /\ queue' = <<>>
    /\ worker' = [worker EXCEPT ![w] = Idle("stopped")]
    /\ UNCHANGED <<brokerVars, life, link, sent, over, breaker, snap, replay, late>>

-----------------------------------------------------------------------------
(* The overflow goroutines that Send starts. *)

OverStart(m) ==
    /\ life # "gone"
    /\ over[m] = "spawned"
    /\ IF BreakerAdmits
       THEN over' = [over EXCEPT ![m] = breaker.state] /\ breaker' = BreakerAdmitted /\ NoDlq
       ELSE over' = [over EXCEPT ![m] = "none"] /\ UNCHANGED breaker /\ DlqAppend(<<m>>)
    /\ UNCHANGED <<brokerVars, life, link, sent, queue, worker, snap, replay, late>>

OverAnswered(m) ==
    /\ life # "gone"
    /\ over[m] \in {"closed", "half"}
    /\ Published(<<m>>, over[m])
    /\ over' = [over EXCEPT ![m] = "none"]
    /\ UNCHANGED <<kind, reachable, life, link, sent, queue, worker, snap, replay>>

-----------------------------------------------------------------------------
(* replayLoop, replayAll and drainSnapshot. *)

ReplayAt(at) ==
    /\ life # "gone"
    /\ replay.at = at
    /\ UNCHANGED <<kind, reachable, life, link, sent, queue, worker, over>>

\* A tick of the 30 s timer; the loop runs only with an enabled DLQ.
ReplayTick ==
    /\ ReplayAt("idle")
    /\ HasBuffer /\ DlqLines > 0
    /\ dlq # <<>> \/ snap # <<>>
    /\ replay' = [ReplayIdle EXCEPT !.at = IF snap # <<>> THEN "recover" ELSE "rename"]
    /\ UNCHANGED <<log, breaker, files, late, lost, faultVars>>

\* recoverLeftovers appends a snapshot an earlier process left to the main file, then removes
\* it; when the main file cannot be opened it removes it all the same.
RecoverAppend ==
    /\ ReplayAt("recover")
    /\ \/ dlq' = dlq \o snap /\ UNCHANGED <<lost, faultVars>>
       \/ Harm("disk") /\ lost' = lost \cup ToSet(snap) /\ UNCHANGED dlq
    /\ replay' = [replay EXCEPT !.at = "recovered"]
    /\ UNCHANGED <<log, breaker, snap, late>>

RecoverRemove ==
    /\ ReplayAt("recovered")
    /\ snap' = <<>>
    /\ replay' = [replay EXCEPT !.at = "rename"]
    /\ UNCHANGED <<log, breaker, dlq, late, lost, faultVars>>

\* replayFile: the rename under the mutex; appends go to a new file from here on.
ReplayRename ==
    /\ ReplayAt("rename")
    /\ snap' = dlq
    /\ dlq' = <<>>
    /\ replay' = [ReplayIdle EXCEPT !.at = IF dlq = <<>> THEN "idle" ELSE "line"]
    /\ UNCHANGED <<log, breaker, late, lost, faultVars>>

\* Slip in KeepRest: the line that failed is not kept.
KeepRestOffByOne ==
    [replay EXCEPT !.at = "writeback", !.failed = SubSeq(snap, replay.pos + 1, Len(snap))]

\* The lines from the next one on stay in the DLQ: the broker failed, or the batch is full.
KeepRest == [replay EXCEPT !.at = "writeback", !.failed = SubSeq(snap, replay.pos, Len(snap))]

\* One line of drainSnapshot up to the broker call of relay.
ReplayLine ==
    /\ ReplayAt("line")
    /\ IF replay.pos > Len(snap) \/ replay.pos > ReplayBatchMax \/ ~BreakerAdmits
       THEN replay' = KeepRest /\ UNCHANGED breaker
       ELSE /\ replay' = [replay EXCEPT !.at = "sending", !.gen = breaker.state]
            /\ breaker' = BreakerAdmitted
    /\ UNCHANGED <<log, files, late, lost, faultVars>>

\* relay of a line the broker confirms, or seems to.
Relayed(line) ==
    /\ Confirmed(line, replay.gen) \/ MistakenlyConfirmed(line, replay.gen)
    /\ replay' = [replay EXCEPT !.at = "line", !.pos = @ + 1]

\* relay returns an error instead of filing the message a second time.
RelayFailed(line) ==
    /\ \/ /\ ~Connected
          /\ late' = FALSE
          /\ UNCHANGED <<log, faultVars>>
       \/ /\ Connected /\ Accept(line) /\ Harm("reply")
          /\ late' = (kind = "rabbitmq")
    /\ breaker' = BreakerAfter(replay.gen, FALSE)
    /\ replay' = KeepRest
    /\ UNCHANGED <<dlq, lost>>

ReplayAnswered ==
    /\ ReplayAt("sending")
    /\ Len(log) < MaxLog
    /\ LET line == <<snap[replay.pos]>>
       IN  Relayed(line) \/ RelayFailed(line)
    /\ UNCHANGED snap

\* writeBack appends the lines that failed; if that does not work they are dropped.
ReplayWriteBack ==
    /\ ReplayAt("writeback")
    /\ \/ dlq' = dlq \o replay.failed /\ UNCHANGED <<lost, faultVars>>
       \/ /\ replay.failed # <<>> /\ Harm("disk")
          /\ lost' = lost \cup ToSet(replay.failed)
          /\ UNCHANGED dlq
    /\ replay' = [replay EXCEPT !.at = "remove"]
    /\ UNCHANGED <<log, breaker, snap, late>>

\* Slip in ReplayRemove: the snapshot stays, to be recovered by the next tick.
ReplayRemoveForgotten ==
    /\ ReplayAt("remove")
    /\ replay' = ReplayIdle
    /\ UNCHANGED <<log, breaker, files, late, lost, faultVars>>

ReplayRemove ==
    /\ ReplayAt("remove")
    /\ snap' = <<>>
    /\ replay' = ReplayIdle
    /\ UNCHANGED <<log, breaker, dlq, late, lost, faultVars>>

-----------------------------------------------------------------------------
(* Close, the end of the process, a crash, and what the broker does.        *)

InMemory(m) ==
    \/ m \in ToSet(queue)
    \/ over[m] # "none"
    \/ \E w \in Workers : m \in ToSet(worker[w].batch)

OnDisk(m) == m \in ToSet(dlq) \cup ToSet(snap)

Close ==
    /\ life = "up"
    /\ life' = "closing"
    /\ Disturb
    /\ UNCHANGED <<brokerVars, link, sent, queue, worker, over, breaker, files, replay, late, lost>>

\* wg.Wait returns: every goroutine of the producer has ended.
Quiet ==
    /\ \A w \in Workers : worker[w].loop = "stopped"
    /\ Overflowing = {}
    /\ replay.at = "idle"

\* What was only in memory goes with the process.
Die ==
    /\ life' = "gone"
    /\ link' = "none"
    /\ lost' = lost \cup {m \in Msgs : InMemory(m)}
    /\ queue' = <<>>
    /\ worker' = [w \in Workers |-> Idle("stopped")]
    /\ over' = [m \in Msgs |-> "none"]
    /\ breaker' = Closed
    /\ replay' = ReplayIdle
    /\ late' = FALSE
    /\ UNCHANGED <<brokerVars, sent, files>>

\* closeProducer returns and the process exits.
Exit == life = "closing" /\ Quiet /\ Die /\ UNCHANGED faultVars

\* maxCloseWait passes first: the process exits with goroutines still busy.
CloseTimeout == life = "closing" /\ ~Quiet /\ Harm("timeout") /\ Die

Crash == life = "up" /\ Harm("crash") /\ Die

\* The process starts, for the first time or again.
Restart == life = "gone" /\ Started /\ UNCHANGED <<brokerVars, sent, files, lost, faultVars>>

\* An outage, or the broker, ends rabbitmq's connection.  kafka-go and the rocketmq client dial
\* again by themselves.
ConnectionCut ==
    /\ kind = "rabbitmq" /\ ~reachable
    /\ link = "up"
    /\ link' = "cut"
    /\ UNCHANGED <<brokerVars, life, sent, queue, worker, over, breaker, files, replay, late, lost, faultVars>>

BrokerDown ==
    /\ reachable /\ Buffered(kind)
    /\ reachable' = FALSE
    /\ Disturb
    /\ UNCHANGED <<kind, log, prodVars>>

BrokerUp ==
    /\ ~reachable
    /\ reachable' = TRUE
    /\ UNCHANGED <<kind, log, prodVars, faultVars>>

WorkerStep(w) == Take(w) \/ Answered(w) \/ Requeue(w) \/ StartDrain(w) \/ StopWorker(w)
OverStep(m) == OverStart(m) \/ OverAnswered(m)
ReplayStep == \/ ReplayTick \/ RecoverAppend \/ RecoverRemove \/ ReplayRename
              \/ ReplayLine \/ ReplayAnswered \/ ReplayWriteBack \/ ReplayRemove

ProducerNext ==
    \/ \E m \in Msgs : Send(m) \/ SendSync(m) \/ OverStep(m)
    \/ \E w \in Workers : WorkerStep(w)
    \/ ReplayStep
    \/ BreakerTimeout
    \/ Close \/ Exit \/ CloseTimeout \/ Crash \/ Restart
    \/ BrokerDown \/ BrokerUp \/ ConnectionCut

\* The goroutines run, the timers fire and an outage ends.  SF for Exit: a tick of the replay
\* timer may win against closeCh once in a while, not for ever.
ProducerFairness ==
    /\ \A w \in Workers : WF_producerVars(WorkerStep(w))
    /\ WF_producerVars(\E m \in Msgs : OverStep(m))
    /\ WF_producerVars(ReplayStep)
    /\ WF_producerVars(BreakerTimeout \/ Restart)
    /\ WF_producerVars(BrokerUp)
    /\ SF_producerVars(Exit)

-----------------------------------------------------------------------------
ProducerTypeOK ==
    /\ BrokerTypeOK
    /\ life \in {"absent", "up", "closing", "gone"}
    /\ link \in {"up", "cut", "none"}
    /\ sent \in [Msgs -> {"never", "no", "intime", "afterClose", "toNop"}]
    /\ queue \in Seq(Msgs) /\ Len(queue) <= QueueSize
    /\ worker \in [Workers -> [at : {"take", "sending", "backoff", "giveup"},
                               gen : {"closed", "open", "half"},
                               batch : Seq(Msgs),
                               loop : {"main", "drain", "stopped"},
                               drained : Nat]]
    /\ over \in [Msgs -> {"none", "spawned", "closed", "half"}]
    /\ breaker \in [state : {"closed", "open", "half"},
                    fails : 0 .. TripAfter - 1, probes : 0 .. ProbeMax, good : 0 .. ProbeMax - 1]
    /\ dlq \in Seq(Msgs) /\ snap \in Seq(Msgs)
    /\ replay.at \in {"idle", "recover", "recovered", "rename", "line", "sending",
                      "writeback", "remove"}
    /\ replay.failed \in Seq(Msgs)
    /\ late \in BOOLEAN
    /\ lost \subseteq Msgs
    /\ faults \in 0 .. MaxFaults

\* producer_base.go 79-81: a full queue, a full overflow pool, an open breaker and an outage
\* of the broker never lose a message.  As long as no file operation failed, the dead-letter
\* file had room, no confirmation was late, nothing crashed and Close did not time out, a
\* message given to Send before Close is at the broker, in memory or in one of the two files,
\* whatever the breaker, the workers, the replay and the shutdown do.  The outage must come
\* after the start: a process that could not connect then runs with a nopProducer until its end
\* and drops all it is given (app.go 318-320; such messages are "toNop" here).
OutagesLoseNothing ==
    Buffered(kind) /\ harm \cap ProducerHarm = {} =>
        \A m \in Msgs : sent[m] = "intime" => Copies(m) > 0 \/ InMemory(m) \/ OnDisk(m)

\* dlq.go 50-56 and 150: a line in the dead-letter files stays there until the broker has
\* the message, over crashes at any point of the replay, unless a file operation failed or
\* rabbitmq's relay took the late confirmation of another message for this one's.
DiskIsDurable ==
    [][\A m \in Msgs : /\ OnDisk(m)
                      /\ "disk" \notin harm'
                      /\ ~(kind = "rabbitmq" /\ "reply" \in harm)
                      => OnDisk(m)' \/ Copies(m)' > 0]_producerVars

\* The broker has a message twice only after a late confirmation, a crash or a close timeout:
\* the replay never publishes a line twice and Send never publishes what it also filed.
DuplicatesHaveACause ==
    life # "absent" => \A m \in Msgs : Copies(m) > 1 => harm \cap {"reply", "crash", "timeout"} # {}

\* kafka.go 23-24: whatever Send took reaches the broker in the end, or a copy of it was
\* dropped at one of the points the code drops messages.  rabbitmq.go 36-39 promises the same
\* ("resent once the broker recovers"), which its producer keeps only if the connection
\* outlived the outage: once cut, and after a start with a nopProducer, the messages wait in the
\* queue or on disk for as long as the process runs.
EventuallyPublished ==
    <>[](\A m \in Msgs : sent[m] = "intime" =>
            \/ Copies(m) > 0
            \/ m \in lost
            \/ (InMemory(m) \/ OnDisk(m)) /\ link # "up")
=============================================================================
