# Formal models of hc-framework-go

TLA+ modules for the parts of this backend in which several processes work on the
same data without a common transaction: points, shop stock, flash sales, idle
sessions and their settlement, the election of a leader and the sharing of scans,
the event pipeline with task progress, and the way of a request through breakers,
caches and accounts. TLC checks them on small instances; TLAPS proves every safety
property that these checks find to hold for instances of every size. `PROJECT.json`
lists the components, the runs, the source lines behind each definition, the hazards and
the theorems.

To check a run: `tlc -config MCFlashSale_safety.cfg MCFlashSale`. To check the
proofs of a module: `tlapm FlashSaleProofs.tla`.

## 1. The system

Several identical pods serve requests. They share two SQL databases that have
no transaction in common (businessDB with orders, sessions, tasks and the
outbox, with a primary and, where configured, replicas that lag; userDB with
accounts and balances, which is read and written on one server), one Redis, and a message
queue. Everything below runs on every pod.

| component | state | operations | what is hard | what makes it correct |
|---|---|---|---|---|
| points outbox (`service/common/points_outbox.go`) | `points_outbox.status`, `users.points_balance`, worker slots | append in the business transaction, ApplyAsync, MQ consumer, relay scan; each is Claim, UpdatePoints, MarkDone or Requeue | three kinds of process compete for a row; two databases; timeouts, lost replies, crashes between the steps | an adjustment takes effect once, never overdraws, and in the end does take effect |
| distributed lock (`cache/l2.go`) | a key with token and TTL in Redis, a token map per process | Lock, Unlock, RefreshLock | TTL runs out under a holder; two holders in one process share a map entry | one holder while no TTL runs out |
| shop redeem (`service/shop/shop_service.go`, `repository/shop_repo.go`) | stock bucket rows, redeem counter in Redis, orders | Redeem, ReconcileItemRedeemStock, item administration | buckets are tried one by one under row locks; counter and stock drift; reconciliation reads a replica | no oversell; sold out is true; the counter never hides stock |
| flash sale (same files) | `sold_qty`, `limit_qty`, Redis counter and per-user hash, cached order count | FlashRedeem, UpdateFlashActivity, warmup, reconcile | limit changes, lost keys, stale caches, releases after failures | not past the limit in force; per-user limit |
| idle sessions (`service/idle`, `repository/idle_repo.go`) | `idle_records`, device cache, heartbeat keys, active set shards, daily counter, `idle_daily_points` | Start, Heartbeat, Stop, scanners, keyspace events, settle, backfill | one session is settled by many; the cap is read, filled and taken in separate steps; midnight | paid once; within the daily limit; every dead session is settled in the end |
| scan sharding and failover (`service/idle/scan_sharding.go`) | pod index and total, alive keys, owned shards | resolution of the index, discovery by DNS, takeover by the leader | pods join, die and disagree about their number | every shard has a scanner in the end |
| leader election, scheduler (`cluster`, `scheduler`) | lease key, leader flag, done-period marks | acquire, renew, give up; periodic and per-period jobs | lease expiry against a slow renewal; jobs without a leader | one leader; no period is skipped |
| task progress (`service/task`) | progress rows, dedup rows | consume event, claim reward, reset period, list | redelivery, order, events late across a period, a deadlock inside the transaction | an event counts once; a reward is earned and paid once |
| message queue (`mq`) | queue, overflow goroutines, breaker, dead-letter file and its snapshot; offsets, dedup store, retries | send, publish, file, replay, close; fetch, handle, commit, acknowledge | crash between any two file operations or before a commit, outages, late confirmations, concurrent workers of a partition | nothing is lost or duplicated without a cause the code knows; everything settles |
| cache (`cache/strategy.go`) | L1 per pod, L2, singleflight calls, source lock, writes on their way | Get, Set, Delete, invalidation | load and fill racing a delete, a lagging replica, L1 of other pods, a source lock that runs out, a loader without a deadline | a read sees what its pod has changed; no caller spins for ever |
| authentication, account lock (`service/auth`, `handler/user_handler.go`) | user row and its cached copies, failure counters | Register, Login, ChangePassword, GoogleOAuthLogin, UpdateProfile | whole-row saves from stale copies, a copy without the hash, a hash that has been replaced | a change survives; the current password is accepted, a replaced one refused |
| concurrency limit, breakers, degradation (`middleware`, `degrade`) | slots, breakers per route, open counter and flag | admit, report, trip, reload | two atomics written one after the other, a reload under open breakers | the flag follows the breakers |
| rate limit, captcha, bootstrap, configuration, handlers, repositories of Mongo/ES/ClickHouse, metrics | wiring | - | - | - |

How they interact: Redeem, FlashRedeem, the settlement of an idle session and
the claim of a task reward all end in a businessDB transaction that also writes
an outbox row, and then call ApplyAsync. The services use the lock, the Redis
scripts of `cache/manager.go` and the cache directly. Settlement and redeem
publish events that task progress consumes. The scheduler and the leader flag
decide which pod scans and which pod runs a job. A tripped HTTP breaker sets the
degraded mode, in which the cache leaves out Redis.

## 2. Modules

| module | code | kind |
|---|---|---|
| `PointsLedger` | what the outbox promises | abstract specification |
| `PointsOutbox` | outbox, its three kinds of process, UpdatePoints | component |
| `RedisLock` | Lock, Unlock, token map, TTL | operators the next two compose with |
| `ShopRedeem` | Redeem, DeductStock, counter, reconciliation | component, extends `RedisLock` |
| `FlashSale` | FlashRedeem, scripts, operators, caches | component, extends `RedisLock` |
| `IdleSettle` | settleSession, daily cap, summary, backfill | component |
| `FaultBudget` | adverse events, counted and remembered by kind | shared by all below |
| `MqBroker` | the broker as the adapters use it (external) | shared state |
| `MqProducer` | producer_base, dlq, the producers of all brokers | component, extends `MqBroker` |
| `TaskProgress` | progress, dedup, claims, resets | component |
| `MqConsumers` | the consumers of all brokers, progress stores | component, extends `MqBroker`, `TaskProgress` |
| `EventPipeline` | producer, broker, consumer, task service | composition |
| `LeaderElection` | elector, lease, singleton jobs, life of a pod | component |
| `ScanSharding` | shares of the scan, takeover, discovery | component, extends `LeaderElection` |
| `IdleSession` | Start, Heartbeat, Stop, scanners, events | component, extends `ScanSharding` |
| `IdleCluster` | the pods of a deployment | composition |
| `Degrade` | open counter and flag | component |
| `HttpBreakers` | concurrency limit, breakers, reload | component, extends `Degrade` |
| `ThreeLevelCache` | L1, L2, singleflight, source lock, degraded modes | component, extends `HttpBreakers` |
| `UserAccounts` | the requests on one cached row, account lock | component, extends `ThreeLevelCache` |
| `Gateway` | a request from arrival to answer | composition |
| `SumTheorems` | sums over finite sets (`SumFunctionOnSet`) | TLAPS, lemmas for three of the next |
| `*Proofs` | theorems about the module they extend | TLAPS |
| `MC*` | instances for TLC | with their `.cfg` files |

All component modules follow one convention. A request, worker or call has a
program counter `pc`; its values name the command it is about to make. One
action is one Redis command (or script), one SQL statement or one commit,
together with the purely local code around it: between two of them anything may
happen. An error return is a disjunct of the action, guarded by `Fault`. A call
whose effect happened and whose reply was lost is a disjunct of its own. The
bounds (`MaxFaults`, `MaxCrashes`, ...) only cap how often the environment
misbehaves; they are the only part of a module that is not in the code. The
operators commented "Slip:" are wrong variants of the definition that follows
them, kept to show that the properties notice the difference.

**PointsOutbox.** `status` is the column of a row, with "new" and "checked" for
the business transaction before its commit. `Procs` are the goroutine
ApplyAsync starts (named after its event), consumers and relays; `Holds(x)`
means the process is between Claim and the closing write. `applied` and `lost`
are ghosts: how often an amount reached userDB, and how often it did so with an
error returned. Refused debits (`balance + delta < 0`) are requeued and stay
pending, as in the code.

**ShopRedeem.** `bucket` holds committed rows; `took[r]` is the row an open
transaction has taken from. `RowLocks` are the rows it keeps locked: that one and,
where `KeepsExamined` is set, those its UPDATEs examined in vain, as InnoDB does under
REPEATABLE READ, the level `db/mysql.go` leaves in force. A deduction waits while
another transaction has the row locked, otherwise it succeeds or moves to the next
bucket; two that wait for each other are a circle, in which the database fails one,
and Redeem takes that error for sold out. `seen` is the total
that FindItem delivered, possibly from the replica, with which the script
creates a missing counter. `ReconcileRead` and `ReconcileSet` are two steps.

**FlashSale.** `row` is the transaction that has locked the activity row.
`count` and `meta` are the cache entries of every pod's L1 and of L2; a Get
returns an L1 hit, else an L2 hit that fills L1, else what the replica shows and
fills both. Delete clears this pod's L1 and L2. The operator's UpdateFlashActivity
reads the replica, writes the row, clears caches and reconciles in four steps.

**IdleSettle.** One user. `Settlers` are calls of settleSession; `SessionOf`
says which record each holds, so two calls may hold the same. The day is read
anew by each command, as in the code. `disturbed` is a ghost that records the
days on which the counter stopped to stand for what was granted: a warm-up that
overwrote it, a loss, a release after a lost reply, or a step across midnight.

**FaultBudget.** `Disturb` is an adverse event every property survives, `Harm(k)`
one that some property has to except; `harm` remembers the kinds, so that an
exception is stated as the cause the code has and not as a weaker promise.

**MqProducer.** `queue`, `over` (goroutines for messages the queue did not take),
`worker` and `breaker` are the memory of a process; `dlq` and `snap` are the
dead-letter file and the `.replaying` snapshot, which outlive it. The replay is
`ReplayTick`, recovery of an old snapshot, `ReplayRename`, one `ReplayLine` and
`ReplayAnswered` per line, `ReplayWriteBack`, `ReplayRemove`; a crash falls between
any two. A publication is a call and its answer: the message may be stored and the
answer lost, or, for RabbitMQ, come after the timeout and lie in the channel as the
confirmation of the next message. Kafka, RabbitMQ and RocketMQ differ in the number
of workers, batches, retries and the drain at Close; memory and no-op have no
buffer. `link` is the connection: a RabbitMQ producer that cannot dial when the process
starts is replaced by a nopProducer for good ("none"), which takes messages and drops
them (`bootstrap/app.go:318-320`); one that loses its connection keeps the dead one
("cut", `mq/rabbitmq.go:134-143`), so only a restart publishes again. Kafka and RocketMQ
dial again by themselves.

**MqConsumers.** A delivery is an index of `log`. `flight` says where it is: fetched,
looked up, handled, failed with retries, committed, acknowledged. Progress is kept
in memory and flushed to a file (`mem`, `disk`) or kept in a table, where read and
write are two statements. `setup` ranges over the store, `ordered_commit`,
`start_from_latest` and whether the local dead-letter file is configured. A start loads
the recorded progress and goes on from nothing when the load fails
(`mq/consumer_progress.go:75-81`). `fate` is a ghost: how an index was settled first;
"dropped" is a message no dead-letter file took. `since` is the day on which the handler
of a delivery was called.

**TaskProgress.** `rows` are the progress rows by task and period. The handler is one
transaction with the dedup row and is one step (`ApplySkips`, `ApplyCommits`), but for
the period of each task, computed before the INSERT at any day between the call and the
commit (`ClockReadings`), and for
a deadlock MySQL reports on one of its updates, after which the code goes on without
a transaction (`ApplyDeadlocked`). A Claim reads and then writes; the reset of a
period and the clean-up of dedup rows fall in between. `replica` is what the listing
and the claim's first read see where there are slaves; it catches up at any moment.

**LeaderElection, ScanSharding.** `lease` is the key in Redis, `token` and `believes`
what a pod thinks; a tick is a command and later the use of its reply, so Stop and
expiry fall in between. Shares are computed from `index` and `total`, which a
StatefulSet name, the configuration or the DNS give; the leader adopts the shares of
every index without an alive key, whether it ever had one or not (section 3).

**IdleSession.** `active` is the row a device has, beside heartbeat keys, the sharded
active set, the device cache and the settle lock. Requests, scanners and event
handlers are actors with a program counter; settling is the step that
`IdleSettle.PaidOnce` justifies as one, followed by each of the clean-ups of
finalizeSettlement. Ghosts: `raced` (a count of devices that was not true any more)
and `unlisted` (a session the active set lost).

**Degrade, HttpBreakers.** Counter and flag are two steps. A breaker has state,
generation and counts as in gobreaker, which is external; a reload makes new breakers
while requests still report to the old ones. Only an answer of 500 or more is a failure:
the handlers answer an error of the database with 200 or 400
(`response.go:70-76`), so what trips a breaker is a pod without a free
bcrypt slot (503, `service/auth/auth_service.go:576`) or a panic.

**ThreeLevelCache, UserAccounts, Gateway.** One row; a copy is the set of changes it
contains, and the hash it has, one for each password set. `replica` is the row of the
slaves, from which activities are loaded (`repository/shop_repo.go:383-388`). `flight`
is the singleflight call of a pod (read, lock, load, fill), `late` the writes that
goroutines have yet to make, `src` the source lock; `db` says whether the database
answers, fails, or hangs until a request's own deadline. Requests register, log in,
change a password, save a profile, bind a Google account, create, edit or read; the
worker of the outbox adds points and the ticker flips the status of activities. Each
runs its service's calls in order. `Encoded` is the JSON form of a user that every
cache but the loader's own answer goes through, and which leaves out the hash. `Gateway`
puts limit and breaker before and the report after them; the routes of operators have
the limit alone (`router/router.go:154-164`). Ghosts: `committed`, `began` (what had
finished on the pod before), `raced` (a copy landed behind a deletion), `lost` (what
the row lost, and to whom).

## 3. Runs

| run | instance | checks | result |
|---|---|---|---|
| `outbox_safety` | 2 debits of an account that can pay either but not both, 1 consumer, 2 relays, 2 pods, 1 of each failure | `TypeOK` `BalanceNeverNegative` `ExtraApplicationsAreLostReplies` `StatusTellsApplied` `OneHolder` | hold |
| `outbox_live` | a credit and a debit of one account, 1 consumer, 1 relay, failures but no lost reply | `LedgerSpec` `EventuallyAppliedOrStranded` | hold |
| `outbox_timeout` | the same with one timeout only | `EventuallyApplied` | violated |
| `shop_safety` | 3 requests of 2 pieces each, of 2 users on 2 pods, buckets of 2 and 1 that they try in different order, locks of examined rows kept, 2 adverse events: faults, expiries, aborts | `NoOversell` `SoldOutMeansNoBucketFits` `OneRedeemPerUser` `CounterCoversStock` `EveryRequestEnds` | hold |
| `shop_soldout` | requests of 2, buckets of 2, 1 and 1 | `CounterZeroMeansSoldOut` | violated |
| `flash_safety` | 3 requests of 2 users on 2 pods, limit 2 that an operator may set to 1 or 3, one adverse event | `PerUserLimitWithRedis` `CounterCoversQuota` `NeverSoldPastLimit` | hold |
| `flash_peruser` | 2 requests of 1 user on 2 pods, 1 fault | `PerUserLimitAlways` | violated |
| `idle_settle` | 2 calls for one session, 1 for another, limit 3 with 2 points each, 2 days, one adverse event | `PaidOnce` `CapUnlessDisturbed` `CounterIsTaken` `SummaryIsPaid` | hold |
| `idle_cap` | 2 calls for two sessions, no failure | `CapAlways` | violated |
| `events` | six deployments: 1 to 3 events, all five kinds of broker, four consumer set-ups, up to 3 faults, 2 days, 2 claims, a replica | `PipelineTypeOK` `OutagesLoseNothing` `DuplicatesHaveACause` `NothingSkipped` `ProgressOncePerEvent` `RewardIsEarned` `ListShowsThisPeriod` `DiskIsDurable` `OffsetNeverGoesBack` `EventuallyPublished` `EventuallySettled` | hold |
| `idle_cluster` | thirteen deployments: 1 or 2 pods, 2 shards, 2 devices, up to 2 requests and 2 faults | `StaleLeaderHasACause` `DevicesWithinLimit` `EverySessionEnds` `EveryShardIsScanned` `EveryPeriodIsReset` | hold |
| `gateway` | twenty-nine mixes of up to 3 requests on 2 pods and 3 routes, up to 2 faults | `ReadsOwnPodsWrites` `UndoneOnlyByStaleSaves` `PasswordsAreCurrent` `DegradeFollowsBreakers` `EveryCallEnds` | hold |

The four violated properties are what comments of the repository say:

- `outbox_timeout`: "the relay is the safety net". A worker whose context runs
  out between Claim and Requeue cannot requeue either, since both use the same
  context. The row stays in `processing`, and Claim and the relay look at
  `pending` only. `EventuallyAppliedOrStranded` is what does hold.
- `shop_soldout`: "the counter is zero only when the item is sold out". Redeem
  sets it to zero whenever no single bucket holds the quantity asked for.
- `flash_peruser`: "no second purchase shortly after, even if Redis is down".
  The count comes from another pod's L1 or from a replica.
- `idle_cap`: "the warm-up keeps a cold key from granting too much". The
  warm-up itself SETs the key over what others were granted meanwhile.

In some places the code does otherwise than a comment of the repository says, beside the
four above. The models follow the code, and where a property is concerned it names the
case.

- A false sold-out (`repository/shop_repo.go`, the loop of DeductStock that is there to
  avoid it): two redeems of different quantities that walk the buckets from different
  homes lock what they examine, the database fails one of them, and Redeem answers sold
  out while a bucket behind the other's lock would have done. `SoldOutMeansNoBucketFits`
  speaks of that request only if all quantities are the same.
- "The DLQ has been persisted, nothing is lost" (`mq/kafka_consumer.go:517`): appendDLQ
  reports no error, so the offset also passes a message its file could not take, or for
  which no file is configured. `NothingSkipped` names it (`DlqFailed`).
- "The offset only grows" in both modes (`mq/consumer_progress.go:33` and `207`,
  `mq/kafka_consumer.go:555`): two workers' transactions on the table read and then
  save, so the smaller may come last. `OffsetNeverGoesBack` names it (`StaleSave`).
- "Sent again once the broker recovers" (`mq/rabbitmq.go:36-39`): not on a connection
  that was cut, nor by the nopProducer of a process that started during an outage.
  `EventuallyPublished` and `OutagesLoseNothing` name both.
- "Only pods once seen alive are taken over" (`service/idle/idle_service.go:186-189`):
  the code adopts every index without an alive key. `EveryShardIsScanned` holds because
  it does: a leader that kept to the comment would never scan for a pod that died before
  the leader's first round.
- "The context keeps its deadline" (`cache/strategy.go:196-203`): `context.WithoutCancel`
  drops the deadline too, so a loader and everybody who joined it wait as long as a
  database that hangs. `EveryCallEnds` names it (`HangsInDatabase`).
- "The breaker guards against a database that jitters" (`router/router.go:79-81`): errors
  of the database are answered with 200 or 400, which the breaker counts as successes.

The other exceptions are things the code does and says nothing of:

- `OutagesLoseNothing`, `DiskIsDurable`: a failed file operation, a dead-letter file
  at `maxBytes`, and RabbitMQ's confirmation that comes after its timeout and is
  taken for the next message's (`mq/rabbitmq.go:285`).
- `NothingSkipped`: without `ordered_commit`, a crash skips what was in flight below
  the recorded offset; `start_from_latest` skips the backlog, also when the progress
  could not be read. `OffsetNeverGoesBack`: a progress file that could not be loaded is
  replaced by the next flush.
- `EventuallySettled`: a RabbitMQ consumer that ended with its connection is not
  started again.
- `ProgressOncePerEvent`, `RewardIsEarned`: IncrProgress repeats a statement in a
  transaction that MySQL's deadlock has already rolled back; a dedup row that was
  cleaned up before a redelivery.
- `ListShowsThisPeriod` holds once the daily reset has run and reached the replica:
  before, a daily row of Monday also matches the weekly tasks' period. An event handled
  across midnight adds a row of yesterday after the reset.
- `CapUnlessDisturbed`, `SummaryIsPaid`: a warm-up over what others were granted, a
  step across midnight, a backfill beside a payment.
- `OneRedeemPerUser`: a lock that ran out.
- `StaleLeaderHasACause`: a failed renewal, or a reply that outlived the lease, keeps
  the leader flag after the lease is gone.
- `EveryPeriodIsReset` holds while leadership stays where it is: every pod marks a
  period as done, also those that did nothing.
- `EveryShardIsScanned`: needs the failover, or that no pod leaves.
- `DevicesWithinLimit`: the count and the INSERT of Start are not one transaction.
- `EverySessionEnds`: a session the active set does not hold is found by no scanner;
  finalizeSettlement of an earlier session of the device may remove it.
- `ReadsOwnPodsWrites`: a load that read the row before the commit fills the caches
  after the deletion, or is joined; a replica that lags; a deletion in Redis that failed.
- `UndoneOnlyByStaleSaves`: GoogleOAuthLogin, UpdateProfile and UpdateFlashActivity save
  every column of a copy. The property says which copy that can have been: one the
  request got before the change was finished on its pod, or a stale one of the kinds
  `ReadsOwnPodsWrites` excepts.
- `PasswordsAreCurrent`: the cached user has no hash, so the current password is refused
  and counted; a save of such a copy empties the hash of the row; a login that joined a
  read begun before a change of password compares with the old hash.
- `DegradeFollowsBreakers`: a reload drops open breakers, a half-open breaker that
  trips again is counted a second time, and two callbacks may write the flag in crossed
  order, so the degraded mode does not end or does not begin.

**Bounds.** Each instance has the fewest actors with which each race exists:
two competitors for the same thing on different pods, a third that depends on
the outcome, and quantities with which exactly one of them can be served. One
adverse event of each kind (in `shop_safety` two, in `flash_safety` and
`idle_settle` one altogether) lets every error path meet every interleaving of the
others; the theorems below have no such bound. The counter properties name the
adverse events they exclude: with them the code makes no promise, the keys' TTL or an
operator repairs it. In `shop_safety` requests of two against buckets of two and one
leave each of two requests with one row it has examined in vain, which is what a circle of
waits takes. `RelayLimit` in the outbox runs is not smaller than the number of rows: that
old debits nobody can pay fill the relay's LIMIT is not asked of the model (section 6).

`events`, `idle_cluster` and `gateway` compose many parts, so one run covers several
deployments, each with its own traffic and fault budget: a wide one with few faults,
narrow ones with more. In `events` the queue and the overflow pool hold one message
and the dead-letter file two lines against three messages, a replay round takes one
line, and one failure opens the breaker, so every limit is hit; three faults allow an
outage, a crash in the replay of what it left, and another failure after it. The
deployment with claims runs over a change of the day with a replica. In
`idle_cluster` two pods suffice for disputes about the lease and about shares; one
user and two devices with `MaxDevices = 1` for an eviction and a new session of the
device evicted. In `gateway` a breaker trips on one failure and closes after one
success, a pod has one bcrypt slot, and the limit of two requests is reached; the pairs
of requests are those that meet on one key: each kind of write with a read, a login or
another write, on the same pod and on two.

**Deadlock.** `idle_settle`, `idle_cap`, `events`, `idle_cluster` and `gateway` switch
the check off because all calls may have ended and all messages be settled; the
other modules have steps that may always recur (relay scans, reconciliation).
Waiting for ever is what their liveness properties exclude.

**Fairness.** Everywhere weak fairness for the steps of goroutines that run (the Go
scheduler runs them, and each command returns or times out) and for what time alone
brings about (tickers, TTLs); none for requests that have not begun, for failures,
operators or shutdowns.

- `PointsOutbox`: processes, relay loop, `Age`; none for delivery by the queue.
- `ShopRedeem`: one condition for all requests that have begun, since each takes
  finitely many steps. A row lock is given to a waiter when it is free.
- `MqProducer`: each worker, the overflow goroutines, the replay, the breaker's
  timeout, and that an outage ends and a process is restarted; none for a connection
  that was cut, which nothing dials again. Strong fairness for
  `Exit` alone: the select between the replay timer and `closeCh` picks at random,
  so the timer does not win for ever.
- `MqConsumers`: deliveries, start by the supervisor, end of a shutdown.
- `LeaderElection`, `ScanSharding`: ticks of elector, jobs and loops that change
  something, and the TTL of a lease nobody renews.
- `IdleSession`: requests, and per pod scanner and event handler, expiry of
  heartbeats and locks.
- `Gateway`: one condition for requests, singleflight calls and late writes; none for
  expiry, recovery or reload, for the replica, or for a database that hangs: the
  statements of a request come back with its deadline, those of workers and loaders only
  when the database does.

## 4. Theorems

For any number of users, events, messages, requests, pods, routes, buckets, sessions
and devices, any quantities, capacities and limits, and any values of the bounds.
Every safety property of the passing runs is a theorem. None is inductive as it
stands; the invariants that are, all checked with TLC before they were proved:

- `PointsOutboxProofs`. `IndInv`: types; a process that holds a row holds one in
  `processing`, and no two hold the same; and how often an amount was applied,
  told by the status of its row and the position of its holder. The named safety
  properties do not mention program counters and are not inductive: `done` means
  applied only because a holder at MarkDone has just applied it. From `IndInv`
  follow `OutboxTypeCorrect`, `OutboxBalance`, `OutboxOneHolder`,
  `OutboxStatus`, `OutboxExtra`, and, under the assumption that no reply is lost
  (`MaxLost = 0`), `OutboxRefinesLedger`: each step is a step of `PointsLedger`
  or changes nothing there.
- `ShopRedeemProofs`. `StockInv`: a row that an open transaction has taken from
  still has the quantity, and belongs to one transaction; hence `ShopNoOversell`.
  `ScanInv`: every bucket a request has passed is too small for it, for good,
  because stock only falls; hence `ShopSoldOut`. For the request that
  breaks a circle of waits: each in it has examined all rows up to the one the next has
  locked, so together they have examined every row (`CircleCoversAll`), and for one
  quantity each row is too small. `MutexInv`: until a key expires,
  a request inside Redeem owns its user's key and its pod's map entry; hence
  `ShopOneRedeemPerUser`. `CoverInv`: counter and requests that took from it and
  have not given back cover the stock, and every total somebody has read, from the
  replica, for the script or for the reconciliation, is at least today's stock; a
  missing counter means nobody has taken. Hence `ShopCounterCoversStock`, for
  requests of one piece, as the property says. `MakeBucketsTotal`: makeBuckets
  distributes the whole total, remainder included.
- `FlashSaleProofs`. `QuotaInv`: only the transaction that holds the row lock may
  commit, and while it is held there is quota left; `sold_qty` is the number of
  orders. Hence the action property `FlashNeverSoldPastLimit`, limit changes
  included. `RedisInv` adds that a request holds what the script gave it exactly
  until it buys or releases (`HoldersOK`), that the user's hash field counts at least
  what the user's requests hold or bought (`HashCovers`), and that the counter and the
  holders cover the quota, with every row a warmup has read at most as sold as today's
  (`CounterCovers`); hence `FlashPerUserLimit` and `FlashCounterCoversQuota`. The
  lock is not used: the per-user limit stands with locks that run out.
- `IdleSettleProofs`. `PayInv`: a call that has paid is past its transaction, so
  its grant no longer changes; hence `SettlePaidOnce`. `CapInv`: what calls were
  granted on a day that nothing disturbed is covered by the counter, and is the
  counter if nothing failed; a day without a counter was not used at all
  (`FreshDay`), which is what makes a warm-up there harmless. Hence `SettleCap` and
  `SettleCounter`. `SettleSummary`: each payment is in the summary row or still to be
  added.
- `IdleClusterProofs`. `LeaderInv`: between its SETNX and the use of the reply a pod
  has the lease, and a pod that believes has lease and token or was late; hence
  `StaleLeaders` and `OneLeader`. `DeviceInv`: a Start that nobody has overtaken since
  its count has room, or evicts sessions that are still the ones it counted; hence
  `DeviceLimit`.
- `GatewayProofs`. `DegradeInv`: the counter is the number of breakers that are not
  closed, and at most one callback is between counter and flag; hence
  `DegradeIsRight`. The other three rest on `RequestsInv`, and on one lemma, `AllSteps`,
  that reduces every step to what it does to row, copies, shared calls and one request.
  `ChainInv`: what each request has done and holds, told by its position. `CopyInv`: a
  copy has committed changes only, and a hash together with the change that set it; what
  comes from a cache has no hash. `SecretInv`: the current hash, and every committed
  change, is in the row unless a save has undone it, and a copy marked as fresh has the
  current hash or lacks the change that set it. `SeenInv`: a committed change without an
  excuse is in the row, in what L1 and L2 hold since its deletions there, in the call a
  later reader has joined, and in what it got; hence `PodsReadTheirWrites`. So a save
  lacks only what its request did not have to see, which with `CopyInv` gives
  `ChangesAreUndoneBySaves`. `PasswordInv` says of what a request got, or of the call
  it waits for without having joined an older one, what the comparison needs: a fresh copy
  has the current hash and not a replaced one; hence `PasswordsAreJudged`.
- `EventPipelineProofs`. `PipelineInv` joins the invariants of producer, consumer and
  task service: types (`PipelineTypes`); every index below the recorded offset or
  below a delivery is settled or excepted, every one below the reader's position is that
  or in flight, and a strictly ordered commit writes over the row it has read, while the
  progress in memory is ahead of a file that could be loaded
  (`CoverOK`, `OffsetOK`), hence `ProgressCoversSettled` and the action property
  `ProgressGrows`; an event counts once, and a row, of the primary or of the
  replica, lies in a period of its task that the reset it shows has left
  (`RowsPlaced`), hence `EventsCountOnce` and `ListShowsToday`. `RewardInv`: the
  progress of a row is at most the sum of the gains of the distinct events credited to
  it, and so is the target of a row that was completed or paid; hence
  `RewardsAreEarned`. `KeepInv`: a message
  sent is somewhere, and for each stage of the replay what the snapshot still has to say
  (`SnapCovered`): lines ahead of it are in the snapshot, lines behind it at the broker
  or written back. Hence `ProducerLosesNothing` and the action property
  `DiskLinesStay`. `OnceInv`: without the three causes no sequence repeats a
  message and each message is in one place only, which turns the count of copies at the
  broker into disjointness of places; hence `DuplicatesAreExplained`.
- `SumTheorems`. What `SumFunctionOnSet` returns for one element more, one less or
  one changed, for zeros and natural numbers. The induction over finite sets is made
  first-order: the sets for which a fact fails have a least one by the well-founded
  order of strict subsets, and that one is contradicted.

**Assumptions.** The named ASSUMEs of the modules, which TLC evaluates on every
instance: types of the constants, values such as `NoValue` that differ from all
others, and finiteness of what is counted or summed up (sessions, devices, routes).
Three say something of the system. `DeployAssumption`: the requests of a deployment are
all about one user or all about one activity. `DeploymentAssumption`: a broker that already holds
a message twice is given no producing pod, since the property on duplicates would fail
at the start, and its backlog fits the bound of the log. `ProducerAssumption`: a
producer has a worker, which `mq/rabbitmq.go:386-390` makes sure of. The exceptions a
property has are part of its statement (section 3), never an assumption.

**What the proofs found in the models.** A Start that had evicted another device's
session went on to create its own for that device (`IdleSession.RemoveActiveSession`);
a Google login that creates a user deletes no cached key, so a miss cached before
hides the new row from its own pod, and `ReadsOwnPodsWrites` now speaks of changes
that delete their keys (`repository/user_repo.go:78-83`); a consumer that starts loads
its progress file before it asks the broker for partitions (`mq/kafka_consumer.go:181-200`).

**Only model-checked.** Liveness, since fairness and ENABLED are out of the prover's
reach: `EventuallyAppliedOrStranded`, `EveryRequestEnds`, `EventuallyPublished`,
`EventuallySettled`, `EverySessionEnds`, `EveryShardIsScanned`, `EveryPeriodIsReset`,
`EveryCallEnds`. And the four violated properties, which no theorem can state.

## 5. What the models leave out

- Running without Redis (`L2 == nil`), in which the scripts grant everything.
- The status and time window of a flash activity, EndFlashActivity and item
  administration; BackfillStockBuckets.
- Replicas: one, which jumps to the primary's state at any moment and not through the
  states between.
- SETNX and the store into the token map are one step, as are load and fill of
  the cache in FlashSale (the outcome is that of a stale replica read).
- Gap locks and lock timeouts of the database: a row lock is released with its
  transaction. A circle of waits is found when it closes, and ends with the error of one
  of the transactions.
- A daily limit of zero or less (no cap), and the difference between the
  backfill's UTC day and the local day.
- Reads that only answer: Status, Records, rankings, listings, statistics.
- Idle sessions: one user and one shard with sessions; reads are from one set of
  values a short while old, in place of each pod's own cache and replica.
- Queue: one partition; creation of topics, assignment of partitions, lag metrics,
  and a dead-letter line longer than the scanner's buffer.
- Tasks: SeedTasks and the cached definitions, since tasks do not change. The listing is
  one look at the rows and the periods, and a reset one step: a listing whose own reads,
  or a reset whose reading of the clock and deletion, lie on both sides of midnight is
  left out.
- gobreaker's periodic reset of counts in the closed state. The failure ratio is the
  configured 0.5.
- Cache: bloom filter and hot keys (they count and decide nothing here), GetMulti and
  SetMulti.
- Cache: the row is cached under the key of the scenario; a look-up by its other key
  (email for a user ID, and the other way) is answered from an up-to-date cache, without
  a hash, or from the database. Users are read from their one server, activities from a
  replica or, where none is healthy, the primary.
- A panic ends a request at its answer, after whatever its service did.
- Accounts: tokens, their blacklist and refresh, password rules, Google's answer.
- Rate limit, captcha, CORS, the authentication filter: each decides on one request.
- The connections of the read/write database: weights and health of replicas.
- Everything `PROJECT.json` lists as `not_modelled`: configuration, handlers, router
  beyond the order of the chain, logging, metrics, tracing, health, and the
  repositories of Mongo, Elasticsearch and ClickHouse, which have no state that
  several steps share.

## 6. Plan

1. "An event counts once" as an abstract specification that `EventPipeline`
   implements when no exception applies, with the refinement proved as that of the
   points ledger.
2. Further action properties: an account lock ends only with a success or its TTL, a
   settled record is never active again.
3. The relay's LIMIT filled with debits nobody can pay; the activity's time window.
