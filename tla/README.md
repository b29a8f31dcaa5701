# Verification of the live-stream danmaku system

TLA+ models of the concurrent and fault-tolerant parts of this repository, the
TLC runs that check them on small instances, and TLAPS proofs of the main
results for every size. The models follow the code of the current stage V10
(`src/v10`) and of the insight service V11 (`src/v11/insight`); one compares how
the earlier stages and the root prototype store the history.

## 1. The system

A browser connects to one of several V10 servers over a WebSocket. A danmaku
goes from its `ReadPump` to `Manager.Broadcast`, through Redis Pub/Sub to every
server of the room and from there to the clients, and on a second path through
Kafka to a consumer that writes the history to MySQL. Likes are added up in
memory and carried to Redis by a statistics goroutine every three seconds. V11
reads messages from a source, collects them into windows of a room and has a
language model, or rules in its place, write an insight for each.

| Part | State | Operations | Talks to | Hard about it | Correct means |
|---|---|---|---|---|---|
| History consumer (`consumer/handler.go`, `cmd/consumer`, `repo`, `queue/kafka_dead_letter.go`) | a batch per partition, session position, MySQL rows, dead letter topic | receive, flush, retry, pause, dead letter, mark; join, cancel, crash | Kafka group, MySQL, dead letter topic | redelivery, zombies, crashes between insert and commit, outages, rebalances during a wait | nothing marked or committed is lost; rows are those of first records; the backlog drains |
| Circuit breaker (`resilience/breaker.go`) | state, failures, deadline, probe flag, generation | allow, complete, open | publish workers, statistics | calls outlive the state they were allowed in | one probe; only current calls count; it recovers |
| Like statistics (`ws/manager.go`, `infra/redis.go`) | local increments, local totals, Redis counter | AddLike, drain, flush, restore, read | readers, Redis through the breaker | likes arrive during a tick; partial failure; INCRBY resent or late; rooms come and go | nothing lost; nothing twice but by a copy of INCRBY without an answer |
| Connections, rooms, subscriptions (`ws/handler.go`, `ws/client.go`, `ws/manager.go`, `ratelimit/controller.go`) | admission counters, rooms, cancel functions, subscription goroutines | admit, upgrade, register, unregister, close, subscribe, cancel | handlers, one manager, one subscription per room | hand-over on unbuffered channels, Close from three sides, cancel after unlock | exact slots; members are readers; subscriptions follow rooms |
| Real-time fan-out (`ws/manager.go`) | four bounded queues, worker pools, subscriptions | submit, publish, fall back, receive, broadcast | Redis, breaker, rooms | publish timeouts, reordering by workers, full queues, inactive or overlapping subscriptions | every second copy, missing message and changed order has one of the reasons the code leaves |
| Slow clients (`ws/manager.go`, `ws/client.go`) | send buffer, drop counter, done | safeSend, WritePump, Close | broadcast workers | counter updated by several workers; blocked write | a slow client is closed, a fast one is not |
| Online counts (`infra/redis.go`) | server set, counts with TTL | report, total, remove stale | several servers | non-atomic read and remove | a live server is back after its next report |
| Message limits (`ratelimit/controller.go`) | token buckets in 64 shards | allow, sweep idle buckets | readers | clock read before the lock, idle removal | no more and no less than a perfect bucket, up to the delay before the lock |
| History publisher (`queue/kafka_publisher.go`, `publisher_health.go`) | counters, health | enqueue, drain, close | sarama producer | shutdown against enqueue | every enqueued message is answered |
| Web client (`web/src/realtime/useDanmakuSocket.ts`) | generation, socket, timer | connect, close, reconnect | server | late events of replaced sockets | one live socket |
| Insight windows (V11 `window/memory`, `app/processor.go`, `repository/memory`) | windows, claims, completed, insights | add, claim, load, save, complete, release | a worker pool, an analyzer | events during analysis, failure after save, failure of release | one holder per claim; insights miss nothing that came in time; published once; a call ends with its windows published or released |
| Model guard (V11 `guarded_model.go`) | failures, deadline, semaphore | before, call, record | analyzers | stale test before the wait, places given back on every end | a failing model delays nothing for ever |
| Earlier histories (V4, prototype, V5, V8) | queue or batch, offsets, rows | enqueue, receive, flush, retry, drop, dead letter, end | in-process queue or Kafka, MySQL | marks that overtake pending records, drops after retries, sessions and processes that end | losses and duplicates have the reasons the next stage gives |
| Everything else | | | | | |

"Everything else": message ids, authentication, query and metrics endpoints,
migrations, benchmarks, V11 prompting and parsing, and the connection managers
of the earlier stages. Each is listed in `PROJECT.json` with the reason; see also
section 6.

## 2. Modules

| Module | Role |
|---|---|
| `PartitionConsumer` | the history consumer on one partition, with its consumer group |
| `DurableLog` | what it promises: a committed position that only covers safe records |
| `PartitionConsumerProofs` | its theorems |
| `CircuitBreaker` | the breaker and the calls made through it |
| `FailFast` | what it promises, with no generations: a trip strikes all calls in flight off a list |
| `CircuitBreakerProofs` | its theorems |
| `LikeStats`, `LikeStatsProofs` | likes from `AddLike` to Redis; its theorems |
| `RoomRegistry`, `RoomRegistryProofs` | admission, rooms and subscriptions of one server; its theorems |
| `SlowClient` | one connection: safeSend by several workers, both pumps, Close |
| `RoomFanout`, `RoomFanoutProofs` | a message from `SubmitDanmaku` through Redis to the clients of several servers; its theorems |
| `RateLimiter` | the limits of messages and likes |
| `ConnectionProofs` | the theorems of `RateLimiter` and `SlowClient`, the two ends of a connection |
| `InsightPipeline`, `InsightPipelineProofs` | V11 from the source to the repository, with the model guard; its theorems |
| `HistoryStages`, `HistoryStagesProofs` | how V4, the prototype, V5 and V8 store the history; its theorems |
| `MC*` | model values, small sets and symmetry for TLC |

Definitions marked "Variant" are mutated forms of the definition that follows
them, used to confirm that each property can fail. They are in no next-state
relation.

### PartitionConsumer

One partition holds a fixed log `topic`, one record per offset; a record is
valid with a message id, unsupported, or poison, which is all `parseMessage`
distinguishes. Every member of the group runs `ConsumeClaim`; `pc` says where.
`select` is the Go select, `insert` and `reply` are the two halves of
`CreateIdempotent`, so that a crash, an eviction or another member's insert can
fall between the commit in MySQL and its answer. `backoff` is the wait in
`flushPending`, `paused` the one in `flushWithRecovery`, `deadletter` the call to
the dead letter topic, `left` the return. A batch is the set of its offsets.
`reason` remembers which of the callers `flushPending` returns to. Around it,
`Join`, `Commit`, `Leave`, `Cancel`, `Fenced`, `Evict`, `Crash` and
`SessionExpires` are sarama and the broker, as the code uses them: a member
starts from the committed position, marks move only forward, a commit of an
evicted member is refused, and what was marked but not committed is forgotten
when a session ends. An evicted member goes on as a zombie until it is fenced.

### CircuitBreaker

`Execute` is `Allow`, the call itself, `Complete`; several callers are in it at
once. Time is the distance to `openUntil`. During the outage every call may
fail, also after the outage has ended (`doubtful`).

### LikeStats

One statistics goroutine (`statsRunning`), any number of readers. A room is
absent, being joined (its first reader runs, `handleRegister` has not finished),
or in `Manager.rooms`. `deltas` is what the goroutine drained and carries. The
breaker is present as one of the reasons a call fails. The model is of a server
with Redis enabled.

`IncrRoomLikes` has no request id, and `InitRedisClient` keeps the client's
default of resending a command whose answer does not come. So one call may send
several copies of an INCRBY (`IncrUnanswered`), and each copy on the `wire` may be
carried out (`CarryOut`) or not: while the call goes on, after another copy has
been answered (`IncrRoomLikes`) and the call has succeeded, or after it has failed
(`CallFails`) and the delta was put back. `uncertain` is the sum of the copies
carried out this way. Redis may therefore count a like more than once, by no more
than that sum, and this is what the two upper bounds say.

After an error the server shows `localLikeTotals` (`manager.go:614`), although the
comment at lines 141-142 says it is only used when Redis is disabled. What is
shown then is this server's part; `ShownIsEarned` covers both.

### RoomRegistry

Each client has a handler goroutine, followed from `AcquireConnection` to the
deferred release; the manager takes clients from the unbuffered `Register` and
`Unregister` channels in one step and handles them in later ones, so the handler
runs on in between. `handleUnregister` is its critical section and then `Close`
and `cancel`, as in the code. A subscription goroutine is running, cancelled,
gone. Both limits are positive, as in the server's configuration (a limit of
zero switches the test off).

### SlowClient

One connection whose client is in its room. `pc` says where each broadcast
worker, `WritePump`, `ReadPump` and the manager are; messages are counted, since
nothing here depends on which they are. `safeSend` is the channel operation
(`Accept` or `Drop`) and then what is done to `slowDrops` (`Reset` or `Count`),
as in the code, where other workers come in between. `Close` is three actions:
the first caller closes `done` inside `once.Do` (`BeginClose`), closes the
connection and returns (`FinishClose`), and later callers return after it
(`AlreadyClosed`). A write ends when the peer takes it or the connection fails;
there is no deadline, so the model has none. `slowDrops` wraps at `Modulus`,
which is 2^32 in the code. How clients enter and leave rooms in general is in
`RoomRegistry`, which in turn knows of this module only that a connection breaks.

### RoomFanout

Messages of several servers on their way: `SubmitDanmaku` into `Broadcast`,
`handleBroadcast` into `redisPublishJobs` or the local broadcast,
`redisPublishWorker` through the breaker, Redis, one subscription per room and
server, `handleRedisMessage` into `broadcastJobs`, the broadcast workers into
`Client.Send`. A subscription is named after the client whose arrival started
it, so an old and a new one of a room are told apart; Redis gives a message to
each that is active. A call to Redis is carried out zero times, once or twice
(the Redis client may send a command again) and then reported, rightly or not. The snapshot of a room and
the enqueueing of a job are one step, because the snapshot is private to the job
and taken under the lock; the pool that holds snapshots is left out. The breaker
may refuse at any time, and the buffer of a client in `Slow` may be full at any
time: `CircuitBreaker` and `SlowClient` say when. How often Redis carried a message
out (`carried`) and gave it to each subscription (`arrivals`) is history, kept to
state the reasons of the properties.

### RateLimiter

One limiter for users and one for rooms, asked one after the other. A goroutine
reads the clock (`ReadClock`), and at most `MaxDelay` later holds the lock and
does everything `keyedLimiter.Allow` does: sweep, refill, take. Tokens are counted
in the ticks it takes to earn them, so that rates need no fractions. `ceiling` and
`floor` are two perfect buckets that are asked at the moment of the lock; the
first is larger by the delay and must have had every token the code grants, the
second must have had less than one and the delay when the code refuses. Its
names that `SlowClient` has too (`LimitTypeOK`, `LimitNext`, ...) begin with
Limit, because `ConnectionProofs` extends both.

### InsightPipeline

`Handle` reads the clock and `Add` takes the lock later. `ProcessDue` claims the
first due windows and shares them out to the workers. A worker's step says where
it is in `processWindow` and, inside that, in `GuardedModel.Complete`: it asks the
circuit, waits for a place, calls, falls back to the rules, saves, completes, or
releases after a failure. The order of claims is by start of the window and then
by room (`Rank`). `recordOutcome` and the release of the place are one step; no
action depends on what comes between. The circuit closes at some time after it has opened.
`MaxFaults` bounds the errors of the ports; nothing bounds those of the model.

Who calls `ProcessDue` is outside the model: a call may come at any time when none
is running, and nothing makes one come. `cmd/insightd/main.go:88` calls it once
after the replay, so a window beyond the first `maxDueWindows` (32), one that is
not due yet, and one released after a failure are never taken up there; only the
benchmark calls again, until a call claims nothing or fails. What is checked is
what one call promises for the windows it has claimed (`RoundsSettle`); `failed`
remembers those a port has failed.

### HistoryStages

One of four stages is picked by `Init` and receives the same kind of log. The
parts they share are shared: a batch, a flush with retries, the inserts
(`CreateInBatches`, and `CreateIdempotent` in V8), the ends of sessions and
processes. What differs is an action of the stage. V4 has its writer and a loop
that drains the queue; the prototype a worker behind a channel that `Cleanup`
closes, with the panic of the next session; V5 and V8 `ConsumeClaim`. There is one
owner of the partition at a time (`PartitionConsumer` has zombies). A cancelled
wait between two attempts counts as one more failed call. Only V4 is
called with messages alone. The prototype's `parseMessage` returns nil for a packet
of another type "to signal" that it be skipped (`src/internal/consumer/handler.go:400`),
but its caller queues and marks the nil, and the insert refuses every batch that
holds one: `Storable` is false, all attempts fail, and the valid records beside it
are dropped (`spoilt`).

## 3. Runs

| Run | Shows |
|---|---|
| `PartitionConsumerSafety` | Two members, three records, batches of two, two attempts, two faults; every log over two message ids. Nothing marked or committed is lost (`NoLoss`), nothing read is skipped (`NothingSkipped`), rows belong to first records (`RowIsFirstRecord`), and the chain is a `DurableLog`. |
| `PartitionConsumerLive` | Two records, one fault. A cancelled claim ends even if MySQL and the dead letter topic fail for ever (`CancelledClaimEnds`); if outages end, everything is committed after any fault (`BacklogDrains`). |
| `CircuitBreaker` | Three callers, threshold two, three trips: `ProbeAccounted`, the refinement of `FailFast`, and the breaker closes for good after the outage (`Recovers`). |
| `LikeStats` | One steady room and one that comes and goes, two likes, two copies of an INCRBY without an answer, which may be resent inside a call that succeeds or carried out long after one that failed: Redis counts a like again only by such a copy (`NothingCountedTwice`), what is shown is earned up to them (`ShownIsEarned`), steady rooms keep their likes (`SteadyRoomsKeepLikes`) and get them to Redis (`LikesReachRedis`). |
| `LikeStatsEmptiedRoom` | A violation: see finding 1. |
| `RoomRegistry` | Three clients, two addresses, two rooms, limits of two and one: slots, members and subscriptions are exact, slots come back, subscriptions of empty rooms end. |
| `SlowClient` | Three workers, a buffer of one, a threshold of two, a counter that wraps at six, a peer that may stop reading for ever: the drop that reaches the threshold is never overlooked (`ThresholdIsNotMissed`), no goroutine leaves a connection half closed (`PumpsEndTogether`), a blocked `WriteMessage` ends, a closed client leaves its room with both goroutines. |
| `RoomFanout` | Two servers, three clients of one room, two messages of one sender, queues of one job, one fault. A message is seen again only after a command carried out twice, a lost answer or overlapping subscriptions (`CopiesAreExplained`); it is missed only where a full queue or buffer, a local fallback or a subscription that is lost or not active yet says so (`LossIsExplained`); order is kept behind single workers (`OrderIsKept`). |
| `RateLimiter` | Two users of a room, a delay of one tick, eight ticks: no limit grants more or less than a perfect bucket, up to the delay (`WithinPerfectBuckets`). |
| `InsightPipeline` | Two windows, one with more messages than it retains, two workers, one place at the model, one failing port and any failure of Release: one holder per claim (`ClaimsAreHeld`), insights miss nothing that came in time (`InsightsMissNothing`), one insight unless Complete failed (`PublishedOnce`). Whatever the model does, a call of `ProcessDue` returns, and each window it claimed is published and completed unless a port failed for it (`RoundsSettle`). |
| `HistoryStages` | Three records, valid, of another type or malformed (valid only for V4, which is called with messages), through each of four stages, batches of two, two attempts, three failures, cancellations or restarts: losses and duplicates have the reasons given, and V8 has neither (`HistoryIsExplained`). |
| `HistoryStagesV5` | A violation: see finding 2. |

**Bounds.** Two members are enough for a zombie and its successor, the only
overlap the broker allows at a time; a second fault brings a third session.
Three records and batches of two give a full batch, a partial one, a rejected
record between valid ones, and a duplicate inside and across batches. Two
attempts (here and in `HistoryStages`) distinguish the first, the last and a wait between them. Three callers
are a stale call, a probe and a bystander; three trips let a permit be two
generations old. Two rooms with one steady separate what a tick does for rooms
it sees and rooms it does not; two likes allow one carried while the other comes,
and two copies one resent in a call and one late from another, or both from the
same call. Three clients with a limit of one per address and two in total
reach both limits separately. Three workers are one late with a reset, one that
counts the deciding drop and one more that counts past it; the width of six is
passed twice at a threshold of two. Two servers are the sender's and another,
one with two broadcast workers, which may overtake each other, and one with one;
the third client arrives during the run and may have a full buffer; queues of one
job are full with one message in them; one fault is a departure, a failed call or
a broken connection. Two users of
one room reach the bucket of the room out of order and sweep each other's; eight
ticks let a bucket empty, be swept after five, and empty again. Two windows are one
due and one open, two workers on one place make one wait while the circuit opens,
and one failing port followed by a failing Release is the shortest way to lose a
window. Three faults in
`HistoryStages` are a failed insert, a cancellation and an end of the process.
`MaxJobs`, `MaxFaults`, `MaxGeneration`, `MaxLikes` and
`MaxStrays` bound counters and nothing else; `Subs` bounds the subscription
goroutines alive at once, two of them in the `RoomRegistry` run: an old and a
new one of the same room, or one of each. `MaxTime` bounds the clocks
of `RateLimiter` and `InsightPipeline`.

**Fairness.** Goroutines are scheduled, timers fire and the clock advances (weak
fairness of the handler's steps, of the manager, of `Tick`). Calls end, because
the Redis client works under `RedisTimeout`, MySQL and Kafka calls under their
own timeouts; nothing says how they end, except for recovery (`OutagesEnd`, the premise
of `BacklogDrains`, and the increments in `LikeStats`), where one of unboundedly
many attempts succeeds: that is what "the outage ends" means. Nothing makes a copy
of an INCRBY on the wire arrive. The manager's select
picks among ready cases at random, so a waiting client is taken in the end
(strong fairness of `TakeRegister` and `TakeUnregister`).

`SlowClient` also assumes that the room of the client is broadcast to again
and again: the statistics ticker of `Manager.Run` does that every three seconds
for every room with clients. Nothing is assumed of the peer.

In `InsightPipeline` no worker of a running `ProcessDue` stays in a step: the calls
of the model end by `GuardConfig.Timeout`, those of the ports return, and a worker
that waits for a place is served because the workers that hold one go on. Nothing
is assumed of the source, of the clock, of how a call ends or of whether
`ProcessDue` is called at all. The closing of the circuit is not needed.

**Deadlock** is checked in the runs `CircuitBreaker`, `LikeStats` and
`RoomRegistry`. The others are finite: a log or the messages have been consumed
and faults are used up, the clock is at its bound, the rounds are over, or
the one connection has ended.

## 4. Proofs

All theorems are for every value of the constants, under the assumptions named
in the modules.

* `PartitionConsumerProofs`: `TypeCorrect`, `NothingIsLost`,
  `ReadsAreAccounted`, `FirstRecordWins`, `CommitsAdvance`, `Refines`. `NoLoss` is
  not inductive: what is marked next is what has been read or just inserted, so
  the invariant adds that every record below a claim's cursor is durable, in
  its batch or in hand, that a batch at `reply` has its rows, and how far the
  positions of live, cancelled and evicted members may be from the committed one.
  `RowIsFirstRecord` needs that a batch which holds a record holds, or finds
  durable, every earlier one of the same message. The refinement maps the safe
  records to the durable offsets and every step to one of `DurableLog` or a
  stutter.
* `CircuitBreakerProofs`: `TypeCorrect`, `OneProbe`, `Refines`. The invariant
  bounds permits by the current generation and ties the probe flag to the one
  current half-open permit. Its lemma `CurrentCounts` shows that for current
  permits the second test of `complete`, on the state, follows from the first.
* `LikeStatsProofs`: `TypeCorrect`, `NoDoubleCount`, `SteadyRoomsLoseNothing`,
  `ShownNeverExceeds`. The invariant says what the goroutine carries at each
  control point, and that a steady room is ahead of it or served, so that what
  `Finish` throws away is never a steady room's. `NoDoubleCount` and
  `ShownNeverExceeds` bound Redis and the screen by the likes given and the copies
  carried out without an answer, for any number of copies: a copy adds the same
  to both sides, the answered one moves its delta from the goroutine to Redis,
  and a failed call puts back what the bound already holds.
* `RoomRegistryProofs`: `TypeCorrect`, `SlotsNeverLeak`, `MembershipFollowsPumps`,
  `NoSubscriptionIsLost`. The invariant adds where the client in the manager's
  hands may be and that a cancel function out of the map is only in the manager's
  hands. Counting is done on finite sets with one element more or less.
* `ConnectionProofs` extends `RateLimiter` and `SlowClient`, which share nothing;
  no theorem of one uses an assumption of the other.
  * Of `SlowClient`: `TypeCorrect`, `SlowClientIsClosed`, `NoPumpIsLeftBehind`.
    Both properties are inductive over the types: a worker at `closing` stays
    there until `done` is closed (`ClosingStays`), which is never undone
    (`OnceForAll`), and only one addition can take the counter to the threshold.
  * Of `RateLimiter`: `LimitTypeCorrect`, `LimitsAreExact`. The invariant compares
    `Level`, what a bucket would hold if it were refilled now, with the two
    perfect buckets: the level lies between them, up to the capacity, and a key
    without a bucket has perfect ones that are full. A swept bucket has been idle
    for at least `IdleTTL`, and the assumption `IdleTTL >= Burst + 2 * MaxDelay`
    makes that long enough for the perfect ones to have filled up (ten minutes
    against two seconds in `DefaultConfig`).
* `InsightPipelineProofs`: `TypeCorrect`, `OneHolder`, `InsightsAreComplete`,
  `PublishedExactlyOnce`. The invariant says that windows are shared out between channel
  and workers (`Pool`), that places are those of the calls (`SemExact`), that
  nothing is claimed, held or published before its deadline (`Ripe`), so that what
  came in time cannot grow behind a loaded window (`Coverage`), and that a window
  with an insight is completed, marked as failed after its Save, or in the hands
  of the worker about to complete it (`Publishing`).
* `RoomFanoutProofs`: `TypeCorrect`, `CopiesExplained`, `LossExplained`,
  `OrderKept`, for any finite set of clients and any buffer sizes and worker
  counts. Three invariants share `Provenance`: everything in a queue, a call, a
  job or before a client has been accepted, and handed on by the part before it.
  `Explained` (nothing is seen too often) adds that at most one copy of a message is on its way to
  Redis, and none once it has been degraded (`OneCopy`), and that for each client
  the copies it has seen and those queued or at a worker are no more than
  the arrivals its subscriptions have taken from their channels, and one for the
  local fallback (`Copies`). `Accounted` (nothing is missed without a reason) is the
  other direction: an accepted message is in hand, degraded or carried out
  (`Forwarded`), and an arrival or a fallback has a copy under way, seen or
  given up for a reason (`Delivered`). `Ordered` takes one hand-over at a time:
  between the sender and Redis nothing of a later message is ahead of
  something of an earlier one (`UpstreamOrder`), and no client has a later one
  while the earlier may still come (`DownstreamOrder`). It needs `Explained`, since
  a message met downstream must be one that was carried out, and only once.

* `HistoryStagesProofs`: `TypeCorrect`, `HistoryExplained`, `V8StoresFirst`,
  `V8RefinesDurableLog`, for any number of records, queue and batch sizes, retries
  and faults. `HistoryIsExplained` speaks of what is committed and what is stored,
  and none of its three parts is inductive. `NoOtherLoss` needs two arguments, one
  for each way of storing. V4 and the prototype count on a record before it is
  stored, so whatever they have taken must be stored, queued, in the batch or
  blamed on a cause of theirs (`Entrusted`), and the prototype's marked offset is
  its cursor while it has a session. V5 and V8 store first, so what is marked is
  settled (`StoredFirst`); that a flush may mark up to its last record needs that
  everything between the marked offset and the cursor is in the batch, whose last
  record is the one before the cursor (`Gap`), and that V8 may mark a skipped
  record needs that with an empty batch there is nothing in between.
  `NothingElseSkipped` is part of `StoredFirst`. `NoOtherDuplicate` needs that
  a record which no lost answer and no redelivery has to do with is stored, or
  once in the queue, or in the batch, or still to come, and never two of them
  (`Once`). `V8StoresFirst` is the claim that finding 2 shows V5 to break. By
  `V8RefinesDurableLog`, V8 (with one owner of the partition at a time) already
  implements the `DurableLog` of `PartitionConsumer`: settled records stay settled (`Lasts`), and only
  `AutoCommit` and the end of a session move the committed offset, to the marked
  one.

Only model-checked: the liveness properties (`CancelledClaimEnds`, `BacklogDrains`,
`Recovers`, `LikesReachRedis`, `BrokenIsReleased`, `EmptyRoomUnsubscribes`,
`StuckWriteEnds`, `ClosedClientIsGone`, `RoundsSettle`), which need fairness
and ENABLED. Every invariant of every passing run is a theorem.

## 5. Findings

1. **Likes of an emptied room are dropped** (`LikeStatsEmptiedRoom`).
   `broadcastStats` takes its rooms first, then drains the increments of all
   rooms (`src/v10/internal/ws/manager.go:592`), and flushes or restores only
   those of the rooms it took. Likes given just before the last client leaves,
   or by a first client the manager has not entered yet, are dropped with
   nothing wrong anywhere. The comment on `localLikes` (line 141) says it
   "stores unflushed like deltas". `SteadyRoomsKeepLikes` shows the loss is
   confined to such rooms.
2. **V5 acknowledges messages it has not stored** (`HistoryStagesV5`).
   `ConsumeClaim` of V5 marks a record it cannot parse at once
   (`src/v5/internal/consumer/handler.go:107`) while earlier records are in
   `pending`; a mark covers every offset below it. The comment at line 181 promises
   the database first and the acknowledgement after it. V8 flushes first, which
   `HistoryIsExplained` shows to be enough.

## 6. Not modelled

* **Kafka publisher** (`queue/kafka_publisher.go`, `publisher_health.go`): counters
  around the queue of the Sarama library. The question worth asking, what happens
  to messages when the producer is closed under readers that still enqueue
  (`SubmitDanmaku` accepts a message before it is persisted), is answered by
  the library and not by this code.
* **Online counts** (`infra/redis.go`): the count of a live server can be taken out
  between `SMEMBERS` and `SREM`, and that of a crashed one stays for its TTL; both
  are corrected by the next report, and nothing but a displayed number depends on
  them.
* **Web client** (`useDanmakuSocket.ts`): one thread, where every handler tests
  that its socket is the current one.
* **Connection managers of V1 to V8 and of the prototype**: earlier forms of the
  V10 manager, which is modelled; V9's is the same file up to import paths.
* Within modelled parts: servers without Redis, statistics packets on the queues
  of `RoomFanout`, the pool of snapshots, the end of a subscription because the
  Redis client is closed at shutdown, limits that are switched off, `Latest` and
  `List` of the V11 repository, a cancelled caller of the model guard.
* Message ids, authentication, queries, tools, prompting and parsing: sequential
  code without state to get wrong.
