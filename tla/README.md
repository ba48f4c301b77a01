# LogFoundry in TLA+

Models of LogFoundry's client SDK, ingest path, consumers, query path, dead-letter
replay and partition maintenance. TLC checks them on small instances; TLAPS
proves every safety property they check for every instance. Paths below are
relative to the repository.

## The system

```
 application ── LogFoundryHandler (sdk/logger.py)
                     │ POST /ingest, /ingest/batch
                     ▼
 API gateway ── RateLimiter (Redis) ── ingest routers ── KafkaLogProducer
                     │ logs.ingest
        ┌────────────┼──────────────────┐      one consumer group each
        ▼            ▼                  ▼
  LogWriter    MetricsConsumer    AlertConsumer ──► logs.alerts
        │            │                  │
   PostgreSQL      Redis              Redis        all: logs.dead-letter
   ▲        ▲        ▲                                   │
   │   GET /query   GET /metrics            scripts/replay_dlq.py ──► logs.ingest
   │   (Redis cache)
   │        ▲
   │   logfoundry tail (sdk/cli.py)
 scripts/manage_partitions.py
```

| Component | State | Operations | What is hard | What makes it correct |
|---|---|---|---|---|
| `BaseConsumer` | `_running`, Kafka position, committed offsets | start, signal, poll, retry, dead-letter, commit, cleanup | rebalances between any two awaits, crashes, signals during start | commits only pass settled messages; offsets never go back; a signal stops it |
| `LogWriterConsumer` | rows in `logs`, fallback counter, the batch in hand | parse, batch insert, single inserts, dead-letter, commit | partial failure at each call; one commit for several partitions | at-least-once; poison isolated; progress past poison |
| `MetricsConsumer` | four Redis counters | pipeline of four increments | the pipeline is no transaction; retries and redelivery repeat it | never undercounts; breakdowns never exceed the total |
| `AlertConsumer` | `logs.alerts`, `metrics:alerts` | match, produce, count per rule | failures between two rules | every due alert fires; retries repeat none |
| `LogFoundryHandler` | buffer, `_closed`, event flag, background thread | emit, flush, post, close, atexit | threads, daemon thread killed at exit | each event in exactly one place; no lost wakeup; nothing stranded |
| `RateLimiter` | sorted set per client, key expiry | check, get_remaining | clock read before the await | the limit over every sliding window |
| Ingest routers, `KafkaLogProducer` | `_background_tasks`, sends under way | ingest, ingest_batch, send, stop | tasks against shutdown, gather's first failure, one bad event in a batch | the queue drains; a batch's 202 is kept; a refusal leaves nothing behind; clean shutdown |
| Query endpoint and cache | Redis entries, TTL 30 s | read-through | fetch and store are two steps, and requests overlap | bounded staleness |
| `logfoundry tail` | `since`, `seen_ids` | poll and print | late events, bursts above the limit, cached answers, ids forgotten | no event twice, none passed over without a reason, the others in the end |
| `replay_dlq.py` | group offset, re-published events | read, skip, re-publish, commit | auto-commit, interrupted runs, messages that come back | one loss per bad run at most; a run ends; rows recovered |
| `manage_partitions.py` | partitions of `logs` | create, list, drop | overlapping and half-done runs, rows in the default partition, a new month in between | months ahead stay covered; only expired partitions go, and they do |
| Models, health probes, tracing, CLI formatting, benchmarks, deployment | none of interest | | | |

The components talk through Kafka topics (append-only, at-least-once), Redis
and PostgreSQL; inside a process everything is one asyncio loop, so a step of a
model is the code between two awaits. Only the SDK has threads. `PROJECT.json`
lists the hazards with the line where each bites.

## Modules

| Module | Models | Checked by | Proofs |
|---|---|---|---|
| `ConsumerGroup` | Kafka as the consumers use it, and the process life and dead-letter route of `BaseConsumer` | `LogWriter`, `RetryConsumer` extend it | |
| `DurableLog` | abstract: what a consumer of `logs.ingest` promises about commits | refined by `LogWriter` and `AlertConsumer` | with these |
| `LogWriter` | `LogWriterConsumer._consume_loop`, one action per call that can fail | `MCLogWriter` | `LogWriterProofs` |
| `RetryConsumer` | `BaseConsumer._consume_loop` and `_run_with_retry` | the next two extend it | `RetryConsumerProofs` |
| `MetricsConsumer` | `process()` of the metrics consumer, command by command | `MCMetricsConsumer` | `RetryConsumerProofs` |
| `AlertConsumer` | `process()` and `_fire_alert()` | `MCAlertConsumer` | `RetryConsumerProofs` |
| `SdkHandler` | the whole of `LogFoundryHandler` | itself | `SdkHandlerProofs` |
| `RateLimiter` | both Lua scripts, the clock reading, key expiry, for one key | itself | `RateLimiterProofs` |
| `IngestApi` | both ingest endpoints, fire-and-forget tasks, shutdown | `MCIngestApi` | `IngestApiProofs` |
| `QueryCache` | `GET /query`: cache, SELECT, setex, for any number of overlapping requests | `Tail` extends it | with `Tail` |
| `Tail` | `logfoundry tail --follow` on top of `QueryCache`, and other clients | `MCTail` | `TailProofs` |
| `ReplayDlq` | `replay_dlq.py`, and the circle through both topics that it closes | itself | `ReplayDlqProofs` |
| `Partitions` | `manage_partitions.py` and what PostgreSQL does with partitions | itself | `PartitionsProofs` |

### Correspondence

*Messages and events.* A message is `<<partition, offset>>`; its event is the
entry of `topic`. Consumers tell events apart only by `Kind`: `row` (everything
accepts it), `poison` (parses, but the sink rejects it), `garbage` (not an
event) and `binary` (not UTF-8). `position` is what `getmany()` advances,
`committed` what `commit()` stores; `commit()` has no arguments, so it stores
the positions of the partitions the process owns *then*. `Rebalance` is eager:
all partitions are reassigned and positions start again at the committed
offsets, while a process may still be working on messages it no longer owns.
A partition moves only by `Assign` (somebody must take it) or, with the fault
`rebalance`, at any time.

*Process life.* `pc[w] = "starting"` is `start()` with the signal handlers
installed and the Kafka clients not up; `Started` sets `_running`, whatever a
signal did before. `StopLoop` happens only where the `while` tests `_running`.

*Faults.* `Faults` says what the environment may do in a run: `crash`,
`signal`, `rebalance`, `commit` (commit raises), `deadletter` (the send
raises), `statement` (a statement raises; a transaction may have committed all
the same), `pool` (the fallback's `acquire()` or release raises), `redis`,
`alert`.

*LogWriter.* `batch[w]`, `pending[w]` and `failed[w]` are `messages` not yet
reached, `valid_messages` and `failed_messages`. The places `batch`, `acquire`,
`single`, `release`, `deadletter`, `commit` follow lines 199-249 of
`log_writer.py`; `LoopError` is the outer `except`. `abandoned` is a history
variable: what `LoopError` gave up.

*Retry loop.* `LoopNext` is everything around `process()`; the two consumers add
what `process()` does and how it ends, `Processed` or `ProcessRaised`. `calm` is
a history variable: no crash or rebalance has come while a process was working
on a batch, no commit has raised, and no pipeline has broken after a first
command. Any of these lets a message be worked on twice.

*Metrics.* `sent[w]` is how many commands of the pipeline Redis has executed
when the connection breaks or the process dies.

*Alerts.* A message is settled for `DurableLog` when it was read and each of its
rules was tried (`Tried`), or when it was routed.

*SDK.* A critical section under `_lock` is one action, `_closed` is read and
written outside it, and the event flag's wait and clear are separate.
`emitting` is the lock of `logging.Handler.handle()`, which in synchronous mode
is held during the post. Python's `logging.shutdown` calls `flush()` and
`close()` once more after the atexit handler; by then the buffer is empty, so
this is not modelled.

*Rate limiter.* `ReadClock` and `Script` are the two halves of `check()` around
the await. `maxDelay` is how late scripts may arrive in a behaviour; Init picks
it, so one run covers scripts that run at once and scripts that overtake.

*Ingest.* A request is answered at `Answer`; `sends` holds every `send()` not
finished, `tasks` is `_background_tasks`. `SendFails` may leave the event in
the topic, as a producer error does. FastAPI solves the rate-limit dependency
before it validates the body, so `RateLimit` is first and an invalid body (one
bad event refuses a whole batch) is answered 422 there.

*Query and tail.* A request is at `fetch` between its cache miss and its SELECT,
at `store` between that and its setex. Of the parameters only `since` is told
apart. `Answers(s)` are the sets of rows the SELECT may return: the newest
`Limit` rows from `s` on, with the order of equal timestamps open. An entry
carries its remaining lifetime; `quiet` and `delay` are ages, capped where more
is not told apart, so time needs no counter. The command's requests are those of
the client `Me`; `Others` are requests with a `since` in `Asked`. `seen` is
`seen_ids` in insertion order, `Show` is one round of the loop. `late` and
`crowded` are history variables, the two reasons for which a row may never be
printed.

*Replay.* `dlq` holds the dead letters from the group's committed offset on,
`position` how many of them the running consumer has handed out; a commit, by
the script, in the background or in `stop()`, slides the window. The writer is
taken as `LogWriter` shows it to be: it stores a message or dead-letters it, and
may do the latter twice. `skipped` is what the script has logged and given up.

*Partitions.* Months are numbers. Each statement of the script is a transaction,
`started[j]` is the date a run has read once, `expired[j]` what it has decided to
drop. Rows reach `logs_default` with whatever month the client's timestamp says.

## Runs

| Run | Question | Instance |
|---|---|---|
| `LogWriterSafety` | Can a commit pass an unsettled message, or go back? Does the loop implement `DurableLog`? Does the invariant of the proofs hold? | 1 partition of 2, 2 processes, all faults but signals and failing commits |
| `LogWriterService` | At-least-once, isolation of poison, drained stop, progress, shutdown | 2 partitions of 2, 1 process, crash, signal, rebalance; fair |
| `MetricsCounting` | What do the counters say of the committed events? Does every batch end? | 1 partition of 2, 2 processes, crash, rebalance, signal, redis, commit |
| `AlertDelivery` | Does `BaseConsumer`'s loop implement `DurableLog`? Is every due alert tried, counted, and fired once? | 1 partition of 2, 2 processes, 2 rules, an event for both and one for none, all faults but signals |
| `SdkDelivery` | Where can an accepted event be? Does it leave the process? | 2 callers, flusher, main, 4 events, both modes; fair |
| `RateLimiterWindow` | Does the limit hold over every window? | 4 requests, limit 2, window 3, clock to 6, delay 0 or 1 |
| `IngestBackpressure` | Does the queue drain, is a 202 kept, is a refusal whole? | 2 single requests, a batch of 2, an invalid batch, bound 1, failures, kill; fair |
| `PartitionCare` | Do covered months stay covered, and only expired partitions go? | 2 overlapping runs, 2 months ahead, 1 kept, a calendar of 4; fair |
| `DlqReplay` | What can replaying lose? Does a run end, does a row get in? | a row, a rejected and an invalid event, limit 2, 3 dead letters, 2 interruptions; fair |
| `LogReading` | How stale is an answer? What does tail miss or repeat? | 4 rows on 2 timestamps, pages of 2, TTL 2, delay 1, 2 clients, 3 ids remembered; fair |
| `LogWriterPoolLoss` | *violated*: at-least-once during a database outage | fault `pool` |
| `SdkOversize` | *violated*: losses only from a failing API or a full buffer | API up |

### Bounds

`MaxLen` (length of a partition), `MaxRecords` (records of a poll), `MaxRetries`
(2 instead of 3: a retry and a last attempt), `FallbackCap` and `MaxCount` (where
counters saturate), `MaxTotal` (where no new pipeline starts), `MaxFailures`
(failing alert sends and increments), `MaxTime`, `MaxDelay`. Two messages in a partition are enough for a good row
next to a poison pill in one batch, for a poll of a prefix, and for a commit
between two polls; two processes for one that works on messages another has
taken over; two partitions in one poll for a commit that covers more than was
inserted (this run has one process: its rebalances reset the positions under
its feet, and the two-process interleavings are those of `LogWriterSafety`).
Four SDK events fill a buffer of three beyond a batch of two and an API limit
of two. `LastNow` and `LastMonth` end the calendar of `Partitions`: four months
are enough for a run to outlast one, for a partition of the schema to expire and
for another run to have created it again or dropped it meanwhile. `MaxDlq` and
`MaxInterruptions` bound the replay: three dead letters are one more than the
limit of a run, so a message that came back can be left for the next run. In
`LogReading` a page holds both rows of a timestamp and no more, so a third row
crowds one out, and ids are forgotten from the fourth row on; an entry outlives a
tick and its request another, so a stale answer can be stored over a fresh one.
Symmetry is used over processes only, in runs without liveness.
Deadlock is not checked where the modelled system may stop: the SDK's process
ends, the gateway shuts down, every request has been decided, tail was interrupted, the
bounded dead letters circulate no further, and in the violated log-writer runs a consumer that has handled the last of `MaxLen`
messages, with no fault left to happen, polls an empty topic for ever.

### Fairness

`LogWriter!Fairness`: each process's next step comes, because every await
returns or raises (PostgreSQL commands time out after 30 s); the coordinator
assigns orphaned partitions; somebody starts processes that are down. The last
is an assumption on operations: `docker-compose.yml` has no restart policy for
the consumers. `Progress` also assumes that crashes, signals and rebalances end
at some time (`Quiet`). The formula lets statements and commits go on failing, but
the run that checks it, `LogWriterService`, has no failing ones: a run with them
takes too long, and `PoisonIsolated` excludes them. What is shown of a failing
statement is safety (`LogWriterSafety`) and that the batch still ends
(`BatchesEnd`, proved for all faults), not that the loop goes on for ever.
`ShutdownTerminates` does not need that.
`SdkHandler!Fairness`: the OS schedules threads, the wait ends after
`flush_interval`, a request after 5 s. Nobody has to log or close.
`IngestApi!FairSpec`: sends end (aiokafka times out) and done callbacks run.
`Partitions!FairSpec`: cron starts the script again and again, and statements
return or raise. `ReplayDlq!FairSpec`: somebody runs the replayer again and
again, its awaits return, and a row that comes to the writer again and again is
inserted at some time (strong fairness: a statement that fails for ever is a
database that is down for ever). `Tail!FairSpec`: time passes, requests are
served, the loop polls. The liveness properties of these three are claimed from
the time on when failures end (`Reliable`), and `ExpiredDropped` only while
`logs_default` has no row of a month to create. `MaxDelay`, the time from a
request's SELECT to its setex, is assumed to be bounded; the code sets no timeout
for Redis. A PostgreSQL command times out after 30 s.

### The environment

`docker-compose.yml` sets more than the code checks, and some properties rest on
what it does not guarantee:

* *Redis keeps its keys.* It runs with `allkeys-lru` in 128 MB and no snapshots
  (line 86). An evicted counter, or a restart, breaks `NeverUndercounted`,
  `TotalsNested` and `AlertsCounted`; an evicted window gives a client a new quota
  (`BoundedBurst`, `ExactDecisions`). A cached answer evicted early costs a read
  of the table and breaks nothing.
* *A pipeline stops at a point or not at all.* `MetricsConsumer` lets any prefix of
  the four commands run. A command that Redis itself refuses (a key of another
  type, no memory) while later ones run is not modelled; it would break
  `TotalsNested`.
* *Kafka keeps a message until it is read.* Retention is 24 h (line 39). A
  consumer or a replayer that is down for longer finds a gap, for which
  `Progress`, `AtLeastOnce` and `RowsRecovered` make no allowance.
* *The dead letters are one queue.* Topics have 3 partitions by default (line 33).
  The consumers are modelled with several; `ReplayDlq` takes `logs.dead-letter` as
  one FIFO partition. `RowsRecovered` relies on it: with three, the rows of one are
  reached only if polls take turns between partitions, as aiokafka's do in general.
* *A client repeats under the same id only if it chose the id.* The gateway makes a
  new one for an event without, so a batch repeated after a 500 is absorbed by the
  primary key only if the client supplied ids. No property speaks of these repeats.

## What the checks show

The properties that hold are in the runs marked *pass*, in the words of the
comments above their definitions. Two runs show the code departing from its own
words:

* **Outage in the fallback** (`LogWriterPoolLoss`): the second `acquire()`,
  `log_writer.py:219`, is outside the inner `try`. If the pool raises there the
  batch is skipped and the next commit passes it.
* **Oversized batch** (`SdkOversize`): `flush()` posts the whole buffer, up to
  10000 events; the API takes 1000.

Other statements of the documentation hold only under a condition, which the
properties or the models spell out; they have no run of their own.

* *Consumers.* A signal while `start()` awaits Kafka is erased by `_running = True`
  (`base_consumer.py:138`, against the docstring at 150): `ShutdownTerminates`
  speaks of a loop that finds `_running` unset. A value that is not UTF-8 cannot
  enter the envelope and is dropped (`base_consumer.py:235`, against
  `README.md:46`). A commit that raises on the last batch before a stop leaves it
  uncommitted: `DrainedBeforeStop` needs commits that succeed.
* *Counters.* `query.py:231` calls `metrics:total` the "number of log events
  ingested": `TotalIsEvents` needs `calm`, as broken pipelines, failing commits,
  crashes and rebalances count events again. `query.py:279` calls the fallback counter a count
  of poison pills, but any batch that fails increments it (`log_writer.py:204`).
* *SDK.* A record that `json.dumps` does not take raises out of `emit()`, `flush()`
  and `close()` into the application (`logger.py:196`, against line 28) and takes
  its batch along. The atexit handler (`logger.py:248`) sends what is buffered;
  what the daemon thread has swapped out is in `killed` if the process ends during
  its post.
* *Rate limiter.* `rate_limiter.py:6`, "no burst at window boundary":
  `BoundedBurst` gives the full window only when `maxDelay = 0`. A script that
  overtakes an older one prunes entries the older one should have counted. A
  request with an invalid body uses up quota.
* *Backpressure.* `README.md:40`, "the API will shed load (503)": batch sends are
  not in `_background_tasks`, so the bound is on single requests only. The
  docstring of `ingest_batch` calls the sends fire-and-forget; the code awaits
  them, and `BatchAcknowledged` relies on that.
* *Partitions.* One row of a coming month in `logs_default` makes PostgreSQL
  refuse that month's partition, and as the exception ends the run before the
  retention step, nothing is dropped either, in this and every later run
  (`manage_partitions.py:58`, against its docstring). Rows of expired months that
  arrive late stay in `logs_default` for ever.
* *Replay.* The comment at `replay_dlq.py:78` has the offset committed after the
  re-publish; the consumer also commits in the background and in `stop()`, so a
  run that fails in between loses the message it had in hand (`LossBounded` counts
  these). The replayer accepts events without id or timestamp, since `LogEvent`
  fills them in, but sends the original value, which the writer rejects again:
  such events circulate for ever, and only the limit ends a run (`RunEnds`).
* *Tail.* A row lies behind the position once a row with a later timestamp was
  printed, and a full page hides older rows of the same burst: `NothingSkipped`
  names both. A read that times out (`cli.py`, `_api_request`) ends the command,
  and the answers it polls are up to 30 s old.

## What is proved

| Module | Theorem | Property of a run | Assumption |
|---|---|---|---|
| `LogWriterProofs` | `InductiveInvariant`, `TypeCorrect`, `EveryCommitAccountedFor` | `IInv`, `AccountedFor` | |
| | `CommittedOffsetsGrow` | `CommitNeverRetreats` | |
| | `CommitAfterInsert` | `AtLeastOnce` | no fault `pool` or `deadletter`, no binary value |
| | `Refinement` | `ImplementsDurableLog` | |
| | `PoisonPillIsolated` | `PoisonIsolated` | no fault `statement` |
| | `ShutdownDrains` | `DrainedBeforeStop` | no fault `commit` or `pool` |
| | `BatchesEnd`, `DurableLogSkipsNothing` | | |
| `RetryConsumerProofs` | `MetricsInvariant`, `MetricsTypeCorrect`, `BreakdownComplete`, `BreakdownsNested`, `TotalCountsEvents`, `MetricsBatchesEnd` | `NeverUndercounted`, `TotalsNested`, `TotalIsEvents`, `MetricsBatchEnds` | |
| | `AlertInvariant`, `AlertTypeCorrect`, `EveryAlertTried`, `AlertsFiredOnce`, `AlertBatchesEnd` | `FiredOnce` | |
| | `AlertsKeptCount` | `AlertsCounted` | the counter does not saturate (`MaxCount`) |
| | `AlertRefinement` | `ImplementsDurableLog` | |
| `SdkHandlerProofs` | `TypeCorrect`, `NeverTwiceNeverGone`, `WakeupKept`, `NothingLeftBehind` | `TypeOK`, `EachEventOnce`, `NoLostWakeup`, `NothingStranded` | |
| `RateLimiterProofs` | `TypeCorrect`, `NoBurst`, `DecisionsExact` | `TypeOK`, `BoundedBurst`, `ExactDecisions` | |
| `IngestApiProofs` | `TypeCorrect`, `RefusedWhole`, `PromiseKept`, `CleanShutdown` | `RefusalIsClean`, `BatchAcknowledged`, `ShutdownFlushes` | |
| `PartitionsProofs` | `TypeCorrect`, `RunwayKept`, `YoungKept` | `TypeOK`, `Runway`, `RetentionKeeps` | |
| `ReplayDlqProofs` | `LossesBounded` | `LossBounded` | |
| `TailProofs` | `FreshCache`, `NothingPassedOver`, `TypeCorrect`, `NoDuplicates` | `Fresh`, `NothingSkipped`, `TypeOK`, `PrintedOnce` | |

The theorems hold for any values of the constants that the named `ASSUME`s allow
(natural bounds, finite sets of processes, partitions, rules and rows). TLC
evaluates these assumptions in every run. The faults a theorem excludes are those
under which the code does not keep the promise: a single insert that fails for
any reason sends its row to the dead letters, a commit that raises before a stop
is not repeated, and the section above tells the others. Theorems with no
property of a run beside them state types, the ends of batches, and
`AlertDelivered`, which `ImplementsDurableLog` implies. Each module proves `Spec => []IInv` for an
inductive invariant, with one lemma per action, and the properties follow from it
or, for action properties, from it and a step. Why the properties are not
inductive by themselves:

* *LogWriter.* A commit stores the owner's positions, so one has to know that
  everything between a partition's committed offset and its position is settled or
  in the owner's hands (`NothingForgotten`), that the hands are empty when the
  process reaches its commit (`HandsEmpty`), that offsets are ordered
  (`OffsetsOrdered`) and that only produced messages are held (`OnlyProduced`: a
  settled message must not be one that is produced later). `NothingForgotten`
  survives a rebalance because positions go back to the committed offsets, which
  makes the interval empty; it survives a zombie's work because it only speaks of
  the present owner. `CommitAfterInsert` adds that nothing is dropped or abandoned.
  `PoisonPillIsolated` adds `NoRowGivenUp`: what is in the list of failed messages,
  or was sent to the dead letters from it, cannot be stored. `ShutdownDrains` adds
  `Rested`: a process that is not inside a batch owns only partitions whose
  position is the committed offset.
* *The retry loop.* `Passed` is what the group will not look at again unless a
  rebalance takes it back: messages behind the committed offset and those the
  partition's owner has polled and is done with. One lemma per action shows
  `Keeps(V, G)`: nothing is taken back, only what is routed or in `G` is newly
  passed, and the processes `V` keep their message; `G` is empty but when
  `process()` returns. Both consumers are proved from that lemma, and neither looks
  at Kafka or the loop again. `CalmHands` gives `calm` its use: while it holds, no
  message is taken up twice.
* *MetricsConsumer.* The counters alone are not inductive, as a commit comes after
  the increments and pipelines are half done in between: `PassedCounted` counts
  passed messages and finished pipelines, `BreakdownsBehind` adds to each
  breakdown the pipelines that stopped just short of it, `BegunOnce` bounds the
  total by the messages some command was sent for. What a counter adds up to is
  the size of a set with one unit per increment (`Units`), so that sums need no
  recursion.
* *AlertConsumer.* `RulesTried` says which rules a half-done message has behind
  it, `PassedTried` that a passed one has all, `DueCounted` adds to the count of
  due alerts those counted for a message still in hand, and `FiredBehind` says
  that while `calm` holds an alert belongs to a rule that is behind.
  `AlertRefinement` adds `ReadOrRouted`: what was passed and not routed could be
  read.
* *Batches end.* `MetricsBatchEnds`, `AlertBatchEnds` and `BatchEnds` (of the log
  writer) are the part of termination that does not need fairness: inside a batch,
  whatever fails, a step of a living process makes a lexicographic measure smaller
  (messages left, place in the work on one, calls, rows or commands left), so that
  no failure sends it round a loop. With fairness that is `ShutdownTerminates`.
* *SdkHandler.* `BatchWhileSending`: a batch is in a thread's hands only during its
  post, so a swap overwrites none. `ClosedInOrder`: the thread that closes has set
  the flag before it empties the buffer, which is why a late `emit()` finds it set.
* *RateLimiter.* `Remembered`: what counts for a window is still in the sorted set,
  which rests on the key outliving its newest entry (`KeyOutlivesWindow`) and on
  readings being late by the delay at most (`ReadingsInTime`).
* *IngestApi.* `NothingBegun` (no event of a request is sent before it was let
  pass) and `OnItsWay` (an accepted one is sent, failed or under way).
* *Partitions.* `CreatedSoFar` (a run has created every month up to its step that
  has not passed since, and no other run drops such a month) and `ListedExpired`
  (what is listed for dropping has expired by the present date, not only by the one
  the run has read).
* *ReplayDlq.* The count of what is lost is not inductive: a commit loses what an
  earlier interruption left in hand. `RiskBounded` bounds the messages that some
  commit, however early, could still lose.
* *Tail.* `AnswersExplained`: of every answer, cached or still under way, a row it
  lacks was crowded out, came late, or is as new as any row in it. This holds when
  the table is read and, whatever arrives later, while the answer lives; showing it
  turns it into `NothingSkipped`. `AgeBounded`: an answer the table would not give
  now is older than the last insert. For `PrintedOnce`, `AnswersFit` (an answer
  has at most `Limit` rows, none older than was asked for) and `TiesRemembered`
  (the printed rows of the timestamp `since` are in `seen`); pruning keeps these
  because they stand among the last `Ties + Limit - 1` ids (`TiesLast`), and
  `TailAssumption` lets that many be kept. With the default limit of 50 and 5000
  ids kept, that fails only if 4952 events share a timestamp.

Only model-checked: liveness (`Progress`, `ShutdownTerminates`,
`EveryEventResolved`, `QueueDrains`, `ExpiredDropped`, `RunEnds`, `RowsRecovered`,
`EventuallyShown`), which is out of the prover's reach. Each inductive invariant
was also checked by TLC before it was proved; `IInv` of the log writer stays in a
run, as it is the one the others are shaped on.

## What is not modelled

The content of messages, rules and rows beyond what the programs branch on;
Kafka's replication and transactions (one broker, `acks=all`); the start-up of
the gateway, its probes; `GET /metrics`, which reads
counters one await at a time and formats them; validation by Pydantic (a pure
function: its result is an event's kind, or membership in `Invalid`); tracing,
logging and formatting; `logfoundry stats` and `tail` without `--follow`;
benchmarks and deployment files. `LogWriterConsumer.process()` and
`_insert_single()` are never called by the loop it overrides. Rows that retention
deletes while tail reads them, and the repeats that a replayed event causes in
the metrics and the alerts, are left out of `Tail` and `ReplayDlq`.

## Plan

Done: every component with a protocol of its own is modelled, and every safety
property that a run checks is proved. Left, most important first:

1. The part of `RunEnds`, `QueueDrains` and `EveryEventResolved` that needs no
   fairness, as measures that no step increases, in the way of `BatchEnds`.
2. A composition of a client that repeats a batch answered 500 with the log
   writer: Kafka may hold the same event twice, and the primary key absorbs it only
   if the client supplied the id.
3. `GET /metrics` against the running counters, should it ever promise a
   consistent view.
