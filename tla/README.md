# Verification of the flashQ job engine

flashQ is a job queue server written in Rust. Its core, `src/engine/src/queue/`, is
one object, `QueueManager`, that many tokio tasks call at the same time: one task per
client connection and one background task. This directory holds a TLA+ model of that core, of its
way to the database, of the services beside it (cron, webhooks, keys and values, metrics, streams of
events, backups) and of the ways by which jobs and answers reach clients; the instances TLC checks; and
theorems that TLAPS proves for every number of jobs, clients, queues and threads.

1. [The system](#1-the-system): components, state, interaction, what is hard
2. [Modules](#2-modules): what models what
3. [Checks](#3-checks): runs, bounds, fairness
4. [What the checks found](#4-what-the-checks-found)
5. [Proofs](#5-proofs)
6. [What is not modelled](#6-what-is-not-modelled)
7. [What could come next](#7-what-could-come-next)

Paths below are relative to `src/engine/src/queue/` unless they start with `src/` or `http/`; `http/` is `src/engine/src/http/`.

## 1. The system

### Components

| Component | State it keeps | Operations | Correct when |
|---|---|---|---|
| Shards (`types/shard.rs`, `manager.rs`) | per shard one `RwLock<Shard>`: priority queue, dead letter queue, `waiting_deps`, `unique_keys`, `active_groups`, `queue_state` per queue | release helpers, state lookup | a job is in one of them at most; resources belong to live jobs |
| Processing table (`manager.rs`) | `processing`, sharded by job id, each part behind its own lock | insert, remove, get, retain | holds exactly the jobs workers have |
| Completed set and index (`manager.rs`) | `completed_jobs`, `job_index` (lock-free map id -> location) | contains, insert, `index_job`, `unindex_job` | the index names the place of every job at rest |
| push (`push.rs`) | | `push`, `push_batch` | a key is claimed once; a job with unmet dependencies waits; a duplicate leaves no trace |
| pull (`pull.rs`) | | `pull`, `pull_batch`, `pull_batch_nowait` | highest priority due job first; one job per group; limits respected |
| ack and fail (`ack.rs`) | | `ack`, `ack_batch`, `fail`, `get_result` | ended once; slot, group and key come free once; attempts counted once |
| Job operations (`job_ops.rs`) | | cancel, `move_to_delayed`, promote, discard, `change_priority`, update, progress | act on the job where it is, or report not found |
| Dead letters and browsing (`dlq.rs`, `browser.rs`) | | `retry_dlq`, `purge_dlq`, clean, drain, obliterate, listings | nothing is lost or duplicated against running workers |
| Queue control (`queue_control.rs`, `rate_limit.rs`, `types/limiters.rs`) | paused flag, `ConcurrencyLimiter`, `RateLimiter` | pause, resume, set and clear limits | at most `limit` jobs of the queue run |
| Background task (`background/*.rs`, `monitoring.rs`) | stall counts, heartbeats | timeouts, stalls, dependency scan, cleanup, cron | acts only on jobs that still are where the scan saw them |
| Priority queue (`types/indexed_priority_queue.rs`) | heap, index map, generations | push, pop, remove, update | pops in order; removed ids are never popped |
| Persistence (`sqlite/*`, `persistence.rs`) | the async writer's channel and batches, SQLite tables | persist_*, flush, recover | an acknowledged job does not run again after a restart |
| Waiting and queries (`query.rs`) | `job_waiters` | `wait_for_job`, `get_state`, `get_job` | a completion wakes every waiter |
| Flows (`flows.rs`) | parent and child maps | `push_flow`, child completion | a parent runs after its last child |
| Cron (`cron.rs`, `background/cron.rs`) | cron table, next run times | add (interval or expression), delete, tick | one run per due time, at most `limit` |
| Key-value store (`kv.rs`) | map with expiry | get, set, incr | increments are not lost |
| Webhooks (`webhooks.rs`, `types/misc.rs`) | subscriptions, circuit breakers | fire, record success or failure | an open circuit lets no call through |
| Metrics (`admin.rs`, `types/metrics.rs`, `settings.rs`) | gauges, totals, history of points | record, collect, reset | gauges say what the containers hold; a point reports what was counted |
| Events and WebSockets (`http/websocket.rs`, `admin.rs`) | connection counter, broadcast channel | connect, ping, tell, let go | every loop is counted once; a silent peer is let go |
| Backup and restore (`sqlite/backup.rs`, `http/settings/s3.rs`, `http/settings/sqlite.rs`, `sqlite/migration.rs`) | bucket, files beside the database, table of migrations | back up, retain, restore, upload, migrate | a recent backup exists; no crash in a restore loses the data; a server starts |
| TCP server and Rust client (`src/engine/src/server/connection.rs`, `src/sdk/rust/src/connection.rs`, `pool.rs`) | sessions, pending requests, connected flags | send, receive, time out, reconnect | every call returns; an answer says what happened to its command |
| gRPC streams and SDK worker (`src/engine/src/grpc.rs`, `src/sdk/rust/src/worker.rs`) | puller, channel, processors | pull, run, answer, stop | a job taken is held by somebody or taken back |
| Server management (`settings.rs`) | runtime settings | reset, reset_metrics, `clear_all_queues`, `clear_all_dlq`, `clear_completed_jobs`, `run_cleanup`, save settings | what is cleared in one place is not left in another |
| Logs, registered workers | ring buffers, maps | record, read | |
| HTTP handlers, other clients, dashboard, MCP server | | decode, call, encode | one request is one call |

### How the components interact

There is no message passing inside the engine: components share memory, and each
container has its own lock.

* Every shard is one lock around all queues that hash to it. `processing`,
  `completed_jobs` and `job_results` have locks of their own, `job_index` and the
  custom-id map have none. **No operation holds two of the container locks while it
  moves a job from one container to another**: it removes the job under the first
  lock, owns it as a local variable, and inserts it under the second.
* A job's resources are its unique key (`unique_keys` of the shard), its group
  (`active_groups`) and its concurrency slot (`queue_state.concurrency`). push claims
  the key, pull the group and the slot; ack, fail, cancel and the background scans
  give some or all of them back, each in its own code.
* The background task (`background/mod.rs`, one `tokio::select!` loop) collects ids
  under a read lock, drops the lock and then handles them one by one.
* Writes to SQLite are handed to the queue of an async writer task, or are made
  directly: by operations that never use the writer (move_to_delayed, discard) and by every
  operation that finds the queue full. The write comes after the lock scope that changed
  the job. The in-memory containers are rebuilt from the tables at start.

### What is hard here

Every operation is a chain of lock scopes, and between any two of them every other
operation may run. A test sees one interleaving. The hazards are listed with their
lines in `PROJECT.json`; the main ones are

* two operations racing for the same job (ack against timeout, cancel against pull,
  discard against retry, obliterate against everything);
* state read in one scope and used in a later one (dependencies looked up before the
  shard is locked; the index entry by which cancel decides where to look; ids
  collected by a scan; the queue name `ack_batch` remembers per shard);
* paths out of `processing` that give back only some of the job's resources;
* a write to the index that arrives after the job has moved on;
* a database write that fails after the job has become visible to workers, that is
  overtaken by a later one, or that is still in memory when the process ends;
* counters that saturate or wrap around, limits replaced while jobs run, gauges counted after the move;
* locks taken inside each other, in an order that some operation reverses;
* answers that come late: of a webhook to a breaker that has changed since, of the server to a request that was
  given up, of a worker that has been stopped, of a wait that is told of an end just before it listens; and answers
  that never come, or to somebody who has left: a pull that is lost with its job, a call whose caller dropped it;
* a wall clock that is set back; a write that fails and is only logged;
* two writes of one thing in several steps: the table of cron jobs and its row, a queue's settings and their
  row, a database and the file that replaces it;
* something that must happen in the end: a job released when its dependencies are
  complete, a group that comes free.

## 2. Modules

| Module | What it is |
|---|---|
| `JobLifecycle` | The state machine: containers, index, resources, and every lock scope of push, push_batch, pull, pull_batch, ack, ack_batch, fail, cancel, move_to_delayed, promote, discard, retry_dlq, purge_dlq, clean, drain, obliterate, pause, resume, set and clear concurrency, heartbeat, and of the timeout, stall, dependency and cleanup scans |
| `JobProperties` | Type invariant, safety and liveness properties, and the refinement mapping to `JobStore` |
| `JobStore` | The abstract specification: one status per job, and which statuses may follow which |
| `MCJobs` | Values for the constants of `JobLifecycle`; one `.cfg` per run |
| `Persistence` | The second state machine: the writes that follow the operations, the async writer with its queue and batches, the synchronous writes beside it, the tables, crash, graceful stop and recovery. The operations themselves are one step each |
| `PersistenceProperties` | Its type invariant and properties |
| `MCPersistence` | Values for its constants |
| `KvStore` `Glob` | Values with expiry and increments; the patterns of `kv_keys` |
| `PriorityQueue` | The indexed heap with generations and lazy removal, comparison and sifts as they are |
| `RateLimit` | The token bucket under a clock that may be set back |
| `Webhooks` | Webhooks, circuit breakers, answers that arrive at any time |
| `Locks` | Which lock is taken inside which, by every operation of the engine; writers go before later readers |
| `Cron` | The table, its rows, the background run, restart |
| `PushIds` | Custom ids through push and push_batch |
| `QueueConfig` | Settings of a queue and their row |
| `Metrics` | Gauges, totals, history, the two resets |
| `Sockets` | The loops of the WebSockets |
| `Backups` `Restore` | Backup with retention; replacing the database file, migrations |
| `Completion` | Results, `wait_for_job`, flows, against every way a job ends |
| `Transport` | The Rust client's pool of connections and the server's sessions |
| `Delivery` | gRPC streams and SDK workers between pull and ack |
| `MCServices` `MCDeliveries` | Their instances. The parts of each share no state, so a variable `part` says which one runs |
| `JobLifecycleProofs` | `TypeCorrect`, `SingleOwnership`, and the shape of what a thread holds |
| `JobRecordProofs` | `AttemptsBounded`, `DependenciesRespected`, `ErasedJobsAreGone`, `IndexIsRight` |
| `JobExclusionProofs` | `GroupsExclusive`, `ConcurrencyBounded`, `UniqueKeysExclusive` |
| `JobStoreProofs` | `EngineImplementsStore`: the refinement of `JobStore` |
| `ServicesProofs` | About `RateLimit`, `Webhooks`, `Locks`, `Sockets`, `Metrics` and `PriorityQueue` |
| `PersistenceProofs` | `PersistenceTypeCorrect`, `LiveJobsSurvive`, `RowsAlwaysMatch` |
| `TablesProofs` | About `QueueConfig`, `PushIds`, `KvStore`, `Glob`, `Cron`, `Backups`, `Restore` |
| `DeliveriesProofs` | About `Completion`, `Delivery` and `Transport` |

### State of `JobLifecycle`

| Variable | Code |
|---|---|
| `queued`, `waitingDeps`, `dlq` | `Shard::queues`, `Shard::waiting_deps`, `Shard::dlq` |
| `processing` | `QueueManager::processing_shards` |
| `completed` | `QueueManager::completed_jobs` |
| `index` | `QueueManager::job_index`, `"none"` for a missing entry |
| `uniqueKeys`, `activeGroups` | `Shard::unique_keys`, `Shard::active_groups` |
| `paused`, `limit`, `current` | `QueueState::paused`, `ConcurrencyLimiter::limit` and `current`; `NoLimit` when the queue has no limiter |
| `attempts`, `stalls` | `Job::attempts`, `stalled_count` |
| `delayed`, `expired` | jobs whose `run_at` has not come, whose TTL has run out |
| `created` | ids the id counter has handed out |
| `pc`, `hand`, `todo`, `arg` | local variables of a call in progress: the next lock scope, the jobs the call owns, the ids it still has to visit, the id or queue it is about |

`hand` is what makes the model worth checking: a job that a thread has removed from one
container and not yet put in the next is in no container at all, and nobody else can
see it.

### Actions of `JobLifecycle`

One action is one lock scope (or one lock-free access of the index). `Ack`, for
example, is `processing_remove` of `ack.rs`, `AckRelease` the shard scope that releases
the resources, `AckRecord` the insertion in `completed_jobs`, and `AckIndex` the final
`index_job`. `PROJECT.json` maps every definition to its lines.

`Begin` starts a call on an idle client thread, `Advance` continues one, `Tick` and
`AdvanceTick` do the same for the background task, and `Clock` lets a delayed job
become due and a TTL run out. A call whose precondition fails and that changes nothing
(an ack of a job that is not in `processing`) is left out: it is a stuttering step.

Where the code does more in one scope than the properties tell apart, the model keeps
what they do:

* Priorities are numbers; run times are abstracted to *due* and *not due*. Among equal
  priorities a due job is popped before one that is not due; which of several due
  jobs of one priority comes first is left open. `Reachable`, `PoppedJobs` and
  `DroppedJobs` say what a search may return: it pops in order, skips jobs of
  busy groups, drops expired jobs it meets, and stops at the first job that is not due.
* All queues are in one shard. Two queues of different shards share less, so this is
  the case with the most interaction; `ack_batch` in particular treats the queues of
  one shard together.
* Whether a job times out, is stalled, or is old enough for a cleanup is a
  nondeterministic choice, as the model has no clock: every subset of the jobs that
  qualify may be collected.
* Definitions named as mutants in a comment are not part of the behaviour. Each is what
  a plausible slip in the definition below it would be, and every property is shown to
  fail when one of them is used in its place.

### Persistence

`JobLifecycle` asks what happens between the lock scopes of an operation and knows the
database only as an answer, good or bad. `Persistence` asks what happens between an
operation and its write, and takes the operation itself as one step: the two abstract
from opposite sides of the same calls, and a job has in `Persistence` only what the tables
keep of it and recovery reads back.

| Variable | Code |
|---|---|
| `queued`, `active`, `waiting`, `dlq`, `completed` | the containers of the engine, a job being its attempts, its max_attempts and whether it is removed at its end |
| `nextId` | `ID_COUNTER` (`src/engine/src/protocol/mod.rs`) |
| `calls` | calls that have changed the engine and not yet handed over their write, in the order in which they changed it |
| `queue`, `buffer`, `writer` | `AsyncWriter::queue`, `ops_buffer` of its loop, and where the loop is: running, told to stop, out of its loop, done |
| `db` | the tables `jobs`, `dlq_jobs`, `job_results` |
| `dropped`, `strayed`, `promised` | history variables: jobs with a write that was lost; jobs whose writes did not keep the engine's order; jobs whose push returned Ok and that have not ended since |

A call is `Push`, `Ack`, `Fail` and so on, which records the write that is due; then
`QueueOp` (there is room), or `QueueFull` and later `WriteNow` or `WriteNowFails`; then, for
fail, the scans and move_to_delayed, `Place`: those write before they put the job back, so
that in between it is only in the hand of the call. Pull, the release of dependents
and retry_dlq change jobs and write nothing. `TakeBatch`, `Commit` and `BatchFails` are a turn of
the writer's loop, `Stop`, `TakeLast` and `Stopped` the graceful shutdown, during which
connections are still served; `Exit` ends the process after that, after the thirty
seconds shutdown waits, or anywhere; `Recover` is `recover_from_sqlite`.

The tables are judged by what they will be once everything accepted is written
(`Projected`), so that batching is no excuse and no fault. `RowsMatchEngine` says that they
then agree with the engine for every job, except those in the two history variables, whose
definition is the list of the ways in which the code lets them disagree; `NoLiveJobLost`
drops the second exception: an order of writes may raise the dead, but not lose the living.

### Services

The modules of `MCServices` model components that share no container with the life of a job, or of whose
containers one question can be asked alone. Each is the code's own steps at the grain of its locks.

* **`KvStore`.** `kvStore` is the map with `expires_at`; a call holds one entry's lock, except `kv_incr` of an
  absent key, which looks the key up and then inserts over whatever is there (`KvIncrLookup`, `KvIncrInsert`). The clock is the wall clock and may be set back.
  `IncrementsCounted`: a counter is what it was set to plus every increment answered since, except after such
  an insertion. `ExpiredStaysGone`: a key that read as absent is readable again only by a write of a value, or because the clock was
  set back before the sweep took the expired entry; one that was swept or deleted stays gone whatever the clock does.
  `Glob` compares `glob_match` with the definition of matching: for every pattern of up to four and text of up to three characters in the run, for
  any in the theorem. Its texts are of characters of one byte: behind a `*` the code drops a *byte* of the key at a time (`kv.rs:300`), and panics within a longer character.
* **`PriorityQueue`.** `pqHeap` is the array of the `BinaryHeap`, `pqIndex` the map, entries are told apart by
  `generation`. The comparison turns around for LIFO jobs and is then no order, so the sifts of the standard library are modelled and
  not an abstract sort. `EveryJobPopsInTurn`: every job in the map has exactly one live heap entry, however
  often its id was removed, updated and pushed again, and no pop passes over a job of higher priority or, of the same, an earlier time. Among equals it
  returns the oldest while no LIFO job, and the newest while only LIFO jobs, were in the heap since it was last empty (`pqSince`); not longer (*Old jobs behind a LIFO job that has gone*, section 4).
* **`RateLimit`.** Tokens in thousandths; the wall clock jumps forward and back. `RateBound`: between two settings
  of the limit, or from any moment (`WatchFromHere`), single pulls deliver at most a full bucket and what the clock's forward run has filled.
* **`Webhooks`.** Breakers per URL, answers that arrive whenever they like, deletion in three lock scopes.
  `ClosedBelowThreshold`: a closed breaker has counted exactly the failures since the last success, and fewer than the threshold.
  `NoOrphanCircuit`: a breaker without a webhook belongs to a deletion in progress.
* **`Locks`.** A call is the set of its chains of nested guards (`LockPush`, `LockClean`, ...). parking_lot gives a
  waiting writer precedence, so a reader may wait for a reader. `NoCircularWait` looks for a circle of threads that wait.
  `LockSpec` has all operations but get_state, memory_stats and get_children; `LockSpecAll` has the first two as well, `LockSpecAgain` the third. These three
  nest their guards against the order of all others, and each closes a circle (section 4).
* **`Cron`.** Table, rows, and the background run with its three phases (table, rows, pushes), overlapped by add_cron, delete_cron, obliterate, reset
  and restart. A registration is an interval or an expression; when an expression occurs next is a function of the time (`CronOccurs`), its parsing a library's.
  Any write of a row may fail, which the code only logs, and the clock may be set back. `CronKeepsItsTable`: of two pushes of a
  registration one is for a slot that follows the decision on the other (an interval later, or another occurrence), a process makes at most `limit` of them, and a deleted
  entry does not come back with a restart. Excepted by name: registrations whose row missed a next run or got another's (`cronStale`), and names
  whose row outlived the entry, through a failed deletion or reset (`cronForgotten`).
* **`PushIds`.** `custom_id_map` and the places where push and push_batch look, claim, insert and take back. get_job looks only in the container the index
  names: `piMissed` is the jobs it therefore does not find. `OneLiveJobPerId`: two live jobs share a custom id only through the windows the history variable `piWindow` names:
  a push met a mapped job that get_job does not find (between two containers, or with a stale entry, which *every job released from its dependencies*
  has until a worker takes it), a rollback removed the mapping of another job or of its own one that lives on, or reset removed that of a job pushed meanwhile.
* **`QueueConfig`.** `RowHoldsSettings`: when no call is under way, a restart finds the settings in force, unless a row was stored after one that was read later, the
  store of the last call to read failed (it is only logged), or `reset` came since (it keeps the rows).
* **`Metrics`.** A call moves its job under a lock and owes its counts (`mxOwed`), which land in any order; counters
  are unsigned and wrap. `MetricsAddUp`: once all counts are made the gauges are exact, as long as only
  operations were used that keep them (`mxForgot`: a push that waits for dependencies returns before it is counted, push_batch counts ids it already knows, a push that is undone stays counted,
  and so on); and a point of the history reports no completion that was not counted, `reset` at any moment
  included.
* **`Sockets`.** `SocketsAccounted`: the counter is the number of loops that run and stays within the limit, unless
  several handlers passed the check together; a loop that is not blocked in a send lets a silent peer go.
* **`Backups`.** `BackupsProtect`: retention, working from listings that may be out of date, never deletes the newest backup, and the bucket holds one
  that is at most two intervals and one upload old. Both need a `KeepCount` of at least one, which the code does not (section 4).

### Deliveries

`MCDeliveries` holds the compositions in which somebody is owed an answer.

* **`Completion`.** The lock scopes of `wait_for_job` (state, result, registration, cleanup) against those in which
  ack, ack_batch, fail, cancel, the stall check and the cleanup of results publish an end, and flows against the acks of their children.
  `WaitsAnswered`: what a wait says is true, and no finished wait leaves its channel registered, except those whose HTTP handler was
  dropped. `ParentAfterChildren` and `ParentReleased`: the parent runs after the acks of all children, and it does become ready after them.
* **`Transport`.** The pool tries connection after connection, sessions break with requests and answers on the way, the health checker
  opens new ones whose AUTH may be refused unnoticed. A session takes `WireRoom` requests it has not served, and a write to a full one waits, without a timeout, as in the code;
  a caller may drop its call at any await (`CallDropped`), with its request left in the pending map.
  `CallsAnswered`: an answer is the answer to its call, Ok means executed,
  refused means not executed, a command is executed at most once more than attempts were given up, and the pending map holds the requests somebody waits for and
  the last one of each dropped call. `CallsReturn`: every call that is not dropped returns, if sessions serve what they have taken or break.
* **`Delivery`.** Pullers, a channel, processors, and a client that stops or vanishes; then the stall and timeout checks. A worker has several pullers, and each of its
  pulls is a request and an answer: the engine gives the job (`FeederPull`), the answer arrives (`PullAnswered`) or the call gives up before it does (`PullGivenUp`), and a pull nobody waits
  for any more may still take a job (`OrphanPull`). How requests get lost is `Transport`'s.
  `ActiveJobsAreHeld`: a job in processing is in somebody's hands or on the way there or back, or its holder has vanished, or it was lost since it was given out (`astray`): the answer to
  its pull or its ack or fail did not arrive, or a puller was aborted with it. `TakenJobsSettle`: it does not stay there for ever.
* **`Restore`.** The files of the two restores, step by step, with crashes and failing renames and writes, and the start of the server with its migrations.
  An upload is checked by its first 16 bytes only, so half a database or one without jobs is accepted (`rsBlank`). `DataSurvives`: until that happens, one fault never leaves the disk
  without a database that has the jobs. `StartsAgain`: no file a restore or a crash leaves makes a migration fail.

### The abstract specification

`JobStore` says what a client may rely on, with no threads or locks: a job is unborn,
pending, active, dead, done or gone; submissions respect unique keys, starts respect
groups; a job that is done or gone never comes back. `JobProperties!StatusOf` maps a
state of the engine to it. A job in a thread's hand has the status of the place it
is leaving until the step that makes the change visible: it stays *active* until its
slot and group are given back, and is *done* from the moment its resources are
released, before the completed set knows it. A submission takes effect when the shard
is locked, not when the id is drawn.

## 3. Checks

`Calls` selects the operations of a run of `MCJobs`, so that each run can
afford three jobs, or two jobs and many operations. Two client threads and the
background task are enough for every race of two calls, and of a call with a scan; the
theorems cover any number. The same holds of the services and the compositions, where a theorem
states their property (section 5): there the instance only has to be large enough for the mutant to fail.

| Run | Module | Instance | Properties | States |
|---|---|---|---|---|
| `core` | `MCJobs` | 3 jobs, two sharing a key and two a group, limit 2, batches of 2; push, push_batch, pull, ack, ack_batch, fail, cancel, retry_dlq | `SingleOwner` `UniqueKeyExclusion` `GroupExclusion` `IndexAgreement` `UnindexedIsGone` `ImplementsJobStore` | 332,000 |
| `background` | `MCJobs` | 2 jobs, limit 1, batches of 2; the timeout and stall scans against push, pull, ack, fail, retry_dlq, heartbeat, move_to_delayed, promote | `SingleOwner` `ConcurrencyBound` `AttemptsWithinBudget` | 144,000 |
| `admin` | `MCJobs` | 2 jobs, sync persistence with every answer of the database; discard, drain, clean, purge, obliterate, pause, set_concurrency, cleanup against push, pull, ack, fail, retry_dlq | `TypeOK` `ImplementsJobStore` | 200,000 |
| `workers` | `MCJobs` | 3 jobs, two of a group, the third depending on both, limit 2, a backoff; push, push_batch, pull, ack, fail, cancel, the dependency scan | `DependenciesFirst` `QueuedJobsSettle` `DependentsReleased` | 27,000 |
| `writes` | `MCPersistence` | 1 job with all faults and batches of 1, and 2 jobs, one depending on the other, with batches of 2, crash and stop | `TypeOK` `RowsMatchEngine` `NoLiveJobLost` | 970,000 |
| `services` | `MCServices` | the twelve services | `IncrementsCounted` `ExpiredStaysGone` `EveryJobPopsInTurn` `GlobMatchIsMatching` `RateBound` `ClosedBelowThreshold` `NoOrphanCircuit` `NoCircularWait` `CronKeepsItsTable` `BackupsProtect` `OneLiveJobPerId` `RowHoldsSettings` `MetricsAddUp` `SocketsAccounted` | 1,680,000 |
| `deliveries` | `MCDeliveries` | `Completion`, `Transport`, `Delivery` and `Restore` | `WaitsAnswered` `ParentAfterChildren` `ParentReleased` `CallsAnswered` `CallsReturn` `ActiveJobsAreHeld` `TakenJobsSettle` `DataSurvives` `StartsAgain` | 183,000 |

Each explores its whole state space. Between them the runs take every action of the modules.

### Bounds

* `BatchSize`: jobs in one batch call, 1 or 2. Two is the least at which a batch meets
  itself: two jobs of one group, two of one key, two slots at once.
* `AttemptBound`: a job with `max_attempts = 0` is retried for ever; its counter stops
  at the bound. The runs use jobs with a budget of 2: one retry, then exhaustion.
* `stalls` stops counting at three, where the code gives the job up and no longer tells
  the counts apart.
* `MaxCompleted` is the size at which the cleanup halves the completed set: 50,000 in the
  code, 1 in `admin`, where the cleanup takes place, and out of reach elsewhere.
  `MaxResults` of `Completion` is the same for the results: at 0 any of them may be evicted before it is read.
* Ids are never reused, so a run is finite: jobs move around until they end. A run that
  has ended all its jobs stops, hence `CHECK_DEADLOCK FALSE` in every configuration.
  Only `Locks` has steps that wait for another thread; there `NoCircularWait` is the absence of deadlock.
* Clients are symmetric in the runs of `MCJobs` without liveness.
* `Persistence`: the writer's queue holds 2 operations, so that it overflows with two calls
  in progress (`MaxCalls`), which is also what one write needs to overtake another; batches of
  1 and of 2; one restart (`MaxRestarts`): a second one starts from the same tables. `MaxDead`
  bounds retry_dlq, which may go on for ever, as every retry leaves one more row in
  `dlq_jobs`. One job is enough for every fault, as two writes interfere only if they are about the
  same job; two are there for the dependency and for the next id.
* `KvStore`: one key, two clients, TTLs of nothing and one, four instants (`KvMaxNow`) through which the clock runs forward and back, three increments (`KvMaxCount`).
  Keys do not touch each other.
* `PriorityQueue`: four ids, two of them LIFO, two priorities and two times, three pushes (`MaxPushes`); three is the
  least at which the comparison can be intransitive and a removed id be pushed again over live ones. The theorem covers any.
* `Glob`: two letters, `MaxPattern`, `MaxText`; the depth (10 in the code) is 2, so that it is reached. The theorem covers any.
* `RateLimit`: limits of 0, 1 and 2, clock to 1.5 s and 3 s of forward run in all (`RlMaxNow`, `RlMaxForward`), steps of a quarter and half a
  second and a second back. The theorem covers every limit and step.
* `Webhooks`: two hooks on one URL, two deletions, threshold 3, recovery 2, two requests in flight (`MaxFlight`). The theorems cover any.
* `Locks`: three threads; a circle of four (one of those of memory_stats) needs four, and is among the excluded calls. The theorem covers any number.
* `Cron`: one name, one caller, two registrations, an interval of 1 and occurrences at 1, 2 and 4 in three instants, limit 2, one restart (`CronMax...`). Names do not touch each
  other. Two callers at once multiply the states beyond the run's time without a case of their own: what overlaps with the background run is one caller, and two are in the theorem, which has any number.
* `Backups`: the task and one handler, `KeepCount` 1, interval 2, uploads of up to 1, six instants (`BkMax...`).
* `PushIds`: two pushers, two ids (`PiMaxId`): the mapped job and one more are the two that must not both live. The theorem has any number.
* `QueueConfig`: two callers, three calls (`QcMaxCalls`), one restart.
* `Metrics`: two jobs, counters of width 4, so that a decrement too many is seen as 3; two counts owed at a time (`MxMaxOwed`), two points (`MxMaxPoints`), history of 3, one reset.
* `Sockets`: a stream and a dashboard, a limit of one, an idle timeout of two ping periods (four in the code), a channel and connection buffers of one, two events.
* `Completion`: a flow of two children on its own (two threads, one wait), or another job: one that dies at its first failure (`Mortal`) or one removed at its end.
  `Waited` are those that are waited for. `Scenes` names the three sets.
* `Transport`: one call over two connections, or two calls over one (`Openings`), one reconnection (`MaxReconnects`), sessions that take two requests (`WireRoom`), so that a third write waits.
* `Delivery`: a stream and a worker after a job with a timeout, two pullers of one worker after it, or one puller with two jobs without (`DlvScenes`, `OwnerOf`); one pull nobody waits for
  at a time (`MaxOrphans`), a channel of one slot, one processor, two attempts.
* `Restore`: two migrations, one fault (`RsMaxFaults`), three restores (`RsMaxRestores`).

### Fairness

* A call that has begun goes on (`WF` of `Advance`; `WaitsFairness` for the threads of `Completion`): the tasks are polled by
  tokio, and no lock scope waits for a condition. The same for the background task's steps.
* The dependency scan happens again and again (`SF` of `DepsScan`): it is one ticker of
  a `select!` loop (`background/mod.rs`), and the other tickers of the loop are finite.
  Strong fairness, as between two of its turns the thread may be inside another scan,
  and its guard is then false.
* A postponed job becomes due (`WF` of `BecomesDue`).
* `WorkerFairness`, used by `workers` only, is an assumption about the clients and not about
  the engine: workers ask for jobs again and again, and report on each job they get.
* `TransportFairness`: a call's own task runs and its timer fires; and the server goes on serving the requests a session has taken (`src/engine/src/server/connection.rs:70`), though the session may
  break at any moment. The second is needed: write and flush wait under the writer's lock, outside the timeout of the call (`connection.rs:100-104` and `:112` of the SDK), so
  a session that neither reads nor breaks blocks the calls of its connection for ever. A blocking PULL counts as served, as its timeout ends it.
* `DeliveryFairness`: the stall check comes again and again for a job that is in processing (another ticker of the same loop).
  Nothing is asked of streams and workers: they may vanish at any moment.
* `RsFairness`: a server that starts goes on with its migrations. Starting it again is the operator's.

### Mutants

Every property of a passing run is shown to be able to fail: `PROJECT.json` names, for
each, a definition of the model and a mutated form of it (a processing lookup that does not remove, a timeout that gives the slot back
twice, a dependency check that accepts any dependency, a claim rolled back under the wrong lock, a backup that keeps the oldest, a push that comes
before the table is changed) under which TLC finds a violation in the same instance.

## 4. What the checks found

Five runs end in a counterexample that the code has. Each checks what a document or a
comment of the repository says.

| Run | Property | What happens |
|---|---|---|
| `group_leak` | `ActiveGroupsTracked` | cancel of a running job releases slot and key and not the group (`job_ops.rs:24`). The group stays active with no job in it, and pull skips its jobs for ever. move_to_delayed, discard, the timeout and stall scans and obliterate have the same gap |
| `mixed_ack` | `GroupExclusion` | `ack_batch` releases what it collected in a shard against the queue of the first job (`ack.rs:125`). With ids of two queues, acking a job of one queue frees the group of a job that runs in the other, and a second job of that group starts |
| `sync_push` | `SyncPushDurable` | with `SYNC_PERSISTENCE` push calls `persist_push_sync`, which calls `insert_job`, which queues the row for the writer like any other push (`persistence.rs:26`, `sqlite/mod.rs:189`). push returns Ok, the process dies before the next batch, the job is gone |
| `id_reuse` | `NextIdIsFresh` | the next id is one more than the largest in the table `jobs` (`sqlite/jobs.rs:280`), or 1. If the newest jobs are dead letters or have completed, a restart, also after a graceful stop, gives their ids out again |
| `lock_get_state` | `NoCircularWait` | get_state keeps its guard on a part of `job_index` for the whole match and takes a shard inside it (`query.rs:79`); push indexes while it holds the shard. Two threads wait for each other, and with them everything that needs that shard. memory_stats, which holds four kinds of guard, closes circles of three and four threads, and get_children one of its own (below) |

### Known counterexamples

More were met on the way. No run keeps them, as the number of runs is meant to stay small, or as no document
speaks of them; most are reproduced by a configuration with the instance given here.

* *Keys without owner* (`KeysHaveOwners`). With remove_on_fail, a job out of attempts is dropped without
  releasing its unique key (`ack.rs:228`), and later pushes of the key are refused. In the `core`
  instance with `RemoveOnFail = {j1}`, `RemoveOnComplete = {}` and `Calls = {"push", "pull", "fail"}`.
  Keys leak as well in cancel of a job that waits for dependencies, for expired jobs dropped by pull, in purge
  and clean of dead letters, for discarded jobs that are purged, and in the rollback of a push.
* *Index of released dependents* (`IndexAgreement`). The dependency scan moves a job to its queue and
  leaves the index entry at `WaitingDeps` (`background/timeout.rs:104`): get_job and cancel look in
  the wrong place until the job is pulled. In the `workers` instance with `SPECIFICATION Spec`.
* *New limit on a busy queue* (`ConcurrencyBound`). `set_concurrency` starts a new limiter at zero
  while jobs run (`rate_limit.rs:45`). In the `background` instance with `NewLimits = {1}` and
  `Calls = {"push", "pull", "ack", "set_concurrency"}`.
* *Slots of stalled jobs* (`SlotsMatchActive`). A job given up by the stall scan keeps its slot
  (`monitoring.rs:252`). In the `background` instance with `Calls = {"push", "pull", "ack", "stall"}`.
* *Ended jobs with a row* (`EndedJobsErased`). push makes the job visible before it hands over its row
  (`push.rs:130` and `:194`), so that the ack of a fast worker is queued first, deletes nothing, and the row is inserted
  after it: the next start runs a finished job again. In an instance of `MCPersistence` like `sync_push` without
  sync persistence and without faults. A failed batch, remove_on_fail (which writes nothing) and
  every operation the writer accepts after its last look have the same effect.
* *Rollback of a pulled job* (`UnindexedIsGone`). With sync persistence, push inserts the job, waits for the
  database, and on an error removes it from its queue and unindexes it (`push.rs:176`).
  A worker may have pulled the job in between: nothing is removed from the queue and
  the index entry of a *running* job is erased. In the `core`
  instance with `SyncPersistence = TRUE` and `Calls = {"push", "pull"}`.
* *Late index of discard* (`IndexAgreement`). discard of a running job puts it in the dead letter queue, leaves
  the lock, and then sets the index (`job_ops.rs:532`). If retry_dlq takes the job back
  in between, the index says `Dlq` for a queued job. In the `core` instance
  with `"discard"` added to `Calls`.
* *Late index of obliterate* (`IndexAgreement`). obliterate collects the jobs of its queue in processing and then erases
  their entries, whether the table still had them or not (`browser.rs:353`). A job that failed in between is queued, or about to be, without an
  entry. In the `core` instance with `Calls = {"push", "pull", "fail", "obliterate"}`.
* *Throughput between two steps of a reset* (`ThroughputIsReal` without the exception `mxRaced`). reset_metrics zeroes the totals and then
  clears the history (`settings.rs:106`); a collection that reads the totals in between subtracts the old from the
  new (`admin.rs:167`), and the point says nearly 2^64 completions a second. `reset` clears first and is guarded by `>= 2`.
* *Old jobs behind a LIFO job that has gone* (`OldestFirst`). The comparison of heap entries turns around when either is LIFO
  (`types/indexed_priority_queue.rs:42`), so it is no order. If 2, 4, 5, 1, 3, 6 are pushed with one priority and time, 4 of them LIFO, then 4 leaves 2 below 3 on its way
  through the heap, and when no LIFO job is left, nor a stale entry of one, pop returns 3 while 2 waits; line 38 says "older jobs first". Equal times and ids
  out of order come from concurrent pushes of one millisecond, retries without backoff, change_priority and recovery. With `SPECIFICATION PqSpec`, six ids,
  `Lifo = {4}`, one priority, one time and `MaxPushes = 6`; with fewer pushes the heap is in order again when the LIFO job has gone.
* *More sockets than the limit* (`SocketsCounted` without the exception `skRaced`). The limit is compared before the upgrade, and counted by the task the
  upgrade starts (`http/websocket.rs:47`), so handlers that compare together all get in.
* *get_children against a push and a retry* (`NoCircularWait` with `SPECIFICATION LockSpecAgain`). get_children holds a shard for reading while it calls get_job for every child
  (`flows.rs:196`, `:203`), which takes the index and the same shard again (`query.rs:36`, `:49`, `:58`, `:63`). A writer that asks for the shard in between waits for the
  first guard, and the second waits behind the writer: two threads, four steps.
* *No backups kept* (`BackupsProtect` with `KeepCount = 0`). The count comes from the environment and from the settings page unchecked (`sqlite/backup.rs:92`, `http/settings/s3.rs:121`);
  with 0, `skip(0)` (`sqlite/backup.rs:345`) deletes every backup, the one just made included.
* *Uploads without jobs* (`DataSurvives` without the exception `rsBlank`). The handler compares the first 16 bytes of an upload (`http/settings/sqlite.rs:418`), writes it over the database and removes
  the copy it had made (`:434`): half a file, or a database without jobs, loses the data without any fault.
* *Released dependents and their custom ids* (`OneLiveJobPerId` without the exception `piWindow`). A job the dependency scan released is in its queue, its index entry says it waits
  (`background/timeout.rs:104`), get_job does not find it (`query.rs:57`), and a push of its custom id makes a second live job. The same in the other windows of `PushIds`.
* *Entries of dropped calls* (`PendingIsAwaited` without `"dropped"`). A call whose future is dropped while it waits leaves its entry in the pending map (`connection.rs:98-121` of the SDK has no drop
  guard), until an answer comes or the connection is lost; a worker that stops aborts its pullers inside a call (`worker.rs:255`).
* *Two restores, or two faults* (`DataSurvives` with `RsMaxFaults = 2`). If the second rename of a restore fails and its undo as well, or a crash is
  followed by another restore, the path of the database holds none. Two restores at once share `tmp`, `restore` and `bak`.

### Read off the code

Part of the models, without a property that could hold:

* retry_dlq leaves the row in `dlq_jobs`, so a retried job is after a restart a dead
  letter again, and a second one if it dies again; a dead letter comes back with `max_attempts` equal to its attempts,
  which is 0, hence no limit, if it was discarded or given up by the stall scan before its first failure; completed ids
  are recovered from `job_results`, so a job whose dependency was acked without a result waits for ever after a restart.
* `wait_for_job` may miss an end: it reads the state, then the result, then registers (`query.rs:139`), and a job that ends in between has told
  nobody. A job given up by the stall check, drained, cleaned, obliterated or expired never tells anybody. In all these cases the
  wait ends with its timeout. In the middle of a pull, a retry or a discard get_state says *unknown*, and the wait returns at once with an error.
* `on_child_completed` is called by ack alone. A child that ends in `ack_batch` (over TCP; the HTTP handler calls ack in a loop), dies or is cancelled
  leaves its parent waiting for ever, and parents are not recovered after a restart.
* The client sends a command again when its attempt timed out, though the first may still be executed (`connection.rs:87` of the SDK): pushes and pulls may
  happen twice. The answer of a request behind a blocking PULL of the same connection waits for it.
* A worker that stops aborts its pullers, and a stream whose client has gone finishes the pull it has begun: the job comes back after three stall
  periods, as nobody sends heartbeats, and then as a *dead letter*, for stalls are counted over attempts and never reset by a retry.
* The number of deliveries of a job is not bounded by its budget: move_to_delayed puts an active job back without counting an attempt (`job_ops.rs:301`), so what `AttemptsWithinBudget` bounds is
  the attempts *counted*. The stall check gives a job up after three periods, whatever its attempts.
* A PULL whose answer is lost, with its session or by the client's timeout, has taken its job all the same (`connection.rs:112` of the SDK): the job stays active with nobody until the stall check.
* `reset` (`settings.rs:17`) empties shards and the table of cron jobs and keeps their rows: settings and cron jobs come back with the next start. Failed writes of such rows are logged and
  not tried again (`manager.rs:547`).
* A backup interval of 0 is accepted, and tokio's interval panics on it (`src/engine/src/main.rs:420`), which ends the backup task.
* The periodic backup counts its interval from the end of the last upload, so the tick after it comes too early and every second one is skipped.
* The dashboard's own updates count as activity, so its idle timeout never fires; a loop blocked in a send has no timeout either.
* Pushing a custom id again after its job has completed runs a second job; push_batch returns the id a mapping names without looking whether there is such a job.

## 5. Proofs

| Theorem | Module | States |
|---|---|---|
| `TypeCorrect` | `JobLifecycleProofs` | `Spec => []TypeOK` |
| `SingleOwnership` | `JobLifecycleProofs` | `Spec => []SingleOwner` |
| `AttemptsBounded` | `JobRecordProofs` | `Spec => []AttemptsWithinBudget` |
| `DependenciesRespected` | `JobRecordProofs` | `Spec => []DependenciesFirst`, if nothing cleans `completed_jobs` |
| `ErasedJobsAreGone` | `JobRecordProofs` | `Spec => []UnindexedIsGone`, if push does not wait for the database |
| `IndexIsRight` | `JobRecordProofs` | `Spec => []IndexAgreement`, if moreover the dependency scan, discard and obliterate do not occur |
| `GroupsExclusive` | `JobExclusionProofs` | `Spec => []GroupExclusion`, if `ack_batch` is given ids of one queue |
| `ConcurrencyBounded` | `JobExclusionProofs` | `Spec => []ConcurrencyBound`, if moreover no limit is replaced at run time |
| `UniqueKeysExclusive` | `JobExclusionProofs` | `Spec => []UniqueKeyExclusion`, if `ack_batch` is given ids of one queue and no queue is obliterated |
| `EngineImplementsStore` | `JobStoreProofs` | `Spec => ImplementsJobStore`, under the same two conditions |
| `PersistenceTypeCorrect` | `PersistenceProofs` | `Spec => []TypeOK` of `Persistence` |
| `LiveJobsSurvive` | `PersistenceProofs` | `Spec => []NoLiveJobLost` |
| `RowsAlwaysMatch` | `PersistenceProofs` | `Spec => []RowsMatchEngine` |
| `RateIsBounded` | `ServicesProofs` | `RlSpec => []RateBound` |
| `BreakersOpenInTime`, `BreakersHaveHooks` | `ServicesProofs` | `WhSpec => []ClosedBelowThreshold`, `WhSpec => []NoOrphanCircuit` |
| `LocksNeverCircle` | `ServicesProofs` | `LockSpec => []NoCircularWait`: all operations but get_state, memory_stats and get_children |
| `SocketsAreAccounted` | `ServicesProofs` | `SkSpec => []SocketsAccounted` |
| `CountersAddUp` | `ServicesProofs` | `MxSpec => []MetricsAddUp` |
| `JobsPopInTurn` | `ServicesProofs` | `PqSpec => []EveryJobPopsInTurn` |
| `SettingsSurvive` | `TablesProofs` | `QcSpec => []RowHoldsSettings` |
| `CustomIdsExclusive` | `TablesProofs` | `PiSpec => []OneLiveJobPerId` |
| `IncrementsAreCounted`, `ExpiredNeverReturns` | `TablesProofs` | `KvSpec => []IncrementsCounted`, `KvSpec => ExpiredStaysGone`, an action property |
| `KeysMatch` | `TablesProofs` | `GlobInit => GlobMatchIsMatching`: the inputs of `Glob` have no steps |
| `CronJobsRunAsRegistered` | `TablesProofs` | `CronSpec => []CronKeepsItsTable` |
| `BackupsAreYoung` | `TablesProofs` | `BkSpec => []BackupsProtect`, if `KeepCount > 0` and no upload takes longer than the interval |
| `OneFaultLosesNoData` | `TablesProofs` | `RsSpec => []DataSurvives`, with at most one fault |
| `WaitsAreAnswered`, `ParentWaitsForChildren` | `DeliveriesProofs` | `WaitsSpec => []WaitsAnswered`, `WaitsSpec => []ParentAfterChildren` |
| `NoActiveJobForgotten` | `DeliveriesProofs` | `DeliverySpec => []ActiveJobsAreHeld` |
| `CallersAreTold` | `DeliveriesProofs` | `TransportSpec => []CallsAnswered` |

**Assumptions.** Of the theorems about jobs, only the four named assumptions of `JobLifecycle`: the background task is not
a client, jobs are finitely many, and the options and limits have their types. There is no assumption
on `Calls` in the first three theorems: all operations may be enabled at the same time.
The others exclude what makes their property false, and nothing else:

* `NoCleaning`, for `DependenciesRespected`: neither the cleanup of `completed_jobs` nor `clean(.., completed)` runs. They remove the
  entries that jobs in the queue, or on their way to it, were judged by.
* `~SyncPersistence`, for `ErasedJobsAreGone` and `IndexIsRight`: see *Rollback of a pulled job* above.
* `EntriesFollow`, for `IndexIsRight`: no dependency scan, discard or obliterate. Each leaves a wrong entry behind: *Index of released dependents*,
  *Late index of discard* and *Late index of obliterate* above.
* `"ack_batch" \in Calls => OneQueue`: either `ack_batch` does not occur, or all jobs are of one
  queue. The run `mixed_ack` is the counterexample without it.
* `"set_concurrency" \notin Calls`, for `ConcurrencyBounded`: see *New limit on a busy queue* above.
* `"obliterate" \notin Calls`, for `UniqueKeysExclusive` and `EngineImplementsStore`: obliterate forgets the keys of its queue while
  workers still have jobs that hold them, and a new job of the same key gets in before
  they end. (Without keys it does no harm to the store: the run `admin` has it.)

* `KeepCount > 0`, for `BackupsAreYoung`: nothing in the code excludes 0 (*No backups kept* above).
* `BkMaxDuration <= BkInterval`, for `BackupsAreYoung`: the interval is 300 seconds unless configured (`sqlite/backup.rs:111`), and
  nothing in the code makes an upload end in it. While one lasts, the task makes no other, so the backup in the bucket ages with it; the bound
  `BackupGap` counts one upload only. That the newest backup is never deleted (`BkInvariant`) does not need this one.
* `RsMaxFaults <= 1`, for `OneFaultLosesNoData`: two faults can lose the data (*Two restores, or two faults* above).

The theorems about persistence assume the bounds to be numbers and the options to have their types (`BoundAssumption`, `OptionAssumption`),
and nothing of `Calls`: they hold for all operations together, any number of jobs, any sizes of queue and batch, with and without
sync persistence, and with any number of faults and restarts.

The modules of the services assume the types of their constants (`RateAssumption`, `WebhookAssumption`, `KvAssumption`, ...). Of those that say
more, `BackupAssumption` has the task not be a handler, and `CompletionAssumption` has a flow's children be finitely many, its parent none of them, and
new together with it (their ids are drawn by the call that pushes the flow);
`TransportAssumption` has a pool be of at least one connection, a session take at least one request, and the health checker's AUTH be no call's command;
`CronOccursAssumption` has the next occurrence of an expression be later than the time it is asked at (the code falls back to a minute later when the library finds none);
`PqAssumption` and `GlobAssumption` have numbers be numbers, ids not be 0, and `*` not be `?`;
`MetricsAssumption` has a counter have room for the jobs there are (the counters are of 64 bits).

**Types.** `TypeOK` is inductive. Two of its conjuncts are not mere typing: `current` is a
natural number because release saturates at zero (the counter is unsigned in the code),
and `stalls` stays within its range.

**One owner.** `SingleOwner` says that the containers are disjoint from each other and
from every hand, and hands from each other. It is not inductive: push takes a fresh id
into its hand, and nothing in `SingleOwner` says that a fresh id is not already
somewhere. `OnlyCreated` adds that whatever is in a container or a hand has been handed
out before. `Owned` is the conjunction with `TypeOK`. Each step then either moves a job that
it has just removed under a lock, or works on the thread's own hand. That the
argument goes through for obliterate, the scans and `ack_batch` is the reason why the
collected ids in `todo` need no invariant at all: every step that acts on an id checks
that the removal returned the job.

**What a thread holds.** `HandShape`: a thread between two calls, or between two ids of a loop,
holds nothing; in a call about one job it holds exactly that job. Proved together with `Owned`.

**Attempts.** The budget bounds the attempts counted, not the deliveries (move_to_delayed counts none). It is about the jobs in containers, but a job in a hand may be about to
return to one. `Budgeted` extends it to the hands at the steps that put a job in a
queue or in `processing` without looking at its attempts (`Returning`), and says that a
job nobody has pushed has no attempts. The one delicate step counts an attempt (`Fail` and
`TimeoutTake`, lemma `AttemptCounted`): that the job is in no other hand, from `SingleOwner`,
is what keeps the count from being raised behind the back of a thread about to requeue
the job.

**Dependencies.** `Satisfied` extends `DependenciesFirst` to the dead letters, which may be retried, to the jobs in hands past
the step that sorts ready jobs from waiting ones, and to the ids the scan has copied before it locks the shard
(`deps_move`). What a thread looked up stays true because nothing leaves `completed_jobs` (`NothingForgotten`).

**The index.** Hardly any operation moves a job and its entry in one lock scope. `Errands` is about those that erase an entry, or enter a job as
completed, after the move and by id alone: the job is out of play (`Past`), and if the entry is to be erased not completed either (`Gone`). Other threads
cannot undo that, as no step brings a job back (`PastStays`): every way into a container starts in another one or in a hand, and ids
are not reused. `IndexTells` is `IndexAgreement` between the lock scopes: what is in a container has its entry (`PlacesTold`), a thread that is about to
put a job somewhere has announced it (`HandsTold`; ack_batch, which writes the entries of a batch one after the other, has announced the jobs it has no longer to do, `Announced`), and a completed job without an entry has a thread that is about to write it, or one that has just erased it
and will remove the job (`RecordsTold`). What makes the three hold together is that an erasing thread cannot hit them (`ErrandsHarmless`).

**Groups and slots.** Both rest on one fact, `NextNoStart`: only pull makes the set
`Executing` larger. `GroupsMarked` says that a job in execution has its group in
`activeGroups`, which is what pull looks at; `SlotsCover` that the counter is at least the
number of jobs in execution and at most the limit. Neither says that the marks and
counts are exact (they are not: `group_leak`, *Slots of stalled jobs*), which is why a leak is
harmless for exclusion and harmful for progress. A release must end the execution of just the
jobs it gives back (`Ended`, `BatchEnded`, `EndedKeepingGroup`), and a batch must
release against the right queue (`BatchQueue`). The slots need cardinalities of finite sets: hence
`JobAssumption`.

**Keys.** The same argument with `KeyHolders` in the place of `Executing`: only push and
push_batch make a job a holder (`NextNoClaim`), in the lock scope in which they find the key
free, and a release comes with the end of the holding.
Every proof has the same frame: one lemma for each group of actions of `Next`
(`BeginJobCall`, `BeginPull`, ..., `Clock`), with a step for each action.

**The refinement.** The initial states map to the initial state of `JobStore`, and every step to a step of it or a stutter. `StatusOf`
is a list of cases over all containers and all hands; `Places` (from `SingleOwner`) lets it be read from the one place a job is in. An action
then needs two facts: which jobs change their place (`Untouched` for all the others, lemma `Elsewhere`), and what their old
and new place mean. There are few kinds of move: jobs withdrawn, dropped, put back, released, recorded, taken. `NextStore` collects the outcome.
A submission must moreover keep keys apart, which is `UniqueKeyExclusion` after the step, as live jobs of the store hold their keys (`LiveHolds`);
a start must keep groups apart. For that `GroupExclusion` is too weak: a job that the timeout scan has taken is still active in the store after it has
left the steps of an execution. `ActiveApart` is the invariant: active jobs have different groups, and their groups are marked.

**Runs of writes.** `RowsMatchEngine` and `NoLiveJobLost` are about `Projected`, the tables after all accepted writes, a recursive function of
a sequence. The induction it needs comes from the well-foundedness of the numbers, used on sets: a property of numbers that fails
has a least number at which it fails (`LeastNumber`), so a set of numbers with 0 and the successors of its members has all of them
(`NumbersAreReached`). Hence the run of writes exists and obeys its recursion (`RunExists`, `ExecAllRuns`), and two runs that agree
at the start and in each write agree to the end (`RunsStayTogether`). From there on: what a batch does to one job depends on the writes of
that job only (`ExecAllElsewhere`, `ExecAllAlike`), a queue written in two batches is the queue written at once (`ExecAllConcat`), and a
committed batch changes nothing in `Projected` (`CommitProjects`).

**Living jobs.** `LiveJobs` says for each job without a lost write and without a row among the dead letters: the engine and the hands of
calls have it at most once (`OneCopy`); if it is there, no write that erases its row is due (`NotErased`), and its row is in
`Projected` or its insertion due (`RowToCome`); an id not yet drawn is nowhere (`Unissued`). An overtaken write is no exception:
what could lose a living job is a write that erases its row, in whatever order, and none is due while it lives. A step is looked at
job by job: of the others it changes nothing (`SameJob`, lemmas `...Spares`), and what it does to its own is one lemma per action (`...Lives`).

**Rows that follow.** `RowsFollow` is about the jobs that are in neither history variable. Such a job has one write due at a time
(`OneAtATime`) but for its insertion, which comes first; what it is in a container with is what its row says or what the write due will make
it say (`CopiesTold`, `CallsTold`); with nothing running and nothing due there is no row (`NothingTold`), and the dead letters
are those in the table and those due (`LettersTold`). Each call that gives its write to the queue is in its turn (`InTurn`),
or the write overtakes and the job has strayed; so the proof of a write needs no history of the calls before it (`InTurnFollows`).

**Rate.** The inductive invariant is the types with `Account`: while a limit is set, what the bucket would hold if it were
refilled now, plus what single pulls delivered in the window, is at most a full bucket plus what the forward run of the clock
has filled since. Every step moves tokens from the bucket to the deliveries, or adds to both sides, or loses tokens (a pull
that finds nothing, a bucket that is full). A clock that is set back adds nothing to either.

**Breakers.** `WhInv` is the types (with what a deletion in progress knows: its hook and that hook's URL), `NothingCounted`
(without a breaker no failures are counted), `ClosedBelowThreshold` and `NoOrphanCircuit`. The counter of a closed breaker and
the history `whRun` change together in every answer, however late, and only a success or a removal sets them back; a breaker
without a hook appears only in the last of the three steps of a deletion, and an answer that finds no breaker makes none.

**Locks.** The kinds of lock have six levels (`LockLevel`), and every chain of every operation climbs them (`ChainsClimb`).
A waiting thread wants a lock of a higher level than those it holds (`WantsHigher`), so it is blocked by one that waits for a
still higher level: the blocking thread itself, or, for a reader behind a waiting writer, the holder that blocks the writer.
A circle would climb for ever, and there are six levels (`NoCircle`).
That a thread never waits for what it holds is part of this: no operation of `LockSpec` takes two locks of one kind.

**Settings.** A call stores what it has read in an earlier lock scope. `LastReadInForce`: unless a caller has still to read, whoever read
last has read what is in force, and this is in the row or with a call that will store it. A call that overwrites it with an older read, a store that fails and a reset are the
exceptions `RowHoldsSettings` makes (`qcStored` is then below `qcReads`).

**Custom ids.** `DrawnOnce`: an id belongs to the call that drew it. `MappedJobs`: outside the windows, a live job is the one the
mapping names, and so is a job whose push has claimed the id and not inserted it. It fails in each of the windows, which is how they were found.

**Keys and values.** `IncrementsCounted` is inductive with the types: an entry and the count kept beside it change together, but for the insertion over an entry
that has appeared. `ExpiredStaysGone` follows from the actions: of two states of a step, only a call that writes the key makes it present, or a step of the clock backwards over the end of an entry that is still there.

**Cron.** A run updates the table in memory, makes its pushes after it, and its rows last. `RunsAhead` has the next run of a registration follow every
push *decided* for it (it is `NextRun` of the time of the decision, and a clock set back only makes it wait): in the table for those decided, in the row for those made, or with the task's pending updates, which is what the restart reads, unless the registration is in `cronStale`. `PushesCounted`
has the count of executions keep up with the pushes of this process. That a registration's entries are the same wherever they are (`CronSerials`,
`InsertsAreNew`) lets a deletion and a new registration under one name be told apart.

**Backups.** `KeysKnown`: whoever deletes has only keys in mind that are older than the newest, which was in every listing it could
have been made from or came later. `TaskOnTime` is the schedule: the task's next backup comes with the first or the second tick after the last (*the tick
after it comes too early*, section 4).

**Restore.** `RsInv` says, until a file without jobs is accepted (`rsBlank`), at each stage which file is known to hold the data: the database's own (`InPlace`), or, after the one fault, the file
set aside (`LeftAside`), the one moved in over it (`MovedOver`), or the copy of an upload of which a crash wrote only half (`LeftCopy`). A stage's premises
(`StageHolds`) are what it has validated.

**Sockets.** `SkCounted`: the counter is the number of loops that run, and with those let in and not yet counted they fit the limit; `SkWatched`: a loop
over the idle limit has its ping still to come. Every step moves one client between sets of loops (`LoopMoves`), whence the cardinalities.

**Metrics.** `GaugesFollow`: a gauge and the counts owed to it are, modulo the width, what the containers and the hands of the timeout scan
hold. What is owed is a sum over a bag, which is stated by its partial sums (`SumsOf`): a count put into the bag or taken out changes them from its
size on (`OneCountMoves`), and an empty bag owes nothing, by the least number at which it would (`NothingOwed`). A gauge may wrap below zero on the way; when nothing is
owed it is what the containers hold, as they hold less than the width (`SameIsLeast`). `PointsFollow` is the same of the history: the
total and the last point are apart by the completions counted since, unless a reset is between zeroing the one and forgetting the other. That a reset which forgets
first and zeroes later does not leave a point of the old total behind a new one rests on `CollectionsMeetOnce`: while it runs, at most one point is
added, and of one point no rate is told.

**Priority queue.** `PqInv`: the array is a heap (`Shaped`), each stored job has its entry in it at its generation, and generations
tell entries apart (`Indexed`). What the sifts keep is stated for any transitive relation that the comparison keeps to (`Ranks`). By priority and time the comparison is such
(`Sooner`), whatever it does to ids; by ids as well it is one while all entries are of one kind (`OlderFirst`, `NewerFirst`), which is why `pqSince` counts from the last
empty heap and not from the last LIFO job. The sifts are recursive functions, whose existence is proved (`RisingIsDefined`, `FallingIsDefined`, `SettlingIsDefined`) by
the least place at which they would not be. One step of a sift keeps a heap with one place excepted (`RiseStep`, `FallStep`), so the root comes first (`RootComesFirst`),
a push adds its entry (`PushAdds`), a pop takes the root and no other (`PopTakesRoot`), and discarding stale roots keeps what is live (`SettleKeepsLive`).

**Patterns.** The matcher is a function of the place in the pattern, and is shown, place by place from the end, to cover the rest of the text exactly if
a choice of cuts does (`MatcherCovers`), where a pattern with more stars behind a place than depth left may be refused though it matches. The step is to put one character,
or one star and its stretch, in front of a cut (`CoversOneMore`); `StarsAdd` counts.

**Waits and flows.** `CmInv` first says who has a job: a thread that took it has it alone (`HandsAreOne`) and knows how it ends (`EndsAreFinal`).
`CountIsBacked`: the children counted are at most those whose ack is over, which is what lets the parent follow the *last* of them; that a
count is of different children follows from `HandsAreOne`, and that nobody has counted before the flow is parked from `FlowIsPushedOnce`. For waits, `IndexTellsEnd`
has the index and the results never say what has not happened, and `CompletedStands` what a wait has read there stays so, until results are
evicted; a channel is then told by the one step that ended its job (`TellingTypes`, `NotifyJobWaiters`).

**Consumers.** `FeedersInStep` and `TakersKnown` make `ActiveJobsAreHeld` inductive: the consumer that took a job last has it with one of its pullers (in the answer to its pull, or in its hand), in its
channel, with a processor or in an answer under way, unless it vanished, or lost the job since it took it. A job that is given out again is no longer lost, unless it is given to a pull nobody waits for. The
sequence lemmas (`AppendJoins`, `HeadLeaves`: what a channel gains and loses at its ends) are about the channel.

**Calls.** Requests and answers are only numbers on a wire; that they mean what the caller thinks is the invariant `TpInv`. A request is known by its
connection and number, which the connection has counted (`Numbered`, of whatever is on a wire, in a map, or remembered by a caller), and it stays with
its connection though sessions come and go (`Wired`): so the reader, which matches numbers alone, finds who asked. A dropped call keeps its last request, which goes out or not (`RequestGoes`). It is written once, and a request still
to be written is on no wire (`WrittenOnce`), so an answer means one execution. A channel that was filled waits for nothing more (`ChannelsTell`), and
"ok" on a wire or in a channel means that the command ran (`AnswersAreTrue`). That a refused or failed call ran no more often than it
timed out is a count (`RunsCounted`): the requests of a call on the wires and its executions are together at most the attempts given up, and one more
while an attempt is under way that has not been refused. A timeout moves one from the second to the first; a session that serves
a request moves one from the wire to the executions; a break only loses requests.

**Only model-checked.** Liveness (`DependentsReleased`, `QueuedJobsSettle`, `ParentReleased`, `CallsReturn`, `TakenJobsSettle`, `StartsAgain`), which is out of
the prover's reach. Every safety property of the passing runs is a theorem.

## 6. What is not modelled

* Data no property tells apart: payloads, results beyond their presence, progress, tags, timestamps.
* `update`, progress and logs: they change data of a job in place. `change_priority` is modelled in the heap only.
* debouncing in push, progress of jobs, registered workers, runtime settings.
* server management on the containers of jobs: `clear_all_queues`, `clear_all_dlq`, `clear_completed_jobs`, `run_cleanup` and `reset` of `settings.rs` empty containers, or drop a part of the
  index, for all queues at once, without regard to resources and running jobs. They are in no run of `JobLifecycle`, and its theorems do not speak of them; nor is what `reset` does to webhooks, results
  and keys. What they do to gauges, settings, cron jobs and custom ids is in `Metrics`, `QueueConfig`, `Cron` and `PushIds`.
* of persistence: batch calls as single operations of the writer, and the direct deletes of purge, drain, obliterate
  and clean, which a queued insertion of a job they removed may undo; promote, change_priority; expired
  jobs (pull drops them, their rows stay); parents of flows (never recovered); webhooks (never stored);
  loss of what SQLite has committed (the writer sets `synchronous = OFF`, so a crash of the machine, other than one of the
  process, may lose more).
* the sweep of stale index entries and the cleanup of retention data: the sweep takes a busy lock for an empty container
  (`background/cleanup.rs:72`), and no statement about the index survives it.
* snapshots: `record_change` (`manager.rs:365`) is called nowhere, so none is ever due.
* what a copy of a database under write contains (`sqlite/backup.rs` copies the main file without its log); uploads of another schema; a clock set back while backups are made, as keys are named by it.
* of the client: a write dropped in the middle of a frame larger than its buffer of 8 KiB, which leaves half a frame on the wire; `pool.close` with calls in flight.
* server-sent events and the subscribers of queues; the unary calls of gRPC and the HTTP handlers, each of which decodes a request, makes
  the call modelled here, and encodes the answer; validation; the wire formats; the typed methods of the SDKs; other clients, dashboard, MCP server.

## 7. What could come next

In the order in which it is worth doing.

| Module | Would add | Properties | Theorems |
|---|---|---|---|
| `PushIds` | debouncing, several ids | one live job per id outside the named windows | `CustomIdsExclusive` of several ids |
| `JobLifecycle` | the calls of `settings.rs` that clear containers | which of the invariants survive a clear | the present theorems with these |
| `Persistence` | batch calls, purge, drain, obliterate and clean against queued insertions | a deleted job does not come back | `RowsAlwaysMatch` with these |
| `Cron` | several names in one instance; executions in the rows | | |
