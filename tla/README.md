# agent_scheduler — TLA+ models, checks and proofs

The agent scheduler keeps schedules, bindings and (legacy) jobs in Redis, lets an
embedded Taskiq scheduler and worker fire them, and publishes one envelope per fire
onto the Valkey bus. An admin REST API, an ingress loop on a control stream, a web UI
and two SDKs change what is registered. This directory models that system from its
source (`src/agent_scheduler/*.py`, written `tasks.py`, `api.py`, ... below).

## 1. Inventory

| part | state it keeps | operations | interacts through | hard because |
|---|---|---|---|---|
| **fire path** (`tasks.py` `emit_trigger`, `_dedupe_first_fire`; the Taskiq broker and worker it runs on) | broker stream and pending list, dedupe keys with TTL, the locals of each running task | deliver, read bindings, claim (SET NX EX), publish, raise, ack, redeliver | broker stream, registry (reads bindings), bus | several tasks on one event loop, at-least-once delivery, double sends, TTLs against a minute clock, crashes |
| **schedule source** (`tasks.py` `RegistryScheduleSource`) | none of its own; the scheduler caches its result for a poll interval | `get_schedules` | registry (two reads), scheduler | two non-atomic reads; the cache is stale |
| **registry** (`registry.py`) | three Redis hashes: jobs, schedules, bindings | get/put/list/exists/delete per hash, each one Redis command | everything | only single commands are atomic |
| **admin API** (`api.py` routes) | none; the locals of each running handler | CRUD and lifecycle of jobs, schedules, bindings; run-now; migration; health | registry, emitter | every handler is read-check-write over several awaits |
| **ingress** (`ingress.py`, `bus_consumer.py`) | control stream, its consumer group's pending list, DLQ | read a batch, handle, dead-letter, ack, reclaim at startup | registry, bus | at-least-once delivery, replays, cancellation, crash |
| **emitter** (`emitter.py`, `bus_client.py`) | shared publisher, `sid:<cid>` counters, the active-streams set | connect, emit (INCR, EXPIRE, SADD, XADD), deregister | bus | four bus commands, any of which may fail |
| **lifespan** (`api.py` `lifespan`) | connections, background tasks | start and stop in order | all of the above | partial start, failing background tasks |
| **triggers and views** (`models.py`) | none | validation, next run time, views, migration mapping | API, ingress, source | interval arithmetic, defaults |
| **health** (`api.py`) | none | three probes and an answer | registry, emitter | a probe that raises |
| **admin UI** (`frontend/app.js`) | the form's mode, the job table | submit, edit, duplicate, row actions, polling | API over fetch | overlapping requests |
| SDKs (`sdk/`) | none | one REST call per method | API | — |
| `envelope.py`, `config.py`, `app.py`, tombstones `scheduler.py`, `executor.py` | constants | — | — | — |

What makes each part correct:

* fire path — a fire is published at most once per (unit, producer, minute) whatever is
  sent or delivered twice; nothing is lost unless something failed; one binding's fire
  never suppresses another's; every kick is eventually run.
* registry and API — no handler's answer is a lie about what it did; a deleted schedule
  leaves no bindings behind; a concurrent update is not silently undone.
* ingress — every request is handled or dead-lettered before it is acked, and replays
  change nothing.
* schedule source and migration — a unit registered throughout a poll is in its list,
  once; what a client asked for is what is registered, as a job or as a schedule, and
  in the end what fires.
* emitter — nothing is published under a counter without TTL; a stream in use is in the
  active set.
* lifespan — every task finds its connections for as long as it runs; nothing slips past
  the dedupe guard while things close; starts and stops end, and a clean stop closes all.

## 2. Modules

| module | what it is |
|---|---|
| `FirePath` | broker stream, worker, `emit_trigger`, dedupe keys; detailed model |
| `FireOnce` | the promise of the dedupe guard: per key, free → claimed → published, or closed |
| `FirePathProofs` | theorems about `FirePath` |
| `FireOnceProofs` | `FirePath` implements `FireOnce` |
| `Ingress` | the control stream, its consumer group and the ingress task |
| `IngressProofs` | theorems about `Ingress` |
| `RegistryApi` | the handlers that write schedules and bindings, one await a step |
| `RegistryPromise` | the promise of those handlers: a request that overlaps no other is one atomic operation |
| `RegistryApiProofs` | theorems about `RegistryApi` |
| `RegistryRefinement` | `RegistryApi` implements `RegistryPromise` |
| `Triggers` | the triggers the API accepts and those Taskiq can be given: pure operators |
| `JobFacade` | the job routes, the migration and the poll, over jobs and schedules |
| `JobFacadeProofs` | theorems about `JobFacade` |
| `Service` | start and stop of the process, and the emissions that run meanwhile |
| `ServiceProofs` | theorems about `Service` |
| `MCFirePath`, `MCIngress`, `MCRegistryApi`, `MCJobFacade`, `MCService` | instances for TLC: ids, payloads, requests, symmetry |

Definitions whose comment begins with "mutant" are plausible slips in the code (a dropped
guard, a missing ack); no action uses them. They show that the property they are written
for can fail.

### 2.1 FirePath

State: the clock `now`; `bound`, the bindings hash as far as the fan-out reads it;
`expires`, the dedupe keys in Redis; `stream`, `lastId`, `pending`, the broker's Redis
stream and consumer group; `task`, the locals of each running `emit_trigger`; `up`.
`log`, `again` and `won` are history: what was published, what twice, and which fires
claimed their key.

| action | code |
|---|---|
| `Kick` | the scheduler sends a due unit; nothing keeps it from sending one twice (tasks.py:80) |
| `Deliver`, `Redeliver` | the broker hands a message to the worker, or claims a pending one again; `Begin` captures the minute (tasks.py:81) |
| `ReadBindings` | `registry.bindings_for`, once (tasks.py:85); an empty set ends the task |
| `Claim`, `SkipDuplicate`, `FailOpen` | the outcomes of `_dedupe_first_fire` (tasks.py:32-45): won, already claimed, or the SET raised, applied or not |
| `Emit`, `Raise` | `emit_scheduled_event` returns, or raises and ends the task with the rest of the fan-out (tasks.py:98, 115) |
| `Ack` | the receiver acks when the task has returned or raised |
| `Crash`, `Restart` | the process and every task in it; Redis keeps the rest |
| `SetBinding` | the API, the ingress or a migration changes a binding |
| `Tick` | the clock; it may not outrun a task that still has a SET to send by more than `MaxLag` |

Ids are sequences of ':'-separated segments, since the id pattern allows ':' (models.py:35)
and the key is what the f-string makes of them (tasks.py:94, 112). The fan-out's order is
left open: it is the order of a Redis hash.

Abstracted: what an envelope carries; the four bus commands of one emit, which come as
one step that may also raise before or after its effect; the scheduler's decision of what
is due: any unit may be kicked at any time, which covers every trigger, a stale poll and
a double send.

### 2.2 Ingress

State: `stream` and `trimmed`, the control stream; `lastId`, `pending`, `idle`, its
consumer group; `dlq`; `pc`, `startup`, `bad`, `batch`, the task's position and what it
holds; `sched` and `bind`, the registry, whose values are the stream ids of the requests
that wrote them. `passed` (entries left pending when the task took newer ones) and `done`
(what was done for each entry) are history.

| action | code |
|---|---|
| `Start` | the lifespan creates the task (api.py:80-101), which begins with the reclaim |
| `Reclaim`, `Read` | XAUTOCLAIM, once, the lowest idle entries up to the count (bus_consumer.py:179); XREADGROUP of the next ones (:141). `Receive` splits them into deliveries and unusable entries |
| `ReplyLost` | either of the two, carried out by the server but raised: the entries are pending, not idle and in nobody's hands (ingress.py:130-145) |
| `ScanPoison`, `ScanAck`, `ScanFails` | the scan of what was read: poison to the DLQ, then acked; a trimmed entry acked; a call that raises forgets the deliveries (bus_consumer.py:149-160, 185-196; ingress.py:132, 142) |
| `Ignore`, `Reject`, `Exists`, `PutSchedule`, `PutBinding` | `handle_request` (ingress.py:34-79) |
| `HandlerFails` | an exception in the handler is logged, and the entry acked (ingress.py:96-99) |
| `Ack`, `AckFails` | the ack in the `finally`; if it raises, the reclaim's `except` catches it, the tail's does not: the task ends (ingress.py:126-147) |
| `AckReplyLost` | this ack, or one of the scan, raised though the server carried it out (ingress.py:98-99, 121-146) |
| `Shutdown`, `LastAck` | the lifespan cancels the task (api.py:114); in a handler the `finally` still acks, and that ack may raise too |
| `Publish`, `Trim`, `ApiDelete`, `GrowIdle`, `Crash` | the environment |

A call that raised may have taken effect on the server. For the two calls that deliver
entries that is `ReplyLost`, for an ack `AckReplyLost`. For the others it is a step of the
call followed by a failing one, which leave the same state: `PutSchedule` and
`HandlerFails`, `ScanPoison` and `ScanFails`. For the handler's last call, the binding's
put or a dead-letter, the step alone is enough: the entry is acked next either way.

Abstracted: entry ids are 1, 2, 3, ...; `idle` is a set and not a number of milliseconds,
and grows only while the process is down, because only the reclaim at the next start looks
at it; each schedule has one binding, the default `<schedule_id>:b0`
(models.py:447).

### 2.3 RegistryApi

State: the two hashes `schedules` and `bindings`, and one record per running handler, `h`:
its position, its request, the copy it has read, the bindings it has listed and the ones it
has yet to drop. `raced` (the schedules touched by a delete and a request that overlapped
it), `met` (those touched by any requests that overlapped, since nothing was running last)
and `failures` are history.

Each action is one Redis command of a handler with the code up to the next await:
`CheckNew` (api.py:238), `GetSchedule` (:220), `PutSchedule` (registry.py:90),
`ListBindings`, `Cascade`, `DeleteSchedule` (api.py:278-280), `CheckNewBinding` (:334),
`GetBinding` (:318), `PutBinding` (registry.py:118), `DeleteBinding` (api.py:372). `Begin`
is a request's arrival, `Fail` a command that raises: the client gets a 500, the steps
already taken stay. The bus' upsert (`bus`, `busNew` for replace=false) is a handler among
the others.

`Asked` is the set of requests the instance makes. Nothing keeps the handlers apart, as
nothing in the code does. `RegistryPromise` says what is left: a request that overlaps no
other takes effect at once, on what is there and as it asks, or is refused for the reason
the API names, or a call it makes raises; requests that overlap contest the schedules they
touch, and may do anything to those and nothing to any other (`Clash`), until no request is
pending. `KeepsPromise` is that `RegistryApi` implements it, with the bindings as `Shown`:
those that a delete has dropped on its way count as there until its schedule goes or its
handler fails, if nobody contests the schedule. The bus' upsert is two requests in a row,
of which the second adds the binding (`Pending`). A reader in the middle of a cascade does
see some of the bindings gone: the promise is about what a request leaves behind.

A command that was applied and then raised is its own step followed by a `Fail` of the
handler's next one. If it was the handler's last, the request has taken effect and the
client gets a 500 all the same: a step of the promise is a request that takes effect, not
one that is answered with success.

Abstracted: an id, a trigger and a payload are model values, `Bad` an invalid trigger and
`Keep` a field the request leaves out. `run_schedule` and the GET routes write nothing to
the registry and have no action.

### 2.4 JobFacade and Triggers

State: the hashes `jobs` and `schedules`, and `bindings`, the ids whose schedule has a
binding; `half`, the upserts and deletes of schedules between their two writes; `h`, the
locals of each running handler; `phase` and `snap`, whether `get_schedules` is between its
reads and what the first one returned; `list`, what the scheduler works on. `wanted` (what
the requests that took effect last asked of a unit, whatever their answer), `excused`
(units the code loses track of), `bare` (units whose schedule a route or the bus left
without a binding) and `steady` (what a unit has been since the poll began) are history.

| action | code |
|---|---|
| `Begin`, `Exists`, `Get`, `Put`, `Del` | the job routes, up to each await (api.py:139-209); `Refused` and `Valid` are their 422s |
| `ListJobs`, `MigrateSchedule`, `MigrateBinding`, `MigrateDrop` | the migration: one read, then for each job two puts and, if asked, a delete (api.py:384-389, models.py:456-476) |
| `CreateSchedule`, `UpdateSchedule`, `SetPaused`, `Bind`, `Unbind` | the schedule and binding routes (api.py:232-373); a schedule is created without a binding, and its last binding may be deleted |
| `Register`, `RegisterBinding` | the bus' upsert, its two puts (ingress.py:77-78) |
| `Cascade`, `Cancel` | delete_schedule: the bindings, then the schedule (api.py:274-281) |
| `PollSchedules`, `PollJobs`, `PollFails` | the two reads of `get_schedules` (tasks.py:145, 156), and one that raises |
| `Fail`, `HalfFails` | a call that raises, or the process dying: for this module the same, as what a handler or a poll holds in memory is gone in both |

A unit is an id, which may be a job, a schedule or both: that is what a migration that
keeps the jobs makes of it, and a schedule shadows the job of its name (tasks.py:157).
Triggers are not model values here: `Triggers` has the arithmetic of intervals, in which
negative parts count (models.py:227), so that a PATCH of half a trigger, or a sum below a
second, is refused by what the code computes and not by fiat.

Abstracted: the payload; how many bindings a schedule has; what a schedule route reads and
its first write, which come at once, and the bindings of a cascade, which go at once: the
steps between them are `RegistryApi`'s. An HSET or HDEL that was applied and then raised is
the applied `Put` or `Del`, whose handler answers nothing in the model either; so is a
delete whose withdrawal of the stream raised after the HDEL (api.py:191-192), a call that is
`Service`'s.

### 2.5 Service

State: `phase` and `at`, how far the lifespan has come; `tries`, its attempts to reach the
bus; `open`, the resources; `bg`, the background tasks; `pc`, each piece of work: tasks of
the worker, run-now and delete requests; `entries`, `active` and `bare`, what is on the
bus: the published entries, the active-streams set and the counters without TTL.
`unguarded`, `dropped` and `blamed` are history.

| action | code |
|---|---|
| `Launch`, `Open`, `Retry`, `StartFails` | registry, publisher, broker, worker and scheduler, consumer, group, ingress, in that order (api.py:65-101); the bus is tried `connect_retries` times (bus_client.py:58-76); nothing a failing start has opened is closed |
| `Stop`, `TaskEnds`, `TaskDies`, `Await`, `Close`, `CloseFails` | api.py:111-126: cancel all, await each, close one by one; an exception other than the cancellation ends it there |
| `Receive`, `Guard` | a task starts and asks the dedupe guard, which opens when the registry is closed (tasks.py:32-45, registry.py:45) |
| `RunNow` | run-now, without the guard (api.py:211-216) |
| `Command`, `CommandRaises` | INCR, EXPIRE, SADD, XADD (emitter.py:89-118), each of which may raise, applied or not, and raises when the publisher is closed |
| `Find`, `Delete`, `DeleteRaises`, `Withdraw`, `DeleteStream`, `WithdrawRaises` | the end of a job and of the stream it derives (api.py:185-193, emitter.py:135-146) |
| `Exit`, `Crash` | the process ends, or dies: counters, streams and the registry persist |

uvicorn lets the requests finish before it stops the lifespan; taskiq's receiver may leave
the tasks it is executing alone when it is cancelled, so a task may outlive its worker and
meet closed connections. Both are external.

Abstracted: a task is that of a welded job, and whether the guard finds its key is left
open: both are `FirePath`'s. The flags that leave parts of the service out are set as
deployed.

### 2.6 What is external

Three things the code relies on and that are not in it are modelled from how it uses them:
Taskiq's scheduler and receiver (taskiq 0.12.4), its Redis stream broker
(taskiq-redis 1.2.3: XREADGROUP, ack when executed, XAUTOCLAIM of idle messages) and Redis
and Valkey themselves, whose commands are atomic. The map marks them as external.

## 3. Runs

A run passes when TLC exhausts its state space and finds every property true. Runs marked
✗ refute a sentence of the documentation or of a comment; see section 5.

| run | question | properties | bounds |
|---|---|---|---|
| `fire_faults` | Does the guard hold with a fault of each kind? | `TypeOK` `AtMostOnce` `NothingLost` `FiresOnce` | 1 schedule, 1 binding that comes and goes, 2 kicks, 3 minutes, a crash, a raising call, a dedupe glitch |
| `fire_fanout` | Is each binding deduped by itself, and does every kick finish? | `IndependentDedupe` `EveryKickFinishes` | 1 schedule and 1 job, 2 bindings that come and go, 2 kicks, 2 crashes, a raising call, one minute |
| `fire_redelivery` ✗ | Once per minute, redelivery included? | `OncePerDueMinute` | one kick, one crash |
| `fire_subminute` ✗ | Does every due instant of an interval fire? | `EveryDueInstantFires` | half-minute ticks, one minute, two kicks, no fault |
| `ingress_faults` | What can a fault cost, and what can it undo? | `HandledBeforeAck` `OnlyPassedOverwrite` | 3 entries of 5 kinds, batches of 2, a crash, a shutdown, a failing call, a trim; restarts at any time |
| `ingress_restarts` | Are replays safe, and is everything handled in the end? | `TypeOK` `NoHalfRegistration` `NewestWins` `EveryEntryAcked` | 3 entries of 4 kinds (requests replace), 2 crashes, restarts after the idle time |
| `ingress_quick` ✗ | Handled in the end after a quick restart as well? | `EveryEntryAcked` | one request, one crash |
| `registry` | What do the handlers keep beside each other, and what does an overlap break? | `TypeOK` `OnlyRacesOrphan` `OnlyRacesRevive` `KeepsPromise` | 2 schedules, 2 bindings, 2 handlers at once, every kind of request, a failing call |
| `jobs_facade` | Is what clients asked of a unit what fires, migrated or not? | `TypeOK` `OncePerPoll` `RegistryObeys` `MutedKeepsJob` `PollIsFaithful` | 1 unit that may be job, schedule or both, a client with every job request, another who pauses and migrates, the schedule routes and the bus, one of them between two writes, polls, a call that raises |
| `jobs_catch_up` | Does the poll come to list what was asked? | `PollCatchesUp` | the same with a client who creates, pauses, resumes and deletes beside one who migrates |
| `jobs_pause` ✗ | Is a paused job silent, migrated too? | `PausedGoesQuiet` | 1 unit, 1 handler, no fault |
| `service` | Does the process start, stop and emit in order? | `TypeOK` `TasksFindConnections` `ClosedGuardPublishesNothing` `PublishedCountersExpire` `StreamsAreListed` `StopsClean` `StartSettles` `StopSettles` | 3 jobs with crossing streams, a task, a run-now and two deletes; 2 attempts to connect, 2 lives, 2 failing calls |

Why these bounds suffice. A double send takes two messages, and the guard only ever
compares two tasks; a third one meets the same key in the same states. Three minutes let a
task claim, its key expire and another ask again. Two bindings are the least that make a
fan-out with a rest to lose. Three entries in batches of two give a batch, a rest, and a
newer request beside a replayed one; a second crash interrupts the replay. Two handlers
show every pairwise race, and the handlers share nothing but the hashes; with one trigger
and one datum a PATCH that gives none writes what one does that gives it, and is left out;
no schedule is created paused. One unit is
enough in `jobs_facade`, since no step of a handler or of a poll reads one unit to decide
on another: the migration's loop meets its other jobs as requests of the second handler. One
schedule route at a time is between two writes (`MaxHalf`), beside two job handlers. Liveness
there has a run of its own, with fewer requests.
Two lives let what the first left on the bus meet the second; with two failing calls a
stop can go wrong twice, a task dying and a close raising. Every bound
on the environment (clock, messages, entries, faults) is a constant named `Max...`, in the
guard of the action it bounds. `CHECK_DEADLOCK FALSE` stands in the ingress runs, where the
tail blocks on an empty stream, so that when the bounded environment has nothing left to
do the system rightly stops, and in `service`, whose process stays down after its last
life.

The properties:

* `AtMostOnce` — two guarded envelopes never carry the same key. `FiresOnce` — the same
  as a refinement: who claims a key is the only one to publish it, once; a claim that a
  fault cut short stays closed. `NothingLost` — without crash or failure, an acked message
  has all its fires published, or in the hands of the duplicate that won them; a dedupe
  glitch loses nothing.
* `IndependentDedupe` — a producer is skipped for an earlier claim of its own only.
* `EveryKickFinishes` — every kick is run and acked, whatever crashes.
* `HandledBeforeAck` — the acked entries that nothing disposed of are at most as many as
  the failed calls and shutdowns: a crash loses nothing, a failure never a whole batch.
* `NoHalfRegistration` — an acked request that wrote its schedule wrote its binding.
* `OnlyPassedOverwrite` — with every fault, and however soon the process is back, a request
  overwrites what a newer one registered only if it was left pending when the task took
  newer entries: by a claim that came before it was idle or took too few, or a call that
  raised. The order in which a batch is handled and a replay is claimed does no harm.
* `NewestWins` — no replay overwrites what a newer request registered, if all restarts are
  patient and no call fails. docker-compose.yml restarts at once (`restart:
  unless-stopped`), so this holds of a deployment that waits, not of the one in the
  repository.
* `EveryEntryAcked` — every entry is acked in the end.
* `KeepsPromise` — the handlers implement `RegistryPromise`: a request that overlaps no
  other is one atomic operation, and a delete cut short in its cascade has deleted some of
  its bindings and nothing else; together, they change only the schedules they contest.
* `OnlyRacesOrphan`, `OnlyRacesRevive` — a binding is orphaned and a deleted schedule comes
  back only by a delete that overlaps a request on the same ids; a failure in mid-cascade, a
  binding moved over the bus and any other overlap are harmless. The overlaps they name do
  happen in the code: nothing excludes them.
* `OncePerPoll` — no unit is in the poll's list as a job and as a schedule.
  `PollIsFaithful` — a unit that kept its standing from the poll's first read to its
  second is listed exactly if it is on, whatever was done to it before and to others
  meanwhile. A unit the migration moves between the reads is missed once;
  `PollCatchesUp` — a unit left alone is in the end listed, or not, as its clients asked.
* `RegistryObeys` — what the requests that took effect last asked for is what is
  registered, with four exceptions that are the code's: overlapping requests on a unit, a
  request about a job that a schedule shadows, the deletion of that schedule (the job comes
  back), and a migration over a schedule changed since. The run shows that there is no
  fifth.
* `MutedKeepsJob` — a schedule without binding fires nothing and shadows its job. Some are
  meant so: a schedule just created, one whose last binding was deleted, an upsert or a
  cascade that was cut short (`bare`). Any other is a migration's, in progress or cut short,
  and then its job is still there to migrate again, also when several migrations run and
  drop the jobs at once.
* `TasksFindConnections` — no background task runs on a resource that is not open.
* `ClosedGuardPublishesNothing` — the guard fails open when its store does, and a closed
  registry is such a failure: a task that outlives its worker is only kept from
  publishing twice by the publisher being closed first.
* `PublishedCountersExpire`, `StreamsAreListed` — the order of the four commands: no entry
  under a counter that never expires, none on a stream nobody can discover, unless the
  job the stream is derived from has been deleted since.
* `StopsClean`, `StartSettles`, `StopSettles` — a stop leaves something open only for a
  close that raised or a task that had died, whatever failed in the work itself; both ends
  of the lifespan come to theirs.

Fairness. `FirePath!FairSpec` asks for weak fairness of delivery, redelivery, each task's
steps and the restart: the event loop runs every ready coroutine, the worker's listen loop
polls for as long as it lives, and docker-compose.yml restarts the container. Kicks,
faults, the clock and the registry's writers are free. `Ingress!FairSpec` asks it of the
task's own steps, of the start and of time passing, for the same reasons; faults are
finitely many. `JobFacade!FairSpec` asks it of the poll's two reads: the scheduler polls
every update_interval. `Service!FairSpec` asks it of the lifespan's steps, each of which
returns or raises, and of the end of a cancelled task, since no coroutine in the code
swallows a cancellation; nothing makes the process launch, stop or crash.

## 4. Proofs

`tlapm` checks these for all values of the constants, any number of messages, entries,
schedules, bindings, units, handlers, lives of the process, failing calls and crashes.

| theorem | statement |
|---|---|
| `FirePathProofs!TypeCorrect` | `Spec => []TypeOK` |
| `FirePathProofs!FiresAtMostOnce` | `Timely => (Spec => []AtMostOnce)` |
| `FirePathProofs!DedupesIndependently` | `DistinctNames => (Spec => IndependentDedupe)` |
| `FirePathProofs!LosesNothing` | `DistinctNames => (Spec => NothingLost)` |
| `FireOnceProofs!KeepsFireOnce` | `Timely => (Spec => FiresOnce)`: `FirePath` implements `FireOnce` |
| `IngressProofs!TypeCorrect` | `Spec => []TypeOK` |
| `IngressProofs!HandledFirst` | `Spec => []HandledBeforeAck` |
| `IngressProofs!RegistersWhole` | `AllReplace => (Spec => []NoHalfRegistration)` |
| `IngressProofs!OnlyPassed` | `Spec => OnlyPassedOverwrite` |
| `RegistryApiProofs!TypeCorrect` | `Spec => []TypeOK` |
| `RegistryApiProofs!RacesAloneOrphan` | `Spec => []OnlyRacesOrphan` |
| `RegistryApiProofs!RacesAloneRevive` | `Spec => OnlyRacesRevive` |
| `RegistryRefinement!HandlersKeepPromise` | `Spec => KeepsPromise`: `RegistryApi` implements `RegistryPromise` |
| `JobFacadeProofs!TypeCorrect` | `Spec => []TypeOK` |
| `JobFacadeProofs!NoDuplicates` | `Spec => []OncePerPoll` |
| `JobFacadeProofs!PollTellsTheTruth` | `Spec => PollIsFaithful` |
| `JobFacadeProofs!MutedIsMendable` | `Spec => []MutedKeepsJob` |
| `JobFacadeProofs!RegistryDoesAsAsked` | `Spec => []RegistryObeys` |
| `ServiceProofs!TypeCorrect` | `Spec => []TypeOK` |
| `ServiceProofs!TasksAreServed` | `Spec => []TasksFindConnections` |
| `ServiceProofs!ClosedGuardHolds` | `Spec => []ClosedGuardPublishesNothing` |
| `ServiceProofs!CountersExpire` | `Spec => []PublishedCountersExpire` |
| `ServiceProofs!EntriesAreListed` | `Spec => []StreamsAreListed` |
| `ServiceProofs!StopsAreClean` | `Spec => []StopsClean` |

Assumptions. `Timely`: `DedupeTtl >= TicksPerMinute + MaxLag`, a claim outlives every task
that can still ask for its key. With DEDUPE_TTL_S = 120 it says that no task takes longer
than a minute from its start to its last SET; nothing in the code enforces that, and the
constant `MaxLag` states it. `DistinctNames`: no two fires share a key name, which ids that
contain the ':' that joins them can break (section 5). `AllReplace`: every request has
replace = true, the default; section 5 says what happens otherwise. The theorems on the
registry, the jobs, the process and the order of replays need none of this: they hold of
every interleaving, failure and restart of their module. Each module also assumes the types
of its constants, that the values that stand for nothing are none of the others, and
`Service` that a connection is tried at least once (ConnectRetries > 0).

Arguments. *At most once* is not inductive: that two envelopes differ says nothing of a
task that is about to publish a third. The invariant in `FirePathProofs` (`IInv`) adds that a task
about to publish under a guarded claim is the only holder of its key, that no envelope
with that key is out yet (`HoldersOK`), and that every holder and every guarded envelope
has its key on record (`ClaimedOK`). A claim is made no earlier than its minute
(`AgeOK`) and a task asks no later than `MaxLag` after its start (`CallsOK`), so under
`Timely` a key on record is still live whenever anyone asks for it, and NX refuses. *Handled first* counts,
beside the lost entries, the one at hand when an ack is due and nothing has disposed of it
(`AtRisk`), and says that poison is in the DLQ before its ack: each step then dooms
nothing, or one entry for one fault. *Whole registrations* adds that a handler past its
first write goes on to the second, and that no request asks before it writes, which is
where `AllReplace` is used. The types need `HeldOK` in `Ingress`: what the task holds is
pending, held once, and not idle.

The invariant of `ServiceProofs` has two halves. `LifespanInv` says which resources are
open at each point of a start and of a stop (`OpenBefore`, `LeftOpen`), that the closes
wait for every task to have ended, and that a process which is down, or has yet to open
its registry, has no work under way. `EmissionInv` follows the four commands: past its
EXPIRE a counter has a TTL, past its SADD a stream is listed, and since a piece of work is
done once it has published, one that is not done has published nothing with its counter
(`FreshOK`). *The closed guard* needs both: a guard meets a closed registry only
after the stop (`UnguardedOK`), when the publisher is closed too, so that no fire it let
through can reach the XADD, in this life or, with a new counter, in the next.

*Nothing lost* (`LossFree`, `FirePathProofs`). A fire that is skipped is skipped for
one that had won its key, so the invariant must say of every won fire, in whichever task,
that it is published or in flight, and of every task that what it has read is still to do,
published or in flight. That the winner of a live key is the same fire is
`OwnDuplicate`, where `DistinctNames` is used. *The refinement of `FireOnce`* reads the
phase of a key off `IInv`: at most one holder, at most one guarded envelope and never both,
so "repeated" does not occur (`PhaseIs`); `FreshKey` is why a claim finds its key free and
not merely expired. A crash is a `Drop` of every key held, a raise of the one its task
holds, a SET that was applied and raised a `Forfeit`.

*Only what was passed* (`OrderOK`, `IngressProofs`). No schedule holds a request newer than
one that is pending and not passed, and such a one is in hand or newer than all in hand. A
read takes what is newer than anything pending and passes the rest; a claim takes the lowest
of the idle entries and passes what is older and not idle yet; a batch is handled from its
lowest on. No patience of restarts and no success of calls is needed.

The invariant of `RegistryApiProofs` follows a delete through its steps: a handler that has
found its schedule still has one, or has raced (`FoundStays`), and a cascade has every
binding of its schedule in hand, or has raced (`CascadeWhole`). Neither is so of a single
step: the first is broken by any other delete and the second by any put of a binding, and
`OverlapsRaced` is what charges them for it. `RegistryRefinement` adds the same for `met`:
two handlers that touch a common schedule have met there (`NearMet`), so that off the met
schedules what a handler has read is still what is there when it writes (`Fresh`) and the
bindings it lists are all there are (`ListedOK`). A delete then happens when its schedule
goes: until then the bindings it has dropped count as there (`Shown`), and if it fails on the
way they go at once, with the `Fault`.

`JobFacadeProofs` has one invariant for each question. What the poll has read of a unit that
kept its standing is what the unit is (`PollOK`): a step that changes a unit between the two
reads either leaves its standing alone or marks it. `ObeyInv` relates what requests asked
for to what is registered: where two handlers touch a unit it is excused (`OverlapsExcused`), and
on any other a handler holds what is there (`HeldOK`), so that its put changes only what it
was asked to. A schedule without a binding and without its job is owned up to, excused, or
between two writes (`MutedOK`): a migration drops a job only when it has bound the schedule,
or somebody else has since unbound it, who is charged for it. The types need `Good`: a
trigger that is read, merged and validated, or copied by a migration, is one that the API
accepts.

Each of these invariants was checked by TLC on the instances of section 3 before it was
proved. Checked on the instances only: liveness (`EveryKickFinishes`, `EveryEntryAcked`,
`PollCatchesUp`, `StartSettles`, `StopSettles`), which is out of the prover's reach (fairness
and ENABLED), `NewestWins`, and the four runs that refute a document.

## 5. What the documents say and the code does not

1. `fire_redelivery` — taskiq_migration_plan.md:80-81 has the guard make each (job,
   minute) fire exactly once "regardless of double-send/redelivery". The minute is the one
   the task starts in: after a crash between publish and ack, the redelivery in a later
   minute publishes again.
2. `fire_subminute` — "Emit a liveness tick every 30 seconds" (use_cases.md:40). The key
   knows the minute only: of all the kicks of an interval within a minute the first alone
   is published.
3. `jobs_pause` — "Pause (stop firing, keep definition)"
   (interface_specification.md:92). After a migration that kept the jobs, pausing the job
   answers 200 and the schedule of the same id fires on.
4. `ingress_quick` — "Startup crash-recovery: re-handle entries this consumer group left
   pending" (ingress.py:121). Not those delivered less than 60 s before the restart, and
   there is no second look.

Met while modelling, and not among the runs:

* "crash-recovery replays are safe" (ingress.py:5-7): with replace=false, a crash between
  the two writes leaves a schedule that never gets its binding, as its own replay takes it
  for someone else's. `RegistersWhole` is proved from `AllReplace`.
* "Each binding is deduped independently per (schedule, binding, minute)"
  (tasks.py:75-76), but ids may contain the ':' that joins them (models.py:35): binding
  `b:c` of schedule `a` and binding `c` of schedule `a:b` share a key, and one's fire is
  skipped for the other's. With `Schedules = {<<"a">>, <<"a", "b">>}` and `Bindings =
  {<<"b", "c">>, <<"c">>}` TLC finds `IndependentDedupe` violated; the runs have no such
  ids, and `DedupesIndependently` is proved from `DistinctNames`, which says there are none.
* "Cascade: drop the schedule's bindings too (they are meaningless orphaned)"
  (api.py:277): a binding put between the listing and the delete is orphaned.
  `OnlyRacesOrphan` shows that nothing else orphans one.
* "Idempotent migration" (api.py:379): a second run over kept jobs writes the job's old
  record over its schedule, and undoes a pause or an update made since. "Faithfully split"
  (models.py:457): a job without target fires onto `stream:<job_id>`, and after its
  migration onto `stream:<job_id>:b0`, the id of the binding; and its dedupe key changes,
  so a fire in the minute of the migration may go out under both.
* A binding without target is shown with the stream of its schedule (models.py:379-387),
  but the fire path resolves it from the binding's id.
* "unique to this job" (api.py:189): another job may target the id of the deleted one, and
  its stream is then out of the active set until its next fire.
* "a partial failure can't orphan a no-TTL key" (technical_architecture.md:248): a crash,
  or an EXPIRE that raises, after the INCR does. `PublishedCountersExpire` is what is
  left of it.
* `GET /health` is documented to answer 503 (interface_specification.md:95): with Redis
  down `registry.ping` raises outside the `try`, and the answer is 500. It says nothing of
  the background tasks, so it stays ok after the scheduler or the ingress has died.
* An interval whose seconds overflow a `timedelta` is accepted and stored, and from then
  on `GET /jobs` raises for all jobs (models.py:333).
* A shutdown in the middle of an ingress handler acks its request without registering it
  (the one entry `HandledBeforeAck` allows); an ack that raises in the tail ends the
  ingress task for the life of the process (`AckFails`, pc "dead"); after two quick
  restarts, or a read whose reply was lost, a replay may overwrite a newer request: this is
  why `NewestWins` is checked with patient restarts and without failing calls, and
  `OnlyPassedOverwrite` is what holds of all.

## 6. Limits

* One process and one consumer per group, as docker-compose.yml deploys it.
* `FirePath` does not hold the scheduler's poll; any unit may be kicked at any time, which
  covers every list `JobFacade` can produce. `RegistryApi` has the schedule routes in
  steps and `JobFacade` has only what lies between their writes: an overlap of a job route
  with a schedule route that has read and not yet written is in neither.
* `KeepsPromise` and `OnlyRaces...` say of overlapping requests only how far their damage
  can reach. Two creates of an id that both answer 201, or an update that takes back a
  pause, are what the code does.
* `JobFacade` runs on one unit, with no more than two handlers.

Not modelled: the views and next run times, computed for an answer and read by nobody in
the service; `health`, which changes nothing; the web UI, a state machine of its own
(overlapping requests against the form's mode); the SDKs, which keep no state;
`envelope.py`, a format; `config.py`, constants; `app.py`, the entry point; `scheduler.py`
and `executor.py`, empty tombstones; the flags that switch parts of the service off.

## 7. Plan

1. Proofs: a bound on what a failing call can cost a fan-out, where `NothingLost` now asks
   for none; `FireOnce` per producer and minute under `DistinctNames`, as its consumers see
   it.
2. `AdminUi` — the form's mode against overlapping requests.
3. Compositions: registry, poll and fire path (a deleted schedule is silent after a
   poll); registry and ingress in one module.
