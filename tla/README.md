# Verification of Metlo

TLA+ models of the Metlo API security platform (the TypeScript backend, the
agents that report API calls to it), the TLC runs that check them on small
instances, and TLAPS proofs of the results that matter most.

    tlc -config pipeline_race.cfg MCTracePipeline.tla
    tlapm TracePipelineProofs.tla

`PROJECT.json` lists the components, the runs and their properties, the
theorems, the hazards, and the source lines that every definition models.

## 1. Inventory

Paths are relative to `src/`; `services/` is `backend/src/services/`.

| Component | State | Operations | What is hard |
|---|---|---|---|
| Collector `services/log-request` | redis list `traces_queue` | log one trace, log a batch | the length check and the push are two commands; a batch that fails half-way |
| Analyzer `backend/src/analyze-traces.ts`, `services/analyze` | `api_endpoint`, `api_trace`, `data_field`, `alert`, redis list per endpoint | pop a trace, find or create its endpoint, analyze it in a transaction, send webhooks | at-most-once pop; races of analyzers; endpoint committed before its first analysis; redis not rolled back |
| Endpoints `services/get-endpoints` | `api_endpoint` and what refers to it | delete an endpoint or a host, replace endpoints by new paths | deletion while an analyzer works on the endpoint; replacement in several transactions |
| Config `services/metlo-config` and readers | `metlo_config`, `authentication_config`, `block_fields`, redis caches | save, cached lookups | concurrent saves; caches cleared before the commit; SET and EXPIRE apart |
| Data fields `services/data-field`, `jobs/detect-sensitive-data.ts` | `data_field` | add and update from traces, detect classes, edits by users | upserts of stale snapshots; a limit checked on a snapshot |
| Trace retention `jobs/clear-api-traces.ts` | `api_trace`, `aggregate_trace_data_hourly` | aggregate and delete old traces | two statements, two snapshots |
| Job runner `backend/src/jobs.ts`, `services/jobs` | Bull queues, child processes | schedule, run, kill after a threshold, shut down | fixed job ids, age measured from creation, pid not known yet |
| Alerts `services/alert` | `alert` | create if no open one exists, ignore, resolve, reopen | check before the transaction; read then update |
| Webhooks `services/webhook` | `webhook.runs` | send with retries, record the last runs | lost updates, delivery more than once |
| Endpoint addresses `backend/src/analyze` | `hostIps`, `srcIps`, a redis set | update with a trace, rebuild the set | lost updates, DEL and SADD apart |
| Redis and database helpers `backend/src/utils`, `services/database` | connections | commands, retries | errors swallowed; retries inside an aborted transaction |
| Node agent `ingestors/node/src/pool` | worker pool, waiting tasks | run a task, worker free or failed | order, no lost task, replacement of workers |
| Go and Java agents | time stamps of the last second | allow | threads, the boundary of the window |
| Rust agent `ingestors/rust-common` | permits, config | process a trace, refresh the config | permits at their limit; config locked while it is written |
| Traffic mirroring agent `ingestors/govxlan` | TCP streams in pieces, the last request of each connection | assemble, pair, flush | lost and reordered packets |
| Specs, summaries, scanner, testing, API routes, frontend, deployment | rows or none | parse, query, render | sequential or without state; not modelled |

How they interact: agents POST batches of API calls to the collector, which
redacts blocked fields and adds session data with the cached config and pushes
each call to a redis list. Analyzer processes pop the list. Analyzers, jobs and
the API share the Postgres tables and talk to each other only through them and
through redis. Agents poll the backend for the config. The jobs run in child
processes of the job runner.

Correctness, component by component: no trace is processed twice or stays in
limbo, the queue is bounded, rows that refer to an endpoint never outlive it, an
endpoint is announced once (collector, analyzer, endpoints); what a user decided
about a data field holds, the risk score fits the fields (data fields); a save
of the config is all or nothing and caches become fresh (config); no count is
lost or doubled (retention); only jobs that take too long are killed, and every
job runs again (job runner); every task runs once, no worker idles while one waits
(node agent); never more than the configured rate (Go, Java); permits come back
(Rust). `hazards` in `PROJECT.json` has the list with its lines.

## 2. Modules

| Module | Models |
|---|---|
| `TraceDelivery` | what the pipeline promises: each reported call is stored at most once, and settles |
| `TracePipeline` | collectors, queue, analyzers, Postgres, the redis lists, webhooks, deletion of endpoints; implements `TraceDelivery` |
| `TracePipelineProofs` | type correctness, the bound of the queue, one place at a time, the five properties of races, delivery at most once |
| `ConfigCache` | saves of the config in READ COMMITTED transactions, the redis caches of the config |
| `ConfigCacheProofs` | type correctness and its four safety properties |
| `TraceRetention` | the job that turns old traces into hourly counts, beside analyzers and a second run |
| `TraceRetentionProofs` | type correctness and its three safety properties |
| `DataFields` | the data fields of an endpoint and its risk score: analyzers, the detection job, requests of users, the clean-up after a config save |
| `DataFieldsProofs` | type correctness and its four safety properties |
| `JobRunner` | schedule, queues, child processes, watchdog, shutdown and crash of the job runner |
| `JobRunnerProofs` | type correctness, what the watchdog may kill, whom a signal reaches |
| `AlertLifecycle` | alerts from the analyzers that create them to the requests that ignore, resolve and reopen them |
| `Webhooks` | sending of committed alerts with retries, and the list of runs of a webhook |
| `AlertProofs` | type correctness of `AlertLifecycle` and `Webhooks`, their four and three safety properties |
| `TaskService` | what the worker pool promises: calls wait in line, as many as there are threads are served at a time, each once |
| `WorkerPool` | the worker threads of the Node agent; implements `TaskService` |
| `WorkerPoolProofs` | type correctness, order, no idle worker while a call waits, full strength, the refinement of `TaskService` |
| `RateLimiter` | `allow` of the Go, Java and Kotlin agents |
| `RateLimiterProofs` | type correctness, the rate, and that refusals are just |
| `MC...` | small instances for TLC |

The modules do not share variables: components of Metlo meet in Postgres and
redis, and each module takes the tables it is about. `TracePipeline` composes
collectors, analyzers, webhooks (as the point where they go out) and users;
`AlertLifecycle` has only the question and the insertion of an analysis,
`Webhooks` what follows its commit, `TraceRetention` only the traces it commits,
`DataFields` only the rows of one endpoint that exists.

Operators that a comment marks as mutants are not part of the models: each is a
plausible mistake in one definition, kept beside it, and `PROJECT.json` says
which property fails when it takes the place of the definition.

### TracePipeline

A collector call is `batch[c]`, what is left of its request, and `admitted[c]`,
true between the checks and the push; `DropOverload`, `Admit`, `RejectInvalid`,
`Enqueue` and `AbortRequest` are the ways through `logRequest`. An analyzer is a
program counter and three registers (trace, endpoint object, `newEndpoint`
argument); each action ends at a database or redis command other processes can
see. An `ApiEndpoint` row is named by the trace whose analysis inserted it, which
stands for its fresh uuid, and its path is what `generateEndpoint` derives from
the path of that trace.

Rows inserted by a transaction become visible in `Commit`. What others notice
before that is the lock that the foreign key takes on the endpoint row:
`InsertTrace` needs the row, and `DeleteEndpoint` waits (`Locked`). The redis
list is written by `PushRecent`, before the commit, and no rollback undoes it. A
failed query, a restart of the process and a foreign key error are
`FailAnalysis`.

Abstractions: all traces have the same host and method; paths are model values
with a table that says how they are parameterized and which regex matches which
path (`MCTracePipeline` has the paths of a small API); alerts other than
NEW_ENDPOINT, data fields, scores and addresses are not represented, except that
data fields of two analyses of a new endpoint can clash (`FieldsClash`); a redis
command takes effect once or fails (the client's resending after a lost
connection is left out); removal of old traces by the job is not part of this
module; the seven-day expiry of the lists is left out. Data fields and the risk
score are in `DataFields`.

### ConfigCache

One host, so that a save either has entries in a table or not, and they are
named by the save. The transaction of a save is followed statement by statement
with the snapshots and row locks of READ COMMITTED: a DELETE or UPDATE sees the
rows committed when it starts (`snapshot`), waits while another transaction has
touched one of them (`dead`, `updates`), and skips what is gone by then. `Select`
is the query that decides between INSERT and UPDATE, `StartUpdate` takes the
snapshot of the UPDATE, and `WriteConfig` waits for the rows in it. Redis
commands are steps of their own and may fail in silence. A lookup that misses
queries the database, then sends SET, SADD and EXPIRE; the process can die in
between (`Crash`). `auth` and `block` keys are cleared by a save before its
commit, `classes` after it, `hostMap` never. One save
(`Earlier`) is over at the start, so that caches may be stale from the first
lookup on.

### TraceRetention

`ReadMaxTime` is the query outside the transaction, `StartAggregate` and
`StartDelete` are the snapshots of the two statements, `Upsert` and `DeleteRow`
their work row by row, with the waits for rows of another transaction that ON
CONFLICT DO UPDATE and DELETE have; `Rollback` stands for a failed statement, a
deadlock or a killed process at any point. `numCalls` is represented by which
traces were added to it. A trace has a fixed `createdAt`, given by the
collector, and is committed by an analyzer at any later time. Two runs can
overlap although the job has a fixed id: Bull starts a job again when its
process seems to have stalled, while the old child may still work. All traces
have an endpoint; deleting an endpoint, which takes its traces and counts with
it, is not part of the module.

### DataFields

One endpoint. An actor is an analyzer, a run of the detection job, a request or a
config save; `held` is what it has read and worked out in memory and will write
back as whole rows. `Table` is the only way to write: it also notes which rows
the other actors now have outdated copies of (`behind`) and which rows were
written from outdated knowledge (`outdated`): from a copy older than the row, or
with classes from before the config changed.

An analyzer reads the endpoint with its risk score (`ReadEndpoint`), then its
rows, which decide the fields it will write (`ReadFields`: `Found` for the keys
that have a row, `New` for the others while there is `Room`), looks the classes up,
which decide the score only (`LookUp`), and `Commit` is the transaction of
`updateDataFields` and the new risk score: upsert by key, then, when the unique
keys refuse that, by uuid (`SecondTry`), then failure (`FailCommit`). The detection
job looks the classes up before it reads the rows (`StartDetection`), and then at
one row at a time (`Detect`), but holds all of them from the start. A request
stores whatever class names it was given (`ReadRow`, `SaveRow`): neither its schema
nor `updateDataClasses` compares them with the config. `named` records which names
the config did not have. `SaveConfig` drops classes, `ReadDropped` and `CleanUp` take
them out of the rows. A lookup of classes may return any of `cached` until `Expire`
or `CleanUp`; after a `CleanUp` it may still, when a lookup that was in flight
stored the old classes again.

Row contents are three sets of classes; types, dates, array fields and hashes are
left out, and whether they make an analyzer write a row it found is a choice. The
v1 analysis, which agents of older versions reach, is left out; it writes with
the same upserts.

### JobRunner

A queue holds at most one job, since the id of a job is its name. `Add` is the
schedule (cron) of a queue, `Start` and `Stalled` are Bull's, `Wrap` stores
the pid of the child in the job, `Finish` ends it. `Watch` begins a round of the watchdog,
`Inspect` looks at the queue it has come to, `Kill` and `KillRejects` are the two
ends of `killJob`, which reads the job again. Rounds do not overlap: the
threshold of a minute between them is longer than a round. `age` is the time since
the job was created, which the watchdog compares with the threshold; `run` is
how long the child has worked on it. A pid may be given again once its process is
gone. `Shutdown`, `StopQueue`, `CloseQueue` and `GiveUp` end the runner in order,
`Crash` does not; its children die with it, since they lose their channel. What
the jobs do is in `TraceRetention` and `DataFields`.

### AlertLifecycle

A subject is what `existingUnresolvedAlert` compares: endpoint, type and
description. A detection asks (`Ask`), inserts in its transaction (`Insert`), or
fails: an error of the question makes an empty list of alerts, so that nothing
is created (`DetectionFails`). A request is `ReadOne` or `ReadBatch`,
then `Write`: the update is by uuid, with the message as it was read, or, for a
batch, only when it resolves. What is worth an alert and its wording are
abstracted to subjects.

### Webhooks

A call of `sendWebhookRequests` goes through its alerts; for each it reads the
webhooks and their runs (`snap`), posts to one after the other, and writes the
runs it read with one more. An attempt is accepted, retried after a status of
500 or more, or fails. The update of the runs is inside the `try`, hence
`RecordGood` can lead to `RecordBad`. The filter of a webhook is a set of alerts
(their types and hosts do not matter otherwise). Users create, change and delete
webhooks; their own errors change nothing. The alerts of the senders are
assumed to be distinct, as an analysis sends the alerts it created. Some names
(`WebhooksInit`, `WebhooksSpec`, `NoHook`) are longer than elsewhere because
`AlertProofs` extends this module and `AlertLifecycle`.

### WorkerPool

Handlers of the event loop are the actions `RunTask`, `OnMessage`, `OnError`,
`OnIdleError`, `Close`; threads work and die beside them and are heard of through
`events`. `Freed` is the push to `freeWorkers` together with the handler of
`kWorkerFreedEvent`, which `emit` calls synchronously. What a call contains, and
the result callback, which the agent does not pass, are left out. `TaskService`
sees the calls in `tasks` as waiting and those held by workers as running. What
`Freed` does when a worker ends one call and begins the next is one step there.

### RateLimiter

`Enter` takes the lock, reads the clock and filters the list, `Leave` grants or
refuses and releases it. The clock may be set back or forward between the two.
The three agents share the module; the `disable` switch of Go (refuses all) and a
rate below one in Kotlin (grants all) are left out, as is the request that
follows a grant.

## 3. Runs

| Run | Instance | Shows |
|---|---|---|
| `pipeline_race` | 1 collector, 2 analyzers, 4 traces, 2 of them for one parameterized endpoint, 2 for a plain one | endpoints announced once, no orphans, no trace under another path or listed twice, what a lost race can lose |
| `pipeline_queue` | 2 collectors, 1 analyzer, 4 traces (plain, 404, refused path), limit 0, 1 failed length check, fair | bound of the queue, one place at a time, refinement of the fair `TraceDelivery`: every trace is stored at most once and settles |
| `config` | 2 saves after an earlier one, 1 lookup, 2 keys, 1 crash, fair | failed saves leave nothing; only overlapping saves mix; no eternal entry without a crash; saves do not wait in a circle, and end; caches become fresh |
| `config_unique` | 2 saves | violated on purpose: two authentication configs of one host (finding) |
| `retention` | 2 processes with 2 runs each, 3 traces of 2 counters, time 3 | a trace is counted or stored; when one is counted twice or lost |
| `fields` | 1 analyzer, 1 detection, 1 request, 1 save; 2 keys of a path, 1 class, limit 2, an earlier row | what users decide and what a save drops comes back only with outdated knowledge, or when a request names a dropped class |
| `fields_analyzers` | 2 analyzers, 1 request; 3 keys, 1 class, limit 2, fair | the limit and failed analyses only by overlap; the risk score comes to fit |
| `jobs` | 2 queues, 2 pids, threshold 1, 2 stops, fair | kills have a cause and hit the job meant; every job runs again |
| `alerts` | 3 detections of 2 subjects, 3 requests | duplicates and forbidden moves only by overlaps; nothing overlooked; messages belong to their resolver |
| `webhooks` | 2 senders with an alert each, 2 webhooks that keep 2 runs, 1 retry, 1 edit, fair | runs are true, lost only by overlap; no webhook left out; calls end |
| `pool` | 2 threads, 1 spare worker, 4 calls, fair | order, no idle worker, full strength after failures; calls end; refinement of `TaskService` |
| `rate_limit` | 2 threads, 2 per window of 3, time 8, clock set twice, back by 2 or forward by 3 | the rate holds in every window; no refusal before it is full |

Bounds. Two analyzers are enough for every race over one endpoint, and a third
trace lets one of them come back while the other still holds its trace; four
traces also let both endpoints be raced for. The bound of the queue is reached
with two collectors between check and push at limit 0. `MaxBatch` is the number
of traces in `pipeline_race`, so that a request can carry all of them; in
`pipeline_queue` it is 3 of 4, so that one is left for the other collector. Two saves beside the
rows of an earlier one give every pair of snapshots; a third would add waits for
two others, which the proofs cover.
In `retention` two traces share a counter and two share a time, and a process
has a second run, so that one run can find what another left. In `alerts` two
detections share a subject, and three requests let one be overtaken twice. In
`webhooks` the row starts with a run, so that the limit of two is reached by the
second sender; each sender has one alert, since with two the states are too many,
and the proofs cover what is safe when a sender goes on to its next. In `pool` four calls keep two threads busy while two calls wait;
the spare worker replaces one that fails, which may happen at any time. In
`rate_limit` the time is more than two windows. In `fields` an actor of each kind
meets every other; the row of the start has a class that was found before, to be
ruled out, dropped, named and found again, and a second uuid serves the row of the
other key; its severity is 0, which keeps the score out of the states, since the
score is the question of the other run. `fields_analyzers` has more keys than the limit, and two keys that stand
for the same field; a trace has either the one without status and content type, or
the other with a header, so that analyzers meet on a row under both keys and
fill the limit. In `jobs` the second queue is the
one a cut round does not reach, two pids can be swapped between the children, and
the age of a job stops counting above the threshold, where it makes no difference.

The counters that bound failures (`MaxLlenFailures`, `MaxCrashes`) are 1 or 0:
one failure of the kind reaches the states its property excludes otherwise.
Deadlock is not checked where the number of traces or saves is finite and the
system comes to rest.

Symmetry is used only in runs without liveness: traces are not interchangeable
(their paths differ), collectors, analyzers, saves and lookups are.

Fairness. `TracePipeline`: weak fairness of each collector call that has begun
and of each analyzer, whose loops never stop by themselves; requests, failures
and deletions need not happen, but an insert whose endpoint is gone must fail.
`ConfigCache`: weak fairness of saves and lookups that have begun, and of the
expiry of keys, which redis guarantees; errors, crashes and new saves need not
happen. `DataFields`: weak fairness of each actor that has begun, of analyzers,
which always find another trace, and of the expiry of the cached classes. `JobRunner`:
weak fairness of the schedule, of Bull and of the watchdog, and strong fairness of
`Tick`: time goes on, however busy the queues are; a job need not end by itself.
`Webhooks`: weak fairness of each call, since requests are answered or
time out after 250 ms and queries return or fail. `WorkerPool`: weak fairness of
the handlers, which the event loop runs, and of the requests of the threads to
the collector, which end; `TasksEnd` excepts closing the pool, the end of the
program, and a thread that died without a task (see below).

## 4. What the runs found out

* A trace that loses the race for a parameterized endpoint is lost in silence:
  the winner's row is looked up by the raw path (`WinnersRow`).
  `RaceLosesOnlyParameterized` states that nothing else is lost in this way.
* A trace can be in the redis list of an endpoint without being stored, after a
  rollback; it is never listed twice (`ListedOnce`).
* An endpoint whose first analysis fails has no NEW_ENDPOINT alert; hence
  `AnnouncedOnce` says at most once.
* Two saves of the config at the same time leave authentication configs and
  block fields of both (`config_unique`, `MixesOnlyOverlapping`).
* A cached entry can outlive a save by its time to live, and without limit when
  the process dies between SET and EXPIRE (`eternal` in `StaleIsTemporary`).
* Retention loses, uncounted, old traces that are committed between its two
  statements, and counts traces twice when two runs overlap; `LostOnlyIfLate`
  and `TwiceOnlyByOverlap` say that there is no other way.
* Requests of two users that overlap can resolve an alert that was ignored in
  between, against the check in `alert/index.ts:64`; each such move needs a
  write between the check and the update (`LegalUnlessContested`).
* An analyzer that upserts a row it read brings back a row that a user deleted in
  between, and with it a class that was ruled out or dropped; so do the detection
  job and the request that changes a field. `DecisionsHold` and
  `DroppedStaysDropped` hold for every row that was not written in this way.
* A request can name a class that the config does not have: a page loaded before a
  save brings a class back after the clean-up, into a row that nobody else
  touched. `DroppedStaysDropped` excepts these rows and classes (`named`), no others.
* The limit of data fields and the absence of failed upserts hold only without
  overlap (`LimitKept`, `FailureNeedsOverlap`). Two analyzers with different classes
  in memory can turn a row and the risk score back and forth for ever, hence
  `RiskConverges` is about the time when the rows have come to rest.
* The watchdog kills a job by the age of its entry, so that a job that waited long,
  for instance while the runner was down, is killed although it has just started;
  a pid from before the runner stopped may be that of another child
  (`outlived` in `KillsHaveCause` and `SignalsAreAimed`).
* `killJob` rejects when the job has no pid yet, and the round of the watchdog ends
  there. `EveryJobRunsAgain` assumes that this does not go on for ever.
* Two analyzers can create the same alert, and a reopened alert can stand beside
  a newer one that says the same (`DuplicatesExplained`).
* A webhook that received an alert can show a failed run, when recording the
  success failed; runs recorded by overlapping senders overwrite each other
  (`RunsAreTrue`, `LostOnlyByOverlap`).
* A worker of the Node agent that fails without a task emits `error` on the pool,
  where nobody listens: the program dies or, if it catches that, a dead worker
  stays in the pool and swallows a call. After SIGTERM closed the pool, calls of
  a program that goes on are given to workers that are gone.

## 5. Proofs

`TypeCorrect` is inductive as it stands. `QueueStaysBounded` counts the admitted
collectors: `Admit` adds one when the queue is within its limit, `Enqueue`
trades one for an element of the queue, and the step lemma uses that a finite
set that gains a member grows by one. It assumes only that the set of collectors
is finite.

`OnePlaceAtATime` needs a strengthening, `UnsentNowhere`: what no request has
carried is in no batch, queue, analyzer or table; otherwise `Accept` could hand
out a trace again. Steps that move no trace are handled at once (`Quiet`), as
are those that give up the trace of an analyzer or the rest of a batch. Batches
and the queue enter the argument only as sets and through `Injective`, by
lemmas on Append and Tail.

The properties of races come from `RowInvariants`: an analyzer between its insert and
its commit has an endpoint that exists or was deleted under it (`RowsInv`), which
describes its trace (`PathInv`); who is new made that endpoint itself, and who
recovers from the unique constraint does so because another made one of that path
(`RaceInv`). `NewEndpointAnnouncedOnce` and `TraceListedOnce` need the place of a trace:
its announcement and its entry in a list are made at a stage of its analysis that it
never returns to. `Past(t, stages)` says that a trace was sent, waits in no batch or
queue, and is with an analyzer at most at a late stage; nothing moves it back
(`PastStable`), so that what was done once is not done again (`AnnouncedInv`,
`ListedInv`).

`PipelineDeliversAtMostOnce` is the safety part of the refinement that the runs check as
`DeliversInTheEnd`. The status of a trace is computed from its place. A lemma per
kind of step shows that it moves a set of traces from one status to another as
`TraceDelivery` allows, or leaves every status alone.

`TasksRunInOrder` and `NoWorkerIdles` (WorkerPool) need each other, in
`InOrderInv`: a call is given to a free worker past the list of those that wait,
which keeps the order only because that list is empty then; and the list is
served from its head when a worker is freed.

`RateIsKept` (RateLimiter) rests on `RateInv`. `Ordered`: readings come in the
order of time, and within an epoch, where the clock is only set back, a later
stamp is never further ahead of real time than an earlier one, so that a stamp
that looks old is old. `ListComplete`: what is not in `ts`, or was dropped by the
thread in the critical section, is out of the window. A grant finds fewer than
`Rps` stamps; were the call `Rps` before it inside the window, so would be all
`Rps` calls since, and all of them would be in the list. `RefusesJustly` needs only that what a thread
keeps is at most a window old at its reading (`KeptIsRecent`).

ConfigCache: `FailedSavesLeaveNothing` adds to the property that the lookups read only
what was committed (`CommittedInv`); `StaleValuesExpire` is inductive as it stands.
`MixesComeFromOverlap` needs that saves at work overlap each other, and what a
save will find: a row that it does not see, or does not delete, was committed by a
save that overlapped it (`SaveInv`). The set of earlier saves is assumed to be
finite. `SavesWaitInOrder` needs where a save is when it holds rows of a table or of
the config (`HoldsInOrder`): whatever a save waits for is held by one that is further,
so that in any set of saves the ones that have come furthest wait for none in it.
It is the safety core of `SavesEnd`, which TLC checks for two saves.

AlertLifecycle: `DuplicatesHaveCause` needs that what an analyzer saw of its
subject is resolved or was reopened, if it is about to insert (`SeenResolved`);
`NothingIsOverlooked` that who is done left or found an alert that is unresolved
or was resolved since (`Reported`); `MovesAreLegal` that what a request checked
still holds for the rows nobody else wrote (`CheckHolds`); `MessagesAreOwn` that
the request that resolved an alert last is over, so that its text stays
(`OwnMessage`).

Webhooks: a sender writes back runs that it read before it posted, so that what holds
of the table must hold of its memory too. `RunsTellTheTruth` says of every list of
either kind that what it shows as ok was accepted, that it shows nothing twice, and
nothing that a sender has yet to record (`Honest`, `Ahead`). `RunsLostByOverlap`
follows each run that was written before a list was read: the list shows it, with no
more runs behind it than were written since, or as many as are kept were written
since, or a sender overwrote it that had read the list before (`Accounted`, for the
table and the memory of senders: `Views`). `NothingLeftOut` needs that what a sender
read and has not tried is at hand or in its list (`Sent`).

TraceRetention: `RunsInv` ties a run to the traces it will meet: before its
deletion, a stored trace up to its time is in its sums or late (`Covered`); in the
deletion, what is in the sums is still to be visited or deleted, and what is
deleted is in the sums or late (`Visited`). `OverlapInv`: what two runs have in
their sums, or one has that is counted already, is contested. `CountsInv`
carries the three properties through commits. The wait for rows that another
transaction deletes enters here: a row that is skipped is gone.

WorkerPool: `PoolKeepsStrength` needs the list of free workers as a sequence without
repetition whose range is the workers without a task; `PoolInv` adds that the
workers are finitely many and that each of them, and no other, has a thread to
fail (`Threads`). `PoolServesCalls` is the refinement of `TaskService`, all of it.
It needs that a call is at one place, in the line or with one worker, and has not
ended there (`OnceInv`), so that busy workers and running calls are equally many
(`RunningCount`, a bijection): without a free worker in the pool, all servers of the
abstract service are busy. `FreedServes` shows that a worker that takes the next call
in the same step is the end of one service and the start of another.

JobRunner: `JobInv` says that a job added since the runner last stopped has no pid
before its child stored one and is as old as its run (`YoungJobs`), that the pid of
a job at work is that of its child, which no other queue shares (`OwnChildren`),
and that what the watchdog found overdue still is, has ended, or was there before
(`OverdueStill`).

DataFields: `FieldsInv` ties the copies in memory to the table (`MemoryInv`): a copy
that its holder is not `behind` with has the lists of its row, except for what the
holder takes away. `Decided` adds to the property that what was ruled out is in the
row's list of false positives, `Cleaned` that between the read and the write of a
clean-up no row gets the class back unless a request names it (`NamedOnly`). The
unique keys of the table are part of `TypeOK` and make an upsert by key hit one row. `FailuresComeFromOverlap` shows that
an analyzer that is not behind finds every key it writes free or its own.
`LimitIsKept` needs that such an analyzer still has the room it counted: its new rows
and all rows of the table are together not more than the limit (`RoomLeft`). Its
commit adds at most one row for each of them, and the writes of all others add
only rows that are marked outdated (`KeptShrinks`). The cardinalities come from
injections between sets of rows, by uuid or by key, and need that `Key` is finite.

The theorems hold for all values of the constants that satisfy the named
assumptions of the modules. Every safety property of a passing run is a theorem,
action properties and the refinement of `TaskService` included; type
correctness is a theorem of each module and needs no run. Liveness and the use of
fairness are beyond the prover and stay with TLC: `DeliversInTheEnd`
(its safety part is `PipelineDeliversAtMostOnce`), `SavesEnd`, `CachesBecomeFresh`,
`SendersEnd`, `TasksEnd`, `RiskConverges`, `EveryJobRunsAgain`.

## 6. Not modelled

* Paths of endpoints (`path-heuristic.ts`, `fix-endpoints.ts`,
  `generate-endpoints-traces.ts`): computations on sets of paths. The replacement of
  similar endpoints deletes them in transactions of their own before its own
  commits; a failure in between leaves neither, which needs no model.
* Addresses (`update-ips.ts`, `analyze/jobs.ts`): maps that inform users; two
  analyzers overwrite each other's copy as in `DataFields`, and the lost address
  comes back with its next trace.
* Rust agent: permits of a semaphore that return with the task, and computations on
  documents. Mirroring agent: its reassembly is a copy of that of gopacket; it
  pairs a response with the last request of its connection, so that the result is
  decided by the order of the capture.
* OpenAPI specs, scanner, summaries, the interpreter of tests and the command line:
  sequential computations and queries. API routes, frontend, deployment: checks of
  parameters, rendering, scripts.
