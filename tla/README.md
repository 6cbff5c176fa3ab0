# TLA+ models of the data infrastructure

TLA+ specifications of the parts of this repository that run concurrently and
may fail: the DB handler and its Redis queues, the Kafka consumer and the file uploads of
service A, the model registry of service D, the gateway of service B and the
subscription of service C. TLC checks each module on a small instance, and TLAPS
proves every safety property of these runs for all values of the constants. Line numbers below are those of the files under `src/`.

## 1. The system

`main.go` starts everything in one Go process, in this order: the DB handler,
service D (which fills Redis before it returns), service A, service B,
service C. Redis, Kafka, DuckDB, Azure Blob Storage and Postgres are outside of
the process; the Python workers are processes of their own.

| Part | State | Operations | Talks to |
| --- | --- | --- | --- |
| DB handler, reads (`DB_Handler_Service.go`, `processReads`, `handleRead`, `sendReadResponse`) | the semaphore channel `maxReads` (50), the payload in hand, one goroutine per request | `BLPop` a request, take a slot, run the query, `RPush` the response, `Expire`, give the slot back | the lists `duckdb_read_queue` and one response key per query |
| Read clients (`DB_Client.go`, `DBJobQueueClient` in `drift_detection.py`) | one pending call | `RPush` the request, `BLPop` the response for 30 s, `Del` the key | the same |
| DB handler, writes (`processWrites`, `handleWriteBatch`, `processTableBatch`, `getColumns`) | the batch by table, the schema cache | every tick: `LPop` up to `MaxBatchSize` rows, group them, append and flush table by table | `duckdb_write_queue`, DuckDB |
| Service A, consumer (`Data_Processing_Engine.go`, `StartDataProcessingEngine`) | the batch, its Kafka messages, `lastAlertTime` | fetch, or flush: alert, online store, write queue, commit | Kafka, Redis, `drift_alerts` |
| Service A, uploads (`UploadFile`, `uploadFileClient`) | a goroutine and a temporary file per call, named by the client; the client's deadline of five seconds | receive and save the file, parse JSON or Parquet, write the online store and the write queue, answer, remove the file | gRPC, Redis |
| Service A, generator (`data_generation.go`) | counters of a round robin | write messages to Kafka, sample files to disk | Kafka |
| Service D (`Service_D.go`) | the models read at startup, the tickers | load metadata, names and artifacts to Redis; retrain; back up; archive, delete and upload blobs; ask for a drift analysis and log it | DB handler, Redis, Azure, the training script, the Python worker |
| Service B (`Prediction_Gateway.go`, `model_server.py`) | the prediction in progress | offer models, read metadata, call the model server, log the prediction | Redis, gRPC |
| Service C (`Service_C.go`, `drift_detection.py`) | the subscription and the channel of go-redis | on an alert run `perform_drift_analysis` in Postgres; on a gRPC call compare two windows of every feature | `drift_alerts`, Postgres, DB handler |
| `pg_stat_guard` (C extension) and its Azure function | a digest per worker | add, combine, serialize, post | Postgres, HTTP |
| CPU limiter (`CPU_Limiter.go`) | a counter in Redis | `TryAcquire`, `Release` | Redis; nothing calls it |

### What is hard here

* **Lists in Redis instead of calls.** A query is four commands of two
  processes on two lists. Requests, answers, time limits, the client's `Del`
  and the key's TTL can come in any order.
* **Crashes between two steps.** A row is popped before it is stored; offsets
  are committed after the push, not after the store; artifacts are archived,
  deleted and uploaded in three calls.
* **Errors that are only logged.** `flushBatch` goes on to the commit after a
  failed pipeline, `ManageAzureArtifacts` to the upload after a failed archive.
* **Limits and batches.** 50 read slots, batches cut at 5 messages or 1000
  rows with a queue behind them, and a batch that never fills.
* **Names that callers choose.** Two uploads with one file name share a
  temporary file: each can read, overwrite and remove the other's.
* **Pub/sub.** `drift_alerts` keeps nothing for a subscriber that is not there,
  and service A waits ten minutes before it publishes again.
* **Copies that grow stale.** The online store during a replay, Redis against
  Azure after a retraining, metadata against artifact.

### What makes each part correct

* Reads: a client gets the answer to its own query or none; slots are not
  leaked; requests are started in the order they were pushed; every call
  returns; Redis does not fill up.
* Writes: rows of a table are stored in push order and once; every loss has a
  known cause; one bad row harms neither another table nor a later batch.
* Consumer: nothing is committed that was not queued; the online store is not
  behind what the consumer is past, nor ever behind what is committed; only
  uncommitted messages are pushed again.
* Consumer and writes together: a log whose messages are stored at least once. A
  committed message reaches DuckDB unless the process dies, and then at most one
  batch is lost.
* Uploads: what a client is told is true; nothing is written after the answer or
  the end of the context; a temporary file has somebody who removes
  it; what the online store shows is queued as well.
* Service A as a whole: only an upload can put the online store behind the
  consumer; an alert is lost only with a connection, a full channel or the process.
* Registry and gateway: no artifact is lost; production is not left empty; what
  is offered can be served; one version means one artifact; a training ends in
  production; a drift worker that hangs does not stop the trainings.

## 2. The modules

| Module | What it is |
| --- | --- |
| `QueryService` | abstract: what the read path promises, without queues, keys and slots |
| `DBReads` | the read path and its clients; implements `QueryService` |
| `RowStore` | abstract: what the write path promises, without its queue, ticks, batches and appenders |
| `DBWrites` | the write path; implements `RowStore` |
| `Ingest` | the Kafka consumer |
| `DurableLog` | abstract: what Kafka, service A and the DB handler promise together |
| `IngestPipeline` | `Ingest` and `DBWrites` joined at `duckdb_write_queue`, in one process; implements `DurableLog` |
| `Uploads` | the gRPC handler `UploadFile` and its clients |
| `ServiceC` | the subscription to `drift_alerts` and its loop |
| `ServiceA` | `Ingest`, `Uploads` and `ServiceC` over one online store and one write queue, in one process |
| `ModelRegistry` | service D over Redis and Azure |
| `ArtifactLifecycle` | abstract: how an artifact is made, published, served, kept and replaced |
| `ModelServing` | `ModelRegistry` with the gateway and the model server; implements `ArtifactLifecycle` |
| `MC*` and `*.cfg` | the instances TLC checks |
| `*Proofs` | the theorems and their proofs; `DBWritesLossProofs` is about what the write path loses |
| `SequenceFacts` | lemmas about numbers and sequences that the proofs share |

Each module lists the failures it knows as a set of names (`FaultKinds` and the
like); a constant chooses the ones that may happen, so a run or a theorem says
which failures it tolerates. A call to an outside system that returns an error
may have been applied or not, wherever its effect matters.

### DBReads

A query is its number. `Ask` (the clock is read), `Send` (the `RPush`),
`Receive`, `GiveUp` and `Return` are the lines of `Query`; `Return` is the
deferred `Del`. Other clients can push between `Ask` and `Send`, so the keys need
not be in the order of the queue. `Pop`, `StartReader` and the reader
steps are `processReads`: `held` is the payload between `BLPop` and the send on
`maxReads`. `Respond` and `Expire` are the two commands of `sendReadResponse`,
whose errors the code ignores. Redis removes an empty list and its TTL with it.
The TTL of five minutes is longer than a client's 30 seconds, hence the guard of
`KeyExpires`. The response key is the clock, which is taken to move between any
two calls that read it: it counts nanoseconds. The Go client has one caller at a
time, and the Python client uses a UUID. `PopLost` is a `BLPop` of the loop whose
reply is lost, `SendFails` an `RPush` whose reply is lost or that never arrived.

`ServiceSpec` is the refinement: `issued` are the queries asked, a client in
`wait` is waiting, a result with data is an answer.

### DBWrites

`PopRow`, `PopMalformed`, `PopFails` and `CollectEnds` are the loop of
`handleWriteBatch`; `WriteTable(t)` is `processTableBatch` for one table, in any
order, because the code ranges over a map. `AppendRow` refuses a row whose data
is in `BadData`; then the deferred `Close` stores the rows before it or none.
After a failed `Flush`, `Close` flushes again: all or nothing is stored.
`dropped` remembers what is lost, with the row and the time; the code logs it,
except what dies with the process. An `LPop` that go-redis sends again by itself,
after Redis applied it and the connection broke, loses a row and does not end the
batch; in the model a lost reply is `PopFails` and ends it.

`StoreSpec` is the refinement. In `RowStore` a row is open until it is saved or
lost: the rows of a table in the queue and in its batch are open, those in
DuckDB saved, those in `dropped` lost. A pop moves nothing; a table that is done
with is one `Settle`, which saves rows after those saved and before those open;
a lost pop or a crash is a `Lose`. What goes at one time lies within `MaxBatch`
pushes, the tables of a crash taken together.

### Ingest and IngestPipeline

One partition, so an offset is a number. `Fetch` and `Timeout` are the loop,
`Alert`, `SendRedis`, `SendDuckdb` and `Commit` the four parts of `flushBatch`,
between which the process can die. A pipeline that fails has applied a prefix of
its commands; go-redis may also send one again (`retry`). A message is a key, a
flag for well-formed JSON and one for a value above 100. JSON has neither NaN nor
infinity, so what the consumer has decoded it can encode again. The generator in the
repository makes neither malformed messages nor such values (`rand * 100`); they
stand for other producers on the topic, which the code is written for.
`Passed` is how many messages the consumer is past: fetched and no longer in its
batch. `Alert` may publish and get an error, or be sent twice by go-redis.

`IngestPipeline` takes both as instances over one queue. A crash takes both
halves (`ProcessCrash`), as `main.go` runs them in one process.

`DurableLog` has no batches, queues or retries: messages are written, accepted,
committed and stored, and a crash loses some that were accepted. `LogSpec` maps
a message to accepted (`Owed`) while a row of it is in the queue or in the
handler's batch and none is in DuckDB, and to stored (`Arrived`) once one is.
`Accept` requires that a message is uncommitted, `Commit` that whatever it
covers is accepted or stored, and `Lose` takes at most `MaxBatch` messages.
`LogProgress` is its fairness: what stays uncommitted is accepted, also after a
crash took it, and what stays accepted is stored.

### Uploads, ServiceC and ServiceA

A call is the value of its rows, so that the online store and the queue show
whose rows they hold; a row has a key, and whether `json.Marshal` can encode it.
A Parquet file can have NaN or infinity for a value: both pipelines log such a
row and skip it (`Commands`). `Receive` to `Remove` are the steps of
`UploadFile` between which another call, the client's deadline, the end of the
context or the death of the process can come. `temp` has whose content the file of each name holds; `Left` is what
a failed write, a failed `Remove` or a crash leaves. `Parse` reads whatever is there: another
call's file, or one cut off by a write in progress. `Remove` is the deferred
one, registered only after `WriteFile` succeeded. The deadline of five
seconds passes at the client first (`GiveUp`): gRPC sends the server a number of
seconds, which run there from the arrival of the call. Only `Cancel` is the end
of the stream's context, under which the pipelines run: after it none is sent,
but one on its way (`sent`) still arrives. Between the two, both may start. An error of theirs is logged (`failed`) and the
answer is success. `shared` has the calls that met another one with their name.

`ServiceC` subscribes at its start. Redis sends an alert over its connection if
it is subscribed then (`Deliver`); go-redis reads it later into the channel, if
that has room (`Arrive`); `Take` and `Analyse` are the loop. When the connection
breaks, what is on its way is lost; the channel keeps its alerts, and the
connection is made anew.

`ServiceA` publishes and sends on in one step, as Redis does, and lets all of
them die together. The offsets of messages and the calls are different values,
hence `ServiceAAssumption`.

### ModelRegistry and ModelServing

An artifact is the number of the training that made it. `Boot` to
`LoadArtifact` are `Service_D_Start`, `Train` to `Upload` are
`RetrainAndUploadModels`; `Scan`, `Archive`, `Delete` and `Upload` are the steps
of `ManageAzureArtifacts` for one model, in any order of models. `CallDrift`,
`DriftReturns` and `DriftTimesOut` are the other branch of the scheduler's
`select`: the gRPC call to the drift worker, which ends with an answer or after
ten minutes and changes nothing but whose turn it is. In the gateway, the
choice of a model (`Select`), the read of its metadata (`GetFeatures`), the call
to the model server (`Infer`) and the row for `model_logs` (`LogPrediction`) are
steps of their own, between which service D goes on. A model has one
blob whose name contains `_Production`, which is what the upload writes, and the
`azure_location` in DuckDB is taken to be the folder `Model_<id>/` that service D
writes to. What Azure holds at first is open: `CheckDuckDB` looks at metadata
rows only, and service D warns when it finds no artifact (`Service_D.go:255`).
Such a model is offered all the same and cannot be served; `FoundInProduction`
are the others. The gateway starts when the startup is over. A call to the
model server may succeed or fail at any time; as committed every call fails,
because nothing calls `serve()` (`model_server.py:97`). Nothing writes
`model_metadata` rows, so the version of a model is always the same and is left
out of the log entries. `seen` remembers which kinds of failure have happened.

`LifecycleSpec` is the refinement: the artifacts in Azure's production folders
are in production, those in the archive kept, those in Redis served. An artifact
leaves production only once it is kept; only a newer one takes its place; what
is kept stays kept. An archiving that failed or overwrote another archive makes
the keeping `careless`, and only then may an upload overwrite what is not kept.

## 3. What TLC checks

Counts are distinct states; every passing run covers all states of its bounds.

| Run | Instance | States | Shows |
| --- | --- | --- | --- |
| `dbreads_safety` | 2 clients, 2 slots, 3 queries, every failure, clients symmetric | 662 309 | `AnswersOwnQuery`, `SlotPerReader`, `StartedInOrder`, and `DBReads` implements `QueryService` |
| `dbreads_live` | 2 clients, 1 slot, 3 queries, all failures but the handler's death and a failed `Expire` | 153 696 | `QueryReturns`, `RequestsLeaveQueue`, `ResponsesVanish`, `NoImmortalResponse` |
| `dbwrites` | 2 tables, batches of 3, 4 rows, good and bad data, every failure | 1 377 874 | `StoredInPushOrder`, `RowsConserved`, `RejectIsLocal`, and `DBWrites` implements `RowStore` (`StoreSpec`) |
| `ingest` | 3 messages on 2 keys, batches of 2, 2 crashes, 1 rebalance, working pipelines | 1 169 078 | `CommittedWasQueued`, `OnlineIsFresh`, `OnlyUncommittedAgain` |
| `pipeline` | 3 messages, batches of 2, 1 crash, repeated pipelines | 153 496 | `LossIsBounded`, `CrashCostsOneBatch`, `EveryMessageStored`, and `IngestPipeline` implements `DurableLog` (`LogSpec`, `LogProgress`) |
| `service_a` | 2 uploads that may share a name, symmetric, files of 3 rows of which one cannot be encoded, beside up to 2 messages, batches of 2, 1 crash, a channel for 1 alert; failing and repeated upload pipelines, disk errors, deadlines, failed publishing, broken connections | 832 301 | `AnswerIsTrue`, `TempOwned`, `SettledOnAnswer`, `BehindOnlyByUpload`, `OnlineIsQueued`, `AlertsAccounted` |
| `serving` | 1 model registered and trained, 1 only trained, with or without an artifact at first, 2 trainings, every failure, drift calls, restarts without bound | 348 431 | `ArtifactsKept`, `NoGap`, `OneVersionOneArtifact`, `OfferedIsServable`, `CacheNeverOlder`, `TrainedReachesProduction`, `TrainingGoesOn`, and `ModelServing` implements `ArtifactLifecycle` (`LifecycleSpec`) |

Why the bounds are enough: two clients and three queries let a client meet its
own late answer, a stranger's answer and a request queued behind a full
semaphore; four rows against batches of three cut a batch in the middle of the
queue with both tables in it; three messages against batches of two leave a
batch that only the time limit flushes, and two crashes let a replay be
replayed; two uploads are enough for one to read, overwrite or remove the other's
file, and a file that cannot be parsed may have the same name or another; a
channel for one alert is full with the second; two trainings make an archive of
an archive, a registered model may start without a production blob, and one that
is only trained does (`TrainedAreNew`).
In the pipeline the bound on pushes (12) is never reached: three messages, pushed
twice by a repeated pipeline and again after the one crash; the third message
makes a crash that loses a whole batch differ from one that loses all. In `service_a` the
constraint `OneConcern` keeps apart the behaviours with uploads and those with
alerts. Uploads and service C share no state, so their interleavings say
nothing new; both run beside the consumer, with its crashes. The constraint
`Beside` lets two uploads meet beside one message or a crash, and one upload
beside all the rest. The middle one of the three rows cannot be encoded, so a
pipeline that stops there would leave out the last. Nine
pushes are enough and stop nothing: two files of two such rows, each pushed twice
over at most, and a message; or one file and two messages, pushed again after the
crash.

Five runs end in a violation on purpose. Each shows a place where the code does
not do what a text of the repository says:

| Run | Property | What the trace shows |
| --- | --- | --- |
| `dbreads_ttl` | `NoImmortalResponse` | the handler dies between `RPush` and `Expire`: the response stays for ever, although the comment says the TTL keeps Redis from accumulating garbage |
| `ingest_redis` | `CommittedWasQueued` | a failed pipeline is logged and the offsets committed: the rows are lost in an at-least-once consumer |
| `pipeline_crash` | `CommittedIsSafe` | a crash after `LPop` and before `Flush` loses rows whose messages are committed |
| `serving_swap` | `NewModelServed` | a new artifact is in production and Redis is never refreshed, although the README says service B swaps models by itself |
| `serving_names` | `EveryModelRetrained` | `Coffee_Recommender` is required in DuckDB, the training script makes `Coffee_Pref`: the former is never retrained |

Limits of what holds, found while modelling:

* If the clock stood still between two queries, their response keys would
  collide and `AnswersOwnQuery` would fail; the model takes it to move.
* Requests are started in order and then run side by side: nothing orders their
  queries in the database.
* A client that gives up returns whatever the handler does; that the handler
  lives is assumed in `dbreads_live`, so it says nothing about its death.
* A failed `Expire`, whose error is ignored, has the effect of `dbreads_ttl`.
* After a rebalance the consumer flushes and commits the old batch and fetches
  it again: messages that are committed are pushed again, and with a crash after
  it the online store can fall behind. `OnlineIsFresh` and
  `OnlyUncommittedAgain` therefore speak of histories without a rebalance.
* A crash after a failed commit makes the consumer replay messages it had
  flushed, and until it has caught up the online store is behind what was flushed
  before. `OnlineIsFresh` and `BehindOnlyByUpload` speak of the messages that this
  life of the consumer is past (`Passed`). Those are never fewer than what is
  committed, and at the end of the log they are all.
* A model with metadata and without an artifact is offered; `OfferedIsServable`
  speaks of those that had one when service D first started.
* `ArtifactsKept` excludes histories in which the archiving failed. The upload
  that follows overwrites the one blob of that name, as does an archive whose
  random number was used before.
* Two uploads at once with one file name can both be told success for one
  file's rows; `AnswerIsTrue` and `SettledOnAnswer` therefore speak of calls that
  met no other with their name. `TempOwned` holds for all.
* An upload answers success, with the number of all rows, although a pipeline
  failed or a row could not be encoded; `AnswerIsTrue` says that in every other
  case the answer is true. Neither is told to the client.
* Between a client's deadline and the end of the handler's context both pipelines
  may start: a client that has given up cannot conclude that nothing is written.
  `SettledOnAnswer` begins with the answer or the end of the context.
* An upload overwrites a newer value of the consumer's: `SET` knows no times.
* An alert published before service C listens is lost, as is one on its way when
  the connection breaks, and the cooldown that it starts holds back the next one
  for ten minutes. A `Publish` that gets an error starts no cooldown, even if
  Redis sent the alert on. At startup service A comes
  first.
* A message accepted and committed is lost by a crash after `LPop`: `DurableLog`
  says how many, not that there are none.
* After a restart a retrained artifact is served under the version of the old
  one, because the new metadata is dropped (`Service_D.go:450`).
  `OneVersionOneArtifact` holds for one life of the process.

### Fairness

* `DBReads`: goroutines that can run do run, a `BLPop` with a time limit
  returns, DuckDB answers, Redis removes expired keys. No client has to ask.
* `IngestPipeline`: the loop of `StartDataProcessingEngine` and the ticker of
  `processWrites` never end, and calls return. No producer has to write.
* `ModelServing`: the process is started again after its death, the scheduler's
  tickers fire, service D's loop goes on, and the training script ends (the code
  gives it no time limit). `Retrain` is strongly fair: it is enabled only while
  no drift call is running, and Go's `select` picks at random among the tickers
  that have fired. The drift worker need not answer; its call has a deadline. No
  user has to pick a model.
* `ServiceA` states no fairness: its properties are about safety.
* No failure is ever fair. Liveness therefore does not depend on one, and holds
  with failures as long as the property does not name them as an excuse.

## 4. What is proved

For every value of the constants that the modules' assumptions allow
(`ReadsAssumption`, `WritesAssumption`, `IngestAssumption`,
`PipelineAssumption`, `UploadAssumption`, `ServiceCAssumption`,
`ServiceAAssumption`, `RegistryAssumption`, `GatewayAssumption`). They say what
kind of value a constant is, never how large. Other conditions are those of the
theorems:

| Module | Theorems | Condition |
| --- | --- | --- |
| `DBReadsProofs` | `TypeCorrect`, `SlotsAreReaders`, `RequestsStartInOrder`, `OwnAnswers`, `Refines` (`QueryService`) | |
| | `NothingImmortal` | the handler does not die, `Expire` succeeds |
| `DBWritesProofs` | `TypeCorrect`, `StoresInPushOrder` | |
| `DBWritesLossProofs` | `ConservesRows`, `RejectsLocally`, `ImplementsStore` (`RowStore`) | |
| `IngestProofs` | `TypeCorrect`, `PushedWhileUncommitted` | |
| | `QueuedBeforeCommit`, `StoreStaysFresh` | the pipelines return no error |
| `IngestPipelineProofs` | `OneBatchLost` | `LPop` and the decoding succeed |
| | `LossesLeaveATrace` | the pipelines return no error |
| | `LossesAreBounded` | the pipelines, `LPop`, the decoding and DuckDB succeed |
| | `ImplementsLog` (`DurableLog`) | the same, and no rebalance |
| `ServiceAProofs` | `TempFilesOwned`, `AnswersAreTrue`, `QuietOnceAnswered`, `ShownIsQueued`, `NoAlertForgotten` | |
| | `StaysFreshAmongUploads` | the consumer's pipelines return no error |
| `ModelServingProofs` | `TypeCorrect`, `KeepsArtifacts`, `LeavesNoGap`, `ServesWhatItOffers`, `OneArtifactPerVersion`, `CacheOnlyAdvances`, `ImplementsLifecycle` (`ArtifactLifecycle`) | |

The arguments:

* **Reads.** Requests are pushed with rising numbers, so the queue is sorted, what
  is held precedes it and what was started precedes both; that is `IInv`, with
  one reader per query so that slots can be counted. `AnswersOwnQuery` needs
  `LinkInv`: of the requests, readers, responses and waiting clients, those with
  one key belong to one query, and a client about to push has a key that nothing
  else has. With `LinkInv` and `IInv` every step maps to a step of
  `QueryService` or to a stutter.
  `NothingImmortal` rests on `ExpiryInv`: a response without a TTL still has the
  goroutine that will set one.
* **Writes.** `OrderInv`: for each table the stored rows, the batch and the
  queue are each increasing, and each lies before the next. Popping moves the
  head of one to the end of the other, settling a prefix. For the losses,
  `PlaceInv` says that every row pushed is in one of queue, batch, table and
  `dropped`, and that these are apart; `LocalInv` numbers the rows of a batch by
  their pushes, so that what goes with a refused row lies in one window. The
  three give the refinement of `RowStore`: the order of the parts is the order
  of `Settle`, their being apart makes what is settled or lost no longer open,
  and the window spans the batches of all tables, so that a crash is close.
* **Consumer.** `BatchInv`: a batch that is flushed is nonempty, lies in the log
  and has a highest offset. `HandledInv`: every well-formed message the consumer
  went past is queued or in the batch, and between the push and the commit the
  batch itself is queued. Committing the highest offset of a batch then covers
  only what was queued. `FreshInv`: without a rebalance nothing in the batch is
  committed. `OnlineInv`: of the messages the consumer is past, among them
  all that are committed, every key shows the last value or a later one; between
  the SETs and the commit so it does of the batch.
* **Consumer and writes.** `IngestProofs` is instantiated: the engine's steps are
  the consumer's, and the handler's leave its variables but the queue alone.
  `TraceInv` adds that what was pushed is under way, stored or traced in
  `dropped`; with what `IngestProofs` knows of committed messages this is
  `LossIsTraced`. `CountInv` counts what is missing of all that was pushed: only
  a crash adds to it, and no more than the rows that were popped. For
  `DurableLog` this is not enough, because what a crash loses is pushed again
  if it was not committed. A second instance has `Kept` in place of the rows pushed: the
  offsets that are committed, under way or stored. `Kept` shrinks at a crash, but
  the consumer then falls back to the committed offset, below which all is in
  `Kept`. So between crashes and across them everything the consumer went past
  is kept or in its batch, and a commit covers nothing else. `WellInv` says that
  the batch holds uncommitted messages, which makes commits move forward, and
  `BoundInv` that the handler's batch has no more rows than were counted.
* **Service A.** `CallInv` relates a call's stage, parsed file and answer, and
  each temporary file to a handler that will remove it. `NameInv` is what a call
  knows that met no other one with its name: the file is its own. `TraceInv`:
  before its pipelines a call has left nothing in the store and the queue; after
  them all rows that can be encoded are queued, or a pipeline failed (`Commands`
  is shown to hold just those rows, by the library's theorems on finite sets).
  `ShownInv` relates the online store to the queue. For `NoAlertForgotten` every
  step of service C is shown to leave `LostAlerts` as it is or to raise it in one
  of the cases named. For `StaysFreshAmongUploads` the consumer's proof is instantiated with
  a masked online store, in which an uploaded value counts as the newest.
* **Registry.** `RegistryInv` adds to the properties what `ManageAzureArtifacts`
  knows at each step (`Work`), that what the upload overwrites is archived
  (`Replaceable`), that Redis is never ahead of Azure (`Ages`), and that a model
  found in production at first is in Redis once service D has gone through it, or
  while it is out of production (`Loaded`). No gateway step
  changes the registry, so `GatewayInv` only adds what was picked, used and
  logged. For `ArtifactLifecycle` the invariant `Newer` is needed, that between
  a training and its upload production has an older artifact: `Archive`,
  `Delete`, `Upload` and `LoadArtifact` are then steps of the lifecycle, every
  other step stutters.

Model-checked only: the liveness properties `QueryReturns`, `RequestsLeaveQueue`,
`ResponsesVanish`, `EveryMessageStored`, `LogProgress`,
`TrainedReachesProduction` and `TrainingGoesOn`, because the prover does not
handle fairness and `ENABLED`.

## 5. What is not modelled

* SQL, rows, feature values, what a model computes, JSON, Parquet and gRPC
  encoding. A row that DuckDB refuses and a file that cannot be parsed are
  choices. A Parquet file with a foreign schema can panic the handler and with
  it the process, which is `ProcessCrash`. A Parquet file's rows lose their
  timestamps (`Data_Processing_Engine.go:418-423`).
* The drift statistics (PSI, Kolmogorov-Smirnov) are floating-point functions.
  The worker's queries for the current window read a table `features` that
  `CheckDuckDB` never creates (`drift_detection.py:130`; the table is
  `features_table`), so that window is always empty and there is no behaviour of
  its offsets and limits to check.
* `pg_stat_guard` does not compile as it stands (`TDIGEST_INITIAL_CAPACITY` is
  declared without a type, line 75), and the SQL serializes an aggregate that is
  serialized already. There is no running program to compare a model with.
* The CPU limiter is one Lua script and a decrement, and nothing calls it.
* The startup checks, the configuration and the generator's files: sequential
  code, run once before or beside everything else.
* `HandleLocalBackups` writes files that nothing reads; only its error is kept.
* `TriggerDriftDetection` logs what it gets; only the time it takes is modelled.
* `PrepareNewModelMetadata` makes metadata that its caller drops.
* The gRPC stubs are generated.

## 6. Plan

1. An abstract specification of the uploads: the rows of a call appear in the
   online store and in the queue at most once each, before its answer, and the
   answer says which. `Uploads` would implement it for calls that met no other
   with their file name; `AnswersAreTrue`, `QuietOnceAnswered` and
   `ShownIsQueued` hold the parts of the proof.
2. More than one partition and more than one consumer of the topic, should the
   code ever start them: `CommitMessages` then commits one offset per partition.
3. Messages and rows of one key in the same pipeline run, to relate the order in
   DuckDB to the online store.
4. Once the extension compiles, `TDigest`: add, combine and serialize against a
   reference definition on bags of small integers.
5. Once the drift worker reads the table that exists, `DriftWindows`: the offsets
   and limits of `collect_feature_data` with rows arriving between its queries.
