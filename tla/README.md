# TLA+ models of the bulk import/export API

The service (NestJS, TypeORM on PostgreSQL, BullMQ and ioredis on Redis, S3)
accepts files of users, articles and comments, imports them in the background and
exports the tables in the other direction. Several nodes run the same process;
each is web server, queue worker and stale job cleaner at once. This directory
models the Redis lock, the life of an import job and of an export job across
requests, queue, workers, crashes and cleanup, the streams that turn a file into batches
of rows and a table into a document, the transactions that write the records, and the
pages an export reads while they do. Paths below are relative to
`src/src/` of the repository unless they name the repository's `README.md`.

## 1. Inventory

| Component | State | Operations | Talks to |
|---|---|---|---|
| `DistributedLockService` (`common/services/distributed-lock.service.ts`) | `lock:<key>` with expiry in Redis; `activeLocks`: one renewal interval per key and node | `acquireLock`, `releaseLock`, `extendLock`, renewal timer, `onModuleDestroy` | Redis; used by import, export and cleanup |
| Import requests (`modules/imports/imports.service.ts` 59-227) | row of `import_jobs`, S3 object, queue entry | `createImportFromFile`, `createImportFromUrl`, `getJob` | PostgreSQL, S3, queue |
| Import processing (same file, 231-475 and `processors/import.processor.ts`) | the row: status, lock columns, counters | `processImport`, `atomicStatusTransition`, `executeImportProcessing`, `updateJobProgress`, `finalizeJob` | queue delivers; lock; row |
| Records of a batch (same file, 720-1277) | rows of `users`, `articles`, `comments`; counts | `processBatchWithLineNumbers`, `upsertRecords`, `upsertUsers`, `upsertArticles`, `upsertComments` | PostgreSQL transactions with savepoints |
| Import streams (same file, 478-720; `common/utils/stream.utils.ts`) | partial line, line number, partial batch, totals | `NdjsonParseTransform`, `BatchTransform`, three `process*Stream` loops | S3 stream, records |
| `StaleJobCleanupService` (`common/services/stale-job-cleanup.service.ts`) | none of its own | `cleanupStaleJobs`, `handleStale*Job`, `forceCleanup*` (not called) | lock, rows |
| Queue (`queue/queue.module.ts`, BullMQ) | entry per job: state, attempts, stalls | delivery, backoff, stalled job detection | Redis |
| Export jobs (`modules/exports/exports.service.ts` 58-391) | row of `export_jobs`, S3 object | `createExport`, `getJob` (renews the URL), `processExport`, `finalizeJob` | queue, lock, S3 |
| Export streams (same file, 129-139, 396-796) | OFFSET, row counts, output stream | `countRecords`, `streamRecords`, `fetch*`, `formatRecord`, `wrapAsJsonArray`, `transformToCsv`, `createStreamingExport` | PostgreSQL, S3 or HTTP response |
| HTTP layer, validation, configuration, health, Bull board | none | parse, validate, forward | the services |

Components meet in three places: the row of a job (written by requests, workers and
cleanup), the queue entry (written by a request once, then by BullMQ) and the Redis
key of the job. Nothing ties the three together: that is where the hard behaviour is.

* **Two guards, one job.** A worker takes `import-job:<id>` in Redis, then moves
  the row from PENDING to PROCESSING under a row lock. Either may fail, lapse or be
  retried alone. *Correct means:* one execution at a time, no batch twice, and
  COMPLETED only after the last batch.
* **Crashes.** The dead worker's lock, its PROCESSING row and its queue entry
  disappear by three different mechanisms (expiry, cleanup, stalled job check).
  *Correct means:* PROCESSING ends, the lock columns agree with the status.
* **Idempotency keys.** Looked up first, inserted later. *Correct means:* all
  requests with a key are answered with one job.
* **Locks.** Token comparison in Lua, renewal at half the expiry, one interval per
  key. *Correct means:* faults of one node cost no other node its lock, and a key that
  nobody works under becomes free.
* **Import streams.** Three parsers cut a text that arrives in arbitrary chunks into rows, number
  them and collect errors in two places; `pipe()` passes back pressure on and errors not. *Correct
  means:* no row lost, doubled or misnumbered wherever a chunk or a batch ends, totals that
  agree, a number of lines in memory that does not grow with the file, and an end.
* **Batches.** One transaction, one savepoint per record, keys looked up before
  anything is locked, other imports in between. *Correct means:* every line counted
  once, counts agree with the table, keys unique, deadlocks resolved.
* **Export streams.** Pages become a document while queries, uploads and clients fail. *Correct
  means:* what arrives is a beginning of the document, and what is called complete is all of it.
* **Exports.** Whole entities are saved long after they were read; progress updates are
  sent and not awaited; pages are cut by OFFSET while rows are inserted and change. *Correct means:* a
  job runs once, a finished file is not lost, and it has every counted row but for one to each that left meanwhile.

`PROJECT.json` lists every component with its status and every hazard with its line.

## 2. Modules

| Module | What it is |
|---|---|
| `DistributedLock` | the Redis lock for one key: callers, their nodes, timers, faults, shutdown |
| `LockService` | what the services may rely on when they take a lock: the abstract specification of it |
| `DistributedLockRefinement` | `DistributedLock` implements `LockService` |
| `DistributedLock_proofs` | TLAPS proofs about both |
| `ImportJobs` | requests, queue, workers, lock and cleanup around the rows of import jobs |
| `JobLifecycle` | what a client may rely on: the abstract specification of an import job |
| `ImportJobsRefinement` | `ImportJobs` implements `JobLifecycle`, and its locks `LockService` |
| `ImportJobs_proofs` | TLAPS proofs about both |
| `ImportStreams` | one import: source, chunks, parsers, batches, the three loops, totals and error report |
| `ImportStreams_proofs`, `ImportTotals_proofs`, `ImportProgress_proofs` | TLAPS proofs about it: rows and numbers; totals, report and memory; that it goes on and ends |
| `RecordUpsert` | imports writing records at the same time, statement by statement |
| `RecordUpsert_proofs` | TLAPS proofs about it |
| `ExportJobs` | one export job: request, workers, pages, polling, cleanup, and a table that changes |
| `ExportLifecycle` | what a client may rely on: the abstract specification of an export |
| `ExportJobsRefinement` | `ExportJobs` implements `ExportLifecycle`, and its lock `LockService` |
| `ExportJobs_proofs` | TLAPS proofs about it |
| `ExportStreams` | one export as a document: pages, three formats, upload or response |
| `ExportStreams_proofs` | TLAPS proofs about it |
| `MC*` and `*.cfg` | instances for TLC |

The components are composed by what they promise each other. `LockService` stands between the
lock and those who use it: `DistributedLock` implements it (`ImplementsLock`), and the lock of every
job in `ImportJobs` and `ExportJobs` is one of its locks (`LocksKept`, `LockKept`). A token is its owner's,
or `Orphan` when nobody works under it any more (a holder that crashed, a DEL or an answer to SET that was
lost); only `Orphan` goes away by itself, unless the caller is not `Reliable` or a process has been told to stop.
What can go wrong then (expiry under a slow process, shutdown, a lost renewal) is the step `Lapse`, which the jobs allow with
the fault `"lapse"`. They take no worker for reliable with it, and never look at `stopping`:
a shutdown appears as a lapse. That is a sound use of the interface as each `acquireLock` is a caller
of its own there and a worker may call again and again here: `Acquire` asks only that the caller is not working. A batch is one step of `ImportJobs`; `ImportStreams` shows where batches come from,
and its step `ProcessRecords`, which lets any of the records succeed, fail or do both, is what `RecordUpsert` opens.
`ExportJobs` has the job and the pages of a table that changes, `ExportStreams` what becomes of
the rows after that; its outcomes (complete, failed, the process is gone) are steps of `ExportJobs`.

### DistributedLock

A *caller* is one call of `acquireLock` with the `Lock` object it returns; its
token is fresh, so the caller stands for it. `owner` and `ttl` are the key in Redis;
`live` and `due` the intervals that run; `active[n]` is `activeLocks` of node `n`,
one interval per key, so that a later `startLockRenewal` overwrites an earlier one
and `stopLockRenewal` clears whatever is there. Commands of one node are answered in
order because ioredis uses one connection. A failed command (`Flaky`) may have
taken effect or not. `onModuleDestroy` clears an interval, then GET and DEL are two
steps, either of which may raise an error (`ShutdownError`: it is logged and the key stays), then `quit`. `Retries`
is the option of each call; the jobs and the cleanup pass 0. Time is a countdown: `Tick` may pass only when the timers of
nodes that are not `Slow` have been served. Half the expiry rounds down as in the
code. `withLock` has no caller; `isLocked` and `getLockHolder` only read.

*The renewal is stopped by key.* The repository's `README.md:554` says "Auto-renews locks during long operations".
`stopLockRenewal` looks the interval up by the lock's key, not by the `Lock` object (`distributed-lock.service.ts:274-280`), so that
a caller whose renewal has failed, or who releases a lock it has lost, stops the renewal of the next holder on
its node: that lock expires in the middle of the work. It takes a failed command of one caller and a second caller
on the same node. `ImplementsLock` lets such a lock lapse (`Lapse`); `IntervalsTracked` and `FaultIsolation` speak of
nodes none of whose commands fail.

### ImportJobs

Each `await` of the handlers on shared state is one action: `FindByIdempotencyKey`,
`CreateRow`, `UploadFile`, `SaveFileUrl`, `Enqueue`; `Deliver`, `AcquireLock` and its
refusal or error, `StartProcessing`, one `ProcessBatch` and one `UpdateJobProgress` per
batch, `FinalizeCompleted`, `FinalizeFailed`, `ReleaseLock`, `Settle`; the cleanup's two
queries and one update per row found, with the status the *query* saw kept in `found`.
Four facts of the code shape the model:

* A refused or *failed* lock makes `processImport` return normally, so the queue counts
  the delivery as done (`imports.service.ts:241`).
* `finalizeJob(FAILED)` precedes the rethrow, so a retry always finds a row that is not
  PENDING: BullMQ's attempts never run an import twice.
* The progress update and the cleanup's update name the row by id only.
* A transaction that raises an error may have been committed (`"db"`): an answer to
  COMMIT can be lost.

`age` counts the thresholds the row has passed: 1 is the lock threshold (10 min), 2 the
job threshold (30 min). Without the fault `"slow"` a row only ages when nobody executes
it; with it `JobLifecycle` (`Slow`) lets a job that was taken for dead be written on, and COMPLETED turn to FAILED. A SET of the cleanup lock that raises an error may have
stored the token all the same, which delays the next rounds (`CleanupBegins`). The cleanup runs its import and export halves under `Promise.all`; an error in one
releases the cleanup lock while the other goes on, which `"lapse"` covers.
`RestartStaleJobs` is a CONSTANT. The repository's `README.md:570-572` sets it and the
thresholds by environment variables; `config/configuration.ts` does not read them, so
the shipped program always runs with the default `FALSE`. That is the value of the runs; the
theorems cover both and say where they need the default. With `TRUE` a job that is set back to PENDING
(`stale-job-cleanup.service.ts:203-211`) would not be retried: nothing adds it to the queue again.

### ImportStreams

One import that is PROCESSING. A text is the sequence of its lines and a line a sequence of pieces
(the beginning or end of a record, `null`, white space, one of the two bytes of a character), so
that only what parsing can tell apart is left. `SendChunk(n, k)` sends any `n` newlines and `k` pieces
more; `buffer` and `lines` are `NdjsonParseTransform`'s or the CSV parser's, `queue` and `ready` the
object buffers on both sides of `BatchTransform`, whose `batch` is what it collects. For JSON `buffer`
is the array of chunks and `queue` the parsed array. `loop` is the place in `processNDJSONStream`,
`processCSVStream` or `processJSONStream`; `counts`, `errors` and `row` are the totals, the report
and the columns last written by `updateJobProgress` or at the end. `taken`, `cuts`, `failures` (the rows that were
counted as failed) and `again` (how many rows an error of RELEASE or COMMIT has counted once more) are history.

* *Chunks.* Only NDJSON is decoded chunk by chunk (`stream.utils.ts:64`): `Decoded` turns the halves of
  a character that was cut into replacement characters. `csv-parse` and `Buffer.concat` do not cut.
* *Numbers.* NDJSON rows carry the number of their line, blank ones included; CSV and JSON rows are
  numbered by `startRow` per batch, which is right only if every batch but the last is full.
* *Back pressure.* `Drained` and `Len(ready) < Hwm` are what `pipe()` and `Transform` wait for. A chunk
  is parsed to its end once it was taken. Byte buffers in front of the parser are abstracted.
* *Errors.* `pipe()` passes none on. A source that breaks off either emits no `error` anyone hears
  (`SourceBreaks`, source `"broken"`: the loop waits on) or one without a listener, which ends the
  process, as an error of the CSV parser does (`ParserFails`). Errors of a JSON file and of a
  batch reach the catch block of `executeImportProcessing` and fail the job.
* *Totals.* `null`, `0` and `false` are JSON but not truthy: such an NDJSON line is in `totalRows` and nowhere
  else (`ScanItem`); in a JSON array it raises an error in validation. A RELEASE or COMMIT that raises an error (fault `"commit"`)
  leaves rows that are successful *and* failed, and in the report twice: `TotalsAddUp` and `ErrorsTell` say by how
  much the sums are then too large, and that processed rows are not affected.
* *Memory.* `MemoryIsBounded` bounds the number of lines in memory, and the length of each by that of the longest line of the
  file. Two promises of O(1) memory (repository's `README.md:31`, `:610`) are therefore not kept: `NdjsonParseTransform` keeps an unterminated line
  whole (`stream.utils.ts:64-92`), so that a file without a newline is in memory as a whole, and `processJSONStream`
  collects all chunks and parses the array (`imports.service.ts:650-668`).

Loops inside one callback are a step per turn: nothing else can change what they look at.

### RecordUpsert

`Import` is a set of imports of one resource type. A record has an optional id, a natural
key (email, slug; none for comments) and the outcome of its checks: passes, refers to a
row that does not exist, or is invalid. `table` holds committed rows; `draft[i]` what the
open transaction of import `i` has written, which are also the rows and keys it has
locked. `BeginBatch` reads `known` (`emailToUser`, `slugToArticle`) once per batch.
`Save` is TypeORM's `save()`: it decides between INSERT and UPDATE by looking the
id up; `Write` is the statement itself, which waits for other writers, or is refused
(`WriteRefused`) by a unique constraint or as the victim of a deadlock, and rolls back to
the savepoint. `BatchError`, `CommitError` and `ImportFails` are the catch block of
`upsertRecords` at each place it can be entered from, and the loss of the process.
`by` in a row, and `doubt`, are history: which record wrote the row, and which lines were
counted before their RELEASE or COMMIT raised an error. Those lines are counted twice, which the comment at
`imports.service.ts:910` does not intend: run `double_count` shows `CountedOnce` violated for COMMIT. `EveryLineCounted` says that
no other lines are, and that none is left out.

The repository's `README.md:400-401` says that users are matched by email and articles by slug. The code
does so only for records without an id: `save()` takes the row whose id a record names, whatever
its key is, and gives it the record's key. `SuccessfulIsStored` and `RowsKeepTheirKey` are
therefore stated for files without ids (`KeysOnly`), `KeysAreUnique` and the others for all. Keys that come
twice are refused within a batch and update the row across batches (`imports.service.ts:952`).

### ExportJobs

The row of `export_jobs` is one record, `job`, because three places `save()` an entity they
read before: `SaveTotal` (`exports.service.ts:252`, read by the transition), `PollSaves` (119,
read by `PollReads`) and the two finalizations, which read it under a row lock. TypeORM's
`save` compares the entity with the row and writes the columns that differ, whoever changed
them; the comparison and the UPDATE are one step here. `job.by` is the run whose lock
columns and `started_at` the row has; `file[w]` the rows worker `w` has written, which
`job.lines` refers to once `fileName` is set; `base[w]` (history) what `countRecords` counted.
`selected` are the rows the filters select at the moment; `countRecords` and every page evaluate them anew.
`FetchPage` is one query of `streamRecords`: the selected rows in some order that
agrees with `created_at`, cut by OFFSET and LIMIT. Imports change the selection between the count and the last page
(`TableChanges`): `Enter` is an INSERT, or an update after which a row matches the filters; `Leave` an update of a column a filter
looks at (`active`, `status`, `author_id`, `updated_at`: `imports.service.ts:971-979, 1098-1111`). A record that names the id of a row can also rewrite its `created_at`:
the row leaves and enters at another time. `left` (history) counts the rows that have left since the count. Rows of one import transaction share
`created_at`, and the database may order them differently for every page. `late` holds the
progress updates on their way: nobody awaits them, and they name the row by id.

Queue, lock and cleanup are those of `ImportJobs`, reduced to what an export can tell apart:
any delivery may be repeated up to `MaxDeliveries`, a lock left behind is the token
`Orphan`, the cleanup is one query and one update with the status the query saw. An error
of a page query ends the process (`WorkerCrashes`): `streamRecords` destroys its output
stream, whose `error` event has no listener in `executeExportProcessing`.
Formats and back pressure are the business of `ExportStreams`; progress counts lines here.

### ExportStreams

A document is a sequence of pieces, one per `write` to the stream `createExportStream` returns: rows,
brackets, commas, a header. `input` is the PassThrough `streamRecords` writes to, `output` the stream
behind it, `sunk` what the storage or the client has got. `FetchPage` writes a whole page and looks at
no return value of `write`; `FormatRow` is `NdjsonStringifyTransform` behind `pipe()`, which waits for
its reader, or a `data` listener of `wrapAsJsonArray` and `transformToCsv`, which do not.
An error of a page query destroys the PassThrough. What follows depends on who listens (`AfterError`):
nobody for an NDJSON export or any upload, so the process ends; for a JSON or CSV response the answer is
500, or, if something was sent, nothing at all: the response is *left open* until the client gives up.
`ProgressFails` is a rejected `updateJobProgress` that nobody awaits: an unhandled rejection ends the process.
After a failed upload or an abort `streamRecords` reads on to the end of the table.

*exportedRows.* `create-export.dto.ts:230` calls it the "Number of rows exported so far", `:236` promises a percentage of 0-100.
Neither holds: `MetricsTransform` counts pieces, so that a running JSON export may show twice its rows and one (`ProgressTheorem` has the
exact bound, no run checks a promise here). `finalizeJob` then writes the number that was counted before the first page (`exports.service.ts:308`),
whatever the file has, and a late progress update may write a smaller one over it (276; `ProgressArrives` of `ExportJobs`).
For imports the percentage is never above 100, but CSV imports show 100 from the first batch on
(`totalRows` is what was read so far) and an NDJSON import with unparsable lines ends below
100; `TotalsAddUp` states the exact sums. `skipped` in the answers is always 0.

## 3. Runs

Every property of a passing run has a mutant in `PROJECT.json`: a plausible bug in a
modelled definition, written next to it as a variant, that makes the property fail
under the same configuration.

| Run | Instance | States | Shows |
|---|---|---|---|
| `lock` | nodes n1 (dependable; 2 callers) and n2 (2 callers, one flaky; slow, may shut down), TTL 2, 1 retry for one | 257 k | `ImplementsLock`, `IntervalsTracked`, `OnlyOwnerFrees`, `AbandonedKeyFrees` |
| `lock_shutdown` | three callers, one node shuts down; no other fault | violation | a shutdown hands over the lock of a running job |
| `imports` | 2 requests with one key (upload and URL), 2 workers, 1 cleaner, 2 batches, 2 attempts, 1 stall; all faults but `db` | 1.2 M | `OneExecution`, `NoBatchTwice`, `CompletedIsWhole`, `LockColumns`, `KeyNamesOneJob` |
| `lifecycle` | 1 request; `crash`, `db`, `stall`, `slow`; fairness | 191 k | `CompletedIsWhole`, `LockColumns`, `ProcessingIsTemporary`, `ImplementsLifecycle` |
| `terminal` | `slow` | violation | the cleanup turns COMPLETED into FAILED |
| `crash` | `crash`, fairness | violation | a worker that dies before the transition: PENDING for ever |
| `records` | 2 imports, 2 keys, 1 known id, 5 files of up to 3 records in batches of 2, articles and comments, all faults | 219 k | `EveryLineCounted`, `SuccessfulIsStored`, `FailedLeavesNoTrace`, `KeysAreUnique`, `RowsKeepTheirKey`, `EveryImportEnds` |
| `double_count` | 1 import; `commit` | violation | a COMMIT that fails counts lines twice |
| `exports` | 2 workers, pages of 2, 2 deliveries, 1 late update; 3 rows selected, or 2 and a third that comes between; rows enter at the latest time, 1 leaves; all faults; fairness | 635 k | `OneExecution`, `LockColumns`, `FileIsWhole`, `FileIsExact`, `ImplementsLifecycle`, `ProcessingIsTemporary` |
| `import_streams` | 4 files in 3 formats, every cut into chunks of up to 2 newlines, batches of 2, report of 2, object buffers of 1, broken sources, errors of the database, RELEASE and COMMIT; fairness | 86 k | `RowsKeepTheirNumber`, `DoneIsWhole`, `TotalsAddUp`, `ErrorsTell`, `MemoryIsBounded`, `ImportComesToAnEnd` |
| `export_streams` | tables of 0 to 5 rows, pages of 2, 3 formats, upload and response, all faults; fairness | 6 k | `SunkIsPrefix`, `CompleteIsWhole`, `ExportEnds` |
| `memory` | a table of 9 rows, no fault | violation | a slow reader makes the whole export pile up in memory |

The five violations are the findings of `PROJECT.json`, each with the line of the
documentation or comment it contradicts.

**Why the bounds are enough.** Two workers meet on one job; a third could only do what the
second does after it left. Two batches distinguish "before", "between" and "after", and
a lost progress update. Two attempts give one retry, one stall gives one redelivery next to a
live worker; both can follow each other. With TTL 2 the renewal fires at 1, the
smallest case in which renewing and expiring are different instants; two callers on each node give an owner, a
successor on the same node, and both on another; on the dependable node two intervals compete for the one place in the map. In `records` the files hold both orders
of two keys (deadlock), a key that comes twice in a batch and again in the next, a batch with no
valid record, a refused reference, and explicit ids; two imports are the smallest deadlock.
In `exports` two rows are a full page followed by an empty one, three a full page and a short one; a row may
leave and come before the first page or between two, its place in the order is first, in the middle,
last or tied, and one that has left may come back elsewhere. The files of `import_streams` have blank lines (which count as lines
and not as rows), white space at an end, lines that are no record, `null`, a character of two bytes, a last line
with and without a newline, and up to five rows, that is three batches, the last one full or not;
a chunk may end anywhere, in the middle of a character too, and a report of 2 is reached from parsing,
from the database and from both. Buffers of one item make every stream wait. In `export_streams` 0 to 5 rows are
no page, a short, a full, and two full pages, followed by an empty one or not.
What the bounds leave open is what the theorems of section 5 are for.

**Pages.** With distinct creation times rows that come cost nothing: before the offset they only
make a page repeat rows. A row that leaves moves those behind it forward, so that the next OFFSET skips one that was
counted: `FileIsWhole` allows one missing row per row that left, and no more. A file can thus be short, or have a row twice, without any error. With ties only the number of lines is
guaranteed, which is why both file properties ask for `~tied`: the code has no second sort key.

**Deadlock** is checked everywhere except in the runs of the lock, of exports and of the streams, where
calls, deliveries and files are finite and the system stops when they are done. `AllEnded` of `RecordUpsert` is the one
stutter for finished imports. In `ImportJobs` the cleanup schedule never ends.

## 4. Fairness

* `DistributedLock`: time passes, pending attempts and releases are answered (or fail), and
  timers of a node are served. A holder need not release: work may take for ever.
* `ImportJobs`: weak fairness of each worker's next step, of the queue, of expiry and of ageing.
  None for requests, crashes, stalls or database errors. The cleanup is a cron job every
  five minutes: strong fairness of its two queries and its updates says that among infinitely
  many scheduled passes some get through although processes may die and updates may fail.
  A permanent failure of the database is excluded, nothing more.
* `ExportJobs`: as in `ImportJobs`. `WF` of a worker's step includes its errors, so that a step may
  fail every time; none for deliveries, polls, changes of the table and late updates.
* `ImportStreams`: weak fairness of the source, the parser, `BatchTransform` and the loop: Node runs each callback
  that is due, and a source that is not broken goes on sending. `ImportComesToAnEnd` excepts a connection that
  breaks off without an event: such a CSV or NDJSON import waits for ever, its lock renewed by its timer.
* `ExportStreams`: weak fairness of the union of the steps that fetch, format and take; each uses up a page, a
  row or a piece. It assumes that the storage or the client goes on reading. None for failures and reports.
* `RecordUpsert`: weak fairness of the union of all imports' regular steps. Nothing is promised to a
  single import, and none is needed because files are finite; PostgreSQL ends deadlocks.

## 5. Theorems

All are proved for every value of the constants that the `ASSUME`s allow. Those say that names are different, the
expiry is at least two ticks, sizes are positive, there are finitely many imports and rows, and chunks may end at a newline.

| Theorem | Hypothesis | Says |
|---|---|---|
| `DistributedLock_proofs!TypeCorrect` | | `TypeOK` |
| `LockTheorem` | `OrphanAssumption` | `ImplementsLock` |
| `IsolationTheorem` | | `FaultIsolation`: a holder on a node without faults owns the key |
| `TrackingTheorem` | | `IntervalsTracked` |
| `OwnerTheorem` | | `OnlyOwnerFrees` |
| `AbandonedTheorem` | | `AbandonedDies`: nothing renews an abandoned key, each tick brings it nearer to its end |
| `TimeTheorem` | | `TimeGoesOn`, `TimersCount`: between two ticks there is finitely much to serve |
| `ImportJobs_proofs!TypeCorrect` | | `TypeOK` |
| `LockColumnsTheorem` | | `LockColumns` |
| `KeyTheorem` | | `KeyNamesOneJob` |
| `LockTheorem` | | `LocksKept`: each job's lock is one of `LockService` |
| `OneExecutionTheorem`, `CompletedTheorem` | `Protected` | `OneExecution`, `CompletedIsWhole` |
| `NoBatchTwiceTheorem` | `~RestartStaleJobs` | `NoBatchTwice` |
| `LifecycleTheorem` | `~RestartStaleJobs` | `ImplementsLifecycle` |
| `StepsTheorem` | | a delivery ends after at most 2 * Batches + 7 steps of its worker |
| `DesertedTheorem` | | `DesertedAges`: a PROCESSING job nobody executes only ages until it ends |
| `RecordUpsert_proofs!TypeCorrect` | | `TypeOK` |
| `CountedTheorem` | | `EveryLineCounted` |
| `TraceTheorem` | | `FailedLeavesNoTrace` |
| `UniqueTheorem` | | `KeysAreUnique` |
| `StoredTheorem`, `KeepTheorem` | | `SuccessfulIsStored`, `RowsKeepTheirKey` |
| `GoesOnTheorem`, `StepsTheorem` | | no deadlock; every step takes an import nearer to its end |
| `ImportStreams_proofs!TypeCorrect` | | `TypeOK` |
| `DoneTheorem` | | `DoneIsWhole` |
| `NumberTheorem` | `WholeCharacters` | `RowsKeepTheirNumber` |
| `ImportTotals_proofs!TotalsTheorem` | | `TotalsAddUp` |
| `ErrorsTheorem` | | `ErrorsTell` |
| `MemoryTheorem` | | `MemoryIsBounded` |
| `ImportProgress_proofs!GoesOnTheorem`, `StepsTheorem` | | no deadlock; every step takes the file nearer to its end |
| `ExportStreams_proofs!TypeCorrect` | | `TypeOK` |
| `PrefixTheorem`, `WholeTheorem` | | `SunkIsPrefix`, `CompleteIsWhole` |
| `ProgressTheorem` | | `exportedRows` of a running job is at most the pieces its rows make (`Reach`) |
| `GoesOnTheorem`, `StepsTheorem` | | no deadlock; every step takes the document nearer to its end |
| `ExportJobs_proofs!TypeCorrect` | | `TypeOK` |
| `LockColumnsTheorem` | | `LockColumns` |
| `LockTheorem` | | `LockKept`: the job's lock is one of `LockService` |
| `OneExecutionTheorem` | `Protected` | `OneExecution` |
| `FileIsKeptTheorem` | `~RestartStaleJobs` | `FileIsKept` |
| `WholeTheorem`, `ExactTheorem` | `~RestartStaleJobs` | `FileIsWhole`, `FileIsExact` |
| `LifecycleTheorem` | `~RestartStaleJobs` | `ImplementsLifecycle` |
| `StepsTheorem` | | a delivery ends after at most \|Row\| + 8 steps of its worker |
| `DesertedTheorem` | | `DesertedAges` |

`Protected` is `~RestartStaleJobs \/ "lapse" \notin Faults`: if stale jobs may be restarted,
the transition can be taken twice and only the Redis lock keeps executions apart. `WholeCharacters` says that in the NDJSON files given a two-byte character is not split
to begin with, which is true of any valid text; without it a replacement could appear although no chunk cut a character.

**The lock.** `FaultIsolation` alone is not inductive. `IInv` adds, for a caller on a dependable
node while no node shuts down (`Isolated`): if it holds the lock, it is the owner, its
interval runs and is the one in the map, and the expiry outlasts the time to the next
renewal; if it does not, it has no interval. The step that matters is
`Tick`: Half < TTL (`HalfBounds`, from TTL >= 2) keeps the key alive up to the renewal.

**The lock as a service.** `LockTheorem` maps the owner to the token while the owner works and to `Orphan` after that. Most
steps stutter; what has to be shown is that the key is never lost by a reliable caller (`TickRefines`, from `IInv`), that an ending process takes
only its own callers with it (`EndRefines`), and that a DEL of `onModuleDestroy`, the one script that compares nothing at the
moment it deletes, comes after `Stop`. On the other side `TokenInv` says that the token at a job's key is that of a worker between
`AcquireLock` and `ReleaseLock`, or nobody's; from it every step of `ImportJobs` and `ExportJobs` is a step of their lock or leaves it alone.
`LocksKept` quantifies over an instance with a parameter, which TLC does not evaluate in a property; it is proved only.

**What liveness rests on.** Fairness and ENABLED are out of the prover's reach, but the facts about steps from which each liveness
property follows are theorems. *Something can go on:* `GoesOnTheorem` (streams and records) and `TimeTheorem` (the lock) say that
no state before the end leaves everyone waiting. For records this is the deadlock argument for any number of imports: of all sets of imports that wait only for each
other there is a smallest one, and there PostgreSQL refuses a statement. *Nothing goes on for ever:* `StepsTheorem` gives a measure, a natural number that
each step of the component takes down, failures and retries included, and that nobody else raises; for an import's streams
it is what the source has not sent first and what waits in the buffers second. *What was left behind ends:* `AbandonedTheorem` and
`DesertedTheorem` say that the clock that will end an abandoned key or a deserted row only runs forward, and that nobody takes either up in between.
What is left to TLC is the last inference: a step that stays possible and is scheduled fairly happens.

**Import jobs, unconditional part.** `BaseInv` is types, the agreement of worker, queue entry
and request steps (a job is queued only after its row was inserted and never
saved again), what `found` may contain, and `LockColumns`.

**One execution.** `SafeInv` adds to `BaseInv`, without restarts, `FreshInv`: a row that is
PENDING has written nothing and no worker is past its transition, so a transition happens once;
with restarts and without lapses, `HolderInv`: a worker past `AcquireLock` owns the key.
`RunInv` (a running import is not COMPLETED, and what it counted is written) is what makes
`CompletedIsWhole` inductive.

**Refinement.** Every step maps to `Accept`, `Claim`, `Write`, `Complete`, `GiveUp`, `Doubt` or a stutter of `JobLifecycle`
with the identity on `status` and `written`; the proof has one case per action. Without `"slow"` it needs `ClientInv`: a
row ages, and the cleanup holds it, only after its worker has gone, and the row of a running import is PROCESSING. With `"slow"`
that is false, as run `terminal` shows, and `StartedInv` takes its place: what the cleanup holds was started,
so that its late update never hits a row that is still PENDING.

**Records.** `BatchInv` places every import between the first line of its batch and the next; `TargetInv`
says what a statement that was decided on is about to write. `CountInv` adds to `EveryLineCounted` which record an
uncommitted row may be from (`DraftInv`) and that a committed one is from a line that was not given back
(`TraceInv`). `UniqueInv` is the argument for the keys: two open transactions never hold one row or one key
(`LockInv`), and what one of them sees has unique keys (`VisibleInv`); a write waits for exactly the rows that would
break this. `KeyInv`, for files without ids, says that a key that was looked up is still that of its row (`KnownInv`),
that a row that was not found is new (`FreshInv`), and that no draft changes a key (`SameKeyInv`). With it a row once
written stays under its key (`KeepTheorem`), which `StoredInv` carries from the draft through COMMIT to the counts.

**Import streams: rows and numbers.** `TextInv` says where each piece of the file is at any time: in what the source has not
sent (`RestInv`), in the parser's buffer (`KeptInv`) or in a line that is complete (`LineInv`), with the damage that cutting a
character may have done. `ItemInv` says the same of rows: an item is `Good` if it has the text and number of the row of its rank,
and the items given to the loop, in batches, in the collecting batch and in the queue are good in this order
(`TakenInv`, `ReadyInv`, `OpenInv`, `EndedInv`, `ArrayInv`). All batches before the last are full, hence the numbers of CSV and JSON rows
(`Start`). The hard steps are `SendChunk` (`SendText`: joining the kept piece with a chunk's first) and the two flushes. `DoneInv` is the end of
that chain: nothing is left when the loop ends.

**Import streams: totals and report.** What was scanned of the batch at hand splits `taken` in two (`WorkInv`). `SumInv` has the
sums of the four counters with the lines met so far, `TotalInv` that of `totalRows` with the array of a JSON file, `RowInv` carries them to the row.
For the report, numbers of items are unique (`UniqueNumbers`, from `TakenInv`); records still to be written (`ValidInv`) were scanned and
not reported, so that what the database rejects is new to the report: the rows in `failures` are as many as were counted as failed, but for `again` (`ErrorInv`).

**Import streams: memory.** `EndInv` and `WaitInv` say how much waits where. `HeldInv` adds that each text that waits fits a line of the file: pieces that were cut are
joined with what is left of their own line only (`OpenBuffer`, `LineFits`), and trimming shortens (`TrimShortens`).

**Export streams.** `InputInv`: the rows waiting are the ones after those formatted. `OutputInv`: pieces sent and
pieces waiting are together what formatting that many rows emits, the beginning of `Document`. `SentInv`: the count and the progress are behind what was sent.

**Exports: the row.** `LockColumns` needs what is known of entities that were read and are not yet
saved (`EntityInv`): a run's is PROCESSING with a lock, a client's COMPLETED without. It holds
whatever the cleanup does in between. `FreshInv` is that of `ImportJobs`: before the transition there
is no run, so there is only one, even if `SaveTotal` puts PROCESSING back after the cleanup has
failed the job. `FileInv` adds that while a file is written the row has none and nobody polls
a link, and that what a client read is the file the row still has. `FileIsKept` follows. With restarts the argument for one
execution is `HolderInv` of `ImportJobs`. The file is not safe then: a second run may find entities of the first
on their way, and TLC shows `FileIsWhole` violated, so that those theorems need `~RestartStaleJobs`.

**Exports: the pages.** `CountInv` says that no more counted rows have gone from the selection than have left it, and that the number of the counted
is in the entity and later in the row. The heart of `WholeTheorem` is `CoverInv`: of the counted rows that
are not in the file all but `left` are still ahead, that is, have a rank (number of selected rows not younger) above the length of the file,
the next OFFSET. A row that enters never lowers a rank; one that leaves lowers those behind it by one, and so
brings one row at most below the offset. A page holds the rows of the ranks
after the offset (`OrderRank`, `PageRows`), which needs distinct times, and only a page that is not full
ends the file, when no rank is left. `PrefixInv` says that as long as no row has left and what is selected is what was counted the file is
the beginning of the selection, and a complete one is then all of it. `DoneInv` carries both over to
the finished job, past polls, late progress updates and further changes of the table.

**Exports: refinement.** A client's view is the status, the lines and the rows; what was promised is what the one run counted. A completed file is
`Whole` by the two paragraphs above, of selected rows only if none left (`RowsInv`), and never replaced.
Only a slow export leaves COMPLETED or FAILED again: `AgedInv` says that otherwise the cleanup holds only rows whose run is over.
With `"slow"`, a `SaveTotal` or a poll may put PROCESSING or COMPLETED back after the cleanup has failed the row (`Return`).

**Only model-checked:** the liveness properties (`AbandonedKeyFrees`, `ProcessingIsTemporary`, `EveryImportEnds`,
`ImportComesToAnEnd`, `ExportEnds` and the violated `CrashIsRecovered`), because the prover has no rule for fairness
here; their parts that speak of single steps are proved, see above. Every safety property of a passing run is a theorem.

## 6. Not modelled, and why

* HTTP layer, guards and filters: stateless; their requests appear as the requests of `ImportJobs` and `ExportJobs`, and
  the streamed response is in `ExportStreams`.
* Which texts pass validation, and which rows the filters of an export select: pure functions of one record or row; a
  record's check is an input, and so are the selection and its changes. Fields choose columns. One thing seen there: `applyCommonFilters` binds the value of `createdAfter` to the
  parameter `createdAt` (`exports.service.ts:570-572`), so that the query has an unbound parameter and every such export
  fails at the count.
* `StorageService` beyond `getStream` and `uploadStream`: single requests to S3, whose failures are faults of
  the modules that make them.
* Code without a caller in the repository: `forceCleanup*`, `getStaleJobStats`, `withLock`, `RateLimitTransform`,
  `transformStream`, `streamToAsyncIterator`.
* Health, Bull board, metrics, logging and the removal of old queue entries: they only read, or change nothing a job can see.
* A second run of an export next to the late saves of the first: it takes `RestartStaleJobs`, which the shipped program
  cannot set (see `ImportJobs`).
* Hazards without a property: duplicates are looked for within a batch although the comment speaks of the file (the
  later record updates the row, which breaks none of the properties; `ManyFiles` has such a file); a record that names the id of
  another row (see `RecordUpsert`); and the final `exportedRows` (see `ExportStreams`).

TypeORM, PostgreSQL, BullMQ, Redis, `csv-parse` and Node's streams are modelled from how the code uses them and
marked `external` in the map: READ COMMITTED with row and unique index locks, at-least-once delivery with stalled job
detection, the commands SET NX PX, GET, DEL, PEXPIRE, and `pipe()` with back pressure and without errors.

Pure functions in the models are written as functions, never with RECURSIVE, so that every module is open to proofs.
