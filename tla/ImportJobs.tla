----------------------------- MODULE ImportJobs -----------------------------
(***************************************************************************)
(* The life of import jobs: the requests that create them, the queue that  *)
(* delivers them, the workers that import their files and the cleanup that *)
(* looks for jobs nobody works on any more.  The parts meet in the rows of *)
(* import_jobs, the entries of the queue and the Redis lock of each job.   *)
(*                                                                         *)
(* A request creates at most one job, with a fresh id: the job is named    *)
(* after the request.  A file is a number of batches.  Redis keeps a lock  *)
(* as DistributedLock describes; here its timers are reduced to what they  *)
(* can do to a job: a lock whose token nobody holds expires, and with the  *)
(* fault "lapse" so does the lock of a working process.                    *)
(***************************************************************************)
EXTENDS Naturals

CONSTANTS
  Request,           \* POST /v1/imports requests, and the jobs they create
  Key, NoKey,        \* idempotency keys
  KeyOf,             \* the key a request carries
  FromUrl,           \* requests that name a remote file instead of uploading one
  NoJob,             \* a worker without a delivery
  Worker, NoWorker,  \* queue workers: each takes one delivery at a time
  Orphan,            \* a lock token that no running process holds
  Cleaner, NoCleaner,\* processes that run the stale job cleanup
  Batches,           \* batches in a file
  MaxAttempts,       \* deliveries of a job that end in an error
  MaxStalls,         \* deliveries of a job that the queue takes away
  RestartStaleJobs,  \* the configuration switch of the cleanup
  Faults             \* what may go wrong

FaultKinds ==
  {"request",  \* a request fails or its process dies between two steps
   "crash",    \* a worker process or a cleaning process dies
   "redis",    \* a lock command raises an error
   "lapse",    \* a job's lock expires, or a shutdown deletes it, while its holder works
   "db",       \* a transaction of the processing raises an error
   "stall",    \* the queue takes a delivery from a worker that is still busy with it
   "slow"}     \* an import outlives the thresholds of the cleanup

ASSUME NamesAssumption ==
  /\ NoKey \notin Key /\ KeyOf \in [Request -> Key \cup {NoKey}]
  /\ FromUrl \subseteq Request /\ NoJob \notin Request
  /\ NoWorker \notin Worker /\ Orphan \notin Worker /\ NoWorker # Orphan
  /\ NoCleaner \notin Cleaner /\ Orphan \notin Cleaner /\ NoCleaner # Orphan
ASSUME BoundsAssumption ==
  Batches \in Nat /\ MaxAttempts \in Nat \ {0} /\ MaxStalls \in Nat
ASSUME SwitchAssumption == RestartStaleJobs \in BOOLEAN /\ Faults \subseteq FaultKinds

VARIABLES
  request,   \* the step a request has reached
  answer,    \* the job a request was answered with: the jobs of the set, at most one
  \* the row of a job
  status,    \* its status, "none" before it is inserted
  locked,    \* whether locked_by and locked_at are set
  age,       \* thresholds its started_at and locked_at have passed while PROCESSING
  rows,      \* the progress it reports, in batches
  written,   \* batches of its file that were written to the tables
  \* the queue entry of a job
  queue, attempts, stalls, holder,
  lock,      \* the token at lock:import-job:<id>
  \* a worker
  wpc, wjob, done, failed,
  \* the cleanup
  cleanupLock, cpc, found

rowVars == <<status, locked, age, rows>>
queueVars == <<queue, attempts, stalls, holder>>
workerVars == <<wpc, wjob, done, failed>>
cleanVars == <<cleanupLock, cpc, found>>
apiVars == <<request, answer>>
vars == <<apiVars, rowVars, written, queueVars, lock, workerVars, cleanVars>>

JobStatus == {"PENDING", "PROCESSING", "COMPLETED", "FAILED"}
Terminal == {"COMPLETED", "FAILED"}

\* The sets a job's lock and the cleanup's lock range over; NoWorker and
\* NoCleaner mean that the key is absent.
JobTokens == Worker \cup {NoWorker, Orphan}
CleanupTokens == Cleaner \cup {NoCleaner, Orphan}

TypeOK ==
  /\ request \in [Request -> {"lookup", "create", "upload", "saveUrl", "enqueue", "replied", "error"}]
  /\ answer \in [Request -> SUBSET Request]
  /\ status \in [Request -> JobStatus \cup {"none"}]
  /\ locked \in [Request -> BOOLEAN]
  /\ age \in [Request -> 0..2]
  /\ rows \in [Request -> 0..Batches]
  /\ written \in [Request -> Nat]
  /\ queue \in [Request -> {"none", "waiting", "active", "delayed", "completed", "failed"}]
  /\ attempts \in [Request -> 0..MaxAttempts]
  /\ stalls \in [Request -> 0..MaxStalls]
  /\ holder \in [Request -> Worker \cup {NoWorker}]
  /\ lock \in [Request -> JobTokens]
  /\ wpc \in [Worker -> {"idle", "acquire", "transition", "run", "progress", "complete",
                         "fail", "release", "settle"}]
  /\ wjob \in [Worker -> Request \cup {NoJob}]
  /\ done \in [Worker -> 0..Batches]
  /\ failed \in [Worker -> BOOLEAN]
  /\ cleanupLock \in CleanupTokens
  /\ cpc \in [Cleaner -> {"idle", "scan", "scanLocks", "handle"}]
  /\ found \in [Cleaner -> SUBSET (Request \X JobStatus)]

Init ==
  /\ request = [r \in Request |-> "lookup"]
  /\ answer = [r \in Request |-> {}]
  /\ status = [r \in Request |-> "none"]
  /\ locked = [r \in Request |-> FALSE]
  /\ age = [r \in Request |-> 0]
  /\ rows = [r \in Request |-> 0]
  /\ written = [r \in Request |-> 0]
  /\ queue = [r \in Request |-> "none"]
  /\ attempts = [r \in Request |-> 0]
  /\ stalls = [r \in Request |-> 0]
  /\ holder = [r \in Request |-> NoWorker]
  /\ lock = [r \in Request |-> NoWorker]
  /\ wpc = [w \in Worker |-> "idle"]
  /\ wjob = [w \in Worker |-> NoJob]
  /\ done = [w \in Worker |-> 0]
  /\ failed = [w \in Worker |-> FALSE]
  /\ cleanupLock = NoCleaner
  /\ cpc = [c \in Cleaner |-> "idle"]
  /\ found = [c \in Cleaner |-> {}]

-----------------------------------------------------------------------------
(* Requests *)

SameKey(r, j) == KeyOf[r] # NoKey /\ KeyOf[j] = KeyOf[r]
JobsWithKeyOf(r) == {j \in Request : status[j] # "none" /\ SameKey(r, j)}

\* Variant: the row is inserted without the unique constraint on the key.
KeyIsTaken_NoConstraint(r) == FALSE

\* The unique constraint on idempotency_key.
KeyIsTaken(r) == JobsWithKeyOf(r) # {}

\* A request reads whether its key has a job before it does anything else.
FindByIdempotencyKey(r) ==
  /\ request[r] = "lookup"
  /\ IF JobsWithKeyOf(r) # {}
     THEN /\ \E j \in JobsWithKeyOf(r) : answer' = [answer EXCEPT ![r] = {j}]
          /\ request' = [request EXCEPT ![r] = "replied"]
     ELSE /\ request' = [request EXCEPT ![r] = "create"]
          /\ UNCHANGED answer
  /\ UNCHANGED <<rowVars, written, queueVars, lock, workerVars, cleanVars>>

CreateRow(r) ==
  /\ request[r] = "create" /\ ~KeyIsTaken(r)
  /\ status' = [status EXCEPT ![r] = "PENDING"]
  /\ request' = [request EXCEPT ![r] = IF r \in FromUrl THEN "enqueue" ELSE "upload"]
  /\ UNCHANGED <<answer, locked, age, rows, written, queueVars, lock, workerVars, cleanVars>>

\* The insert violates the constraint: the client is told of an internal error.
CreateConflict(r) ==
  /\ request[r] = "create" /\ KeyIsTaken(r)
  /\ request' = [request EXCEPT ![r] = "error"]
  /\ UNCHANGED <<answer, rowVars, written, queueVars, lock, workerVars, cleanVars>>

UploadFile(r) ==
  /\ request[r] = "upload"
  /\ request' = [request EXCEPT ![r] = "saveUrl"]
  /\ UNCHANGED <<answer, rowVars, written, queueVars, lock, workerVars, cleanVars>>

\* save(job) writes whatever the entity of this request says, not only fileUrl.
SaveFileUrl(r) ==
  /\ request[r] = "saveUrl"
  /\ status' = [status EXCEPT ![r] = "PENDING"]
  /\ locked' = [locked EXCEPT ![r] = FALSE]
  /\ rows' = [rows EXCEPT ![r] = 0]
  /\ request' = [request EXCEPT ![r] = "enqueue"]
  /\ UNCHANGED <<answer, age, written, queueVars, lock, workerVars, cleanVars>>

\* queue.add, answered or not.
Enqueue(r) ==
  /\ request[r] = "enqueue"
  /\ queue' = [queue EXCEPT ![r] = "waiting"]
  /\ \/ /\ request' = [request EXCEPT ![r] = "replied"]
        /\ answer' = [answer EXCEPT ![r] = {r}]
     \/ /\ "request" \in Faults
        /\ request' = [request EXCEPT ![r] = "error"]
        /\ UNCHANGED answer
  /\ UNCHANGED <<rowVars, written, attempts, stalls, holder, lock, workerVars, cleanVars>>

\* The database, S3 or the queue raises an error, or the process dies: nothing
\* that earlier steps did is undone.
RequestFails(r) ==
  /\ "request" \in Faults
  /\ request[r] \in {"lookup", "create", "upload", "saveUrl", "enqueue"}
  /\ request' = [request EXCEPT ![r] = "error"]
  /\ UNCHANGED <<answer, rowVars, written, queueVars, lock, workerVars, cleanVars>>

RequestStep(r) ==
  \/ FindByIdempotencyKey(r) \/ CreateRow(r) \/ CreateConflict(r)
  \/ UploadFile(r) \/ SaveFileUrl(r) \/ Enqueue(r) \/ RequestFails(r)

-----------------------------------------------------------------------------
(* The queue (BullMQ) as the service uses it *)

Working(w, j) == wjob[w] = j /\ wpc[w] # "idle"

\* A worker with nothing to do takes a waiting job.
Deliver(w, j) ==
  /\ wpc[w] = "idle" /\ queue[j] = "waiting"
  /\ queue' = [queue EXCEPT ![j] = "active"]
  /\ holder' = [holder EXCEPT ![j] = w]
  /\ wpc' = [wpc EXCEPT ![w] = "acquire"]
  /\ wjob' = [wjob EXCEPT ![w] = j]
  /\ done' = [done EXCEPT ![w] = 0]
  /\ failed' = [failed EXCEPT ![w] = FALSE]
  /\ UNCHANGED <<apiVars, rowVars, written, attempts, stalls, lock, cleanVars>>

\* The processor returned or threw.  The queue listens only if the delivery is
\* still this worker's.
Settle(w) ==
  LET j == wjob[w]
  IN  /\ wpc[w] = "settle"
      /\ IF holder[j] # w THEN UNCHANGED <<queue, attempts, holder>>
         ELSE /\ holder' = [holder EXCEPT ![j] = NoWorker]
              /\ IF failed[w]
                 THEN /\ attempts' = [attempts EXCEPT ![j] = @ + 1]
                      /\ queue' = [queue EXCEPT ![j] =
                           IF attempts'[j] < MaxAttempts THEN "delayed" ELSE "failed"]
                 ELSE /\ queue' = [queue EXCEPT ![j] = "completed"]
                      /\ UNCHANGED attempts
      /\ wpc' = [wpc EXCEPT ![w] = "idle"]
      /\ wjob' = [wjob EXCEPT ![w] = NoJob]
      /\ UNCHANGED <<apiVars, rowVars, written, stalls, lock, done, failed, cleanVars>>

\* The backoff of a failed attempt ends.
Backoff(j) ==
  /\ queue[j] = "delayed"
  /\ queue' = [queue EXCEPT ![j] = "waiting"]
  /\ UNCHANGED <<apiVars, rowVars, written, attempts, stalls, holder, lock, workerVars, cleanVars>>

\* A delivery whose worker is gone, or does not report in time, is taken away.
Abandoned(j) == queue[j] = "active" /\ ~Working(holder[j], j)

TakeAway(j) ==
  /\ queue' = [queue EXCEPT ![j] = IF stalls[j] < MaxStalls THEN "waiting" ELSE "failed"]
  /\ stalls' = [stalls EXCEPT ![j] = IF @ < MaxStalls THEN @ + 1 ELSE @]
  /\ holder' = [holder EXCEPT ![j] = NoWorker]
  /\ UNCHANGED <<apiVars, rowVars, written, attempts, lock, workerVars, cleanVars>>

RedeliverAbandoned(j) == Abandoned(j) /\ TakeAway(j)

RedeliverStalled(j) ==
  /\ "stall" \in Faults
  /\ queue[j] = "active" /\ Working(holder[j], j)
  /\ TakeAway(j)

-----------------------------------------------------------------------------
(* processImport *)

AtStep(w, step) == wpc[w] = step
GoTo(w, step) == wpc' = [wpc EXCEPT ![w] = step]

\* SET NX on the key of the job's lock.
LockIsFree(j) == lock[j] = NoWorker

AcquireLock(w) ==
  /\ AtStep(w, "acquire") /\ LockIsFree(wjob[w])
  /\ lock' = [lock EXCEPT ![wjob[w]] = w]
  /\ GoTo(w, "transition")
  /\ UNCHANGED <<apiVars, rowVars, written, queueVars, wjob, done, failed, cleanVars>>

\* acquireLock returns null because the key exists or because Redis raised an
\* error, possibly after storing the token: processImport returns normally.
AcquireRefused(w) ==
  /\ AtStep(w, "acquire")
  /\ \/ ~LockIsFree(wjob[w]) /\ UNCHANGED lock
     \/ "redis" \in Faults /\ UNCHANGED lock
     \/ /\ "redis" \in Faults /\ LockIsFree(wjob[w])
        /\ lock' = [lock EXCEPT ![wjob[w]] = Orphan]
  /\ GoTo(w, "settle")
  /\ UNCHANGED <<apiVars, rowVars, written, queueVars, wjob, done, failed, cleanVars>>

\* Variant: the status of the locked row is not compared.
MayStart_AnyStatus(j) == status[j] # "none"

\* atomicStatusTransition reads the row under its lock and compares the status.
MayStart(j) == status[j] = "PENDING"

MarkProcessing(j) ==
  /\ status' = [status EXCEPT ![j] = "PROCESSING"]
  /\ locked' = [locked EXCEPT ![j] = TRUE]
  /\ age' = [age EXCEPT ![j] = 0]
  /\ UNCHANGED rows

StartProcessing(w) ==
  /\ AtStep(w, "transition") /\ MayStart(wjob[w])
  /\ MarkProcessing(wjob[w])
  /\ GoTo(w, "run")
  /\ UNCHANGED <<apiVars, written, queueVars, lock, wjob, done, failed, cleanVars>>

\* The status is another one, or the transaction raises an error before or after
\* it commits: the job is left as it is and processImport returns normally.
StartRefused(w) ==
  /\ AtStep(w, "transition")
  /\ \/ ~MayStart(wjob[w]) /\ UNCHANGED rowVars
     \/ "db" \in Faults /\ UNCHANGED rowVars
     \/ "db" \in Faults /\ MayStart(wjob[w]) /\ MarkProcessing(wjob[w])
  /\ GoTo(w, "release")
  /\ UNCHANGED <<apiVars, written, queueVars, lock, wjob, done, failed, cleanVars>>

\* The connection fails where nothing catches it, at its start or in the rollback
\* after a lost commit: the error goes to the queue, which will try again.
StartError(w) ==
  /\ AtStep(w, "transition") /\ "db" \in Faults
  /\ \/ UNCHANGED rowVars
     \/ MayStart(wjob[w]) /\ MarkProcessing(wjob[w])
  /\ failed' = [failed EXCEPT ![w] = TRUE]
  /\ GoTo(w, "release")
  /\ UNCHANGED <<apiVars, written, queueVars, lock, wjob, done, cleanVars>>

\* Variant: the loop runs once too often.
MoreBatches_OffByOne(w) == done[w] <= Batches

\* The stream has another batch.
MoreBatches(w) == done[w] < Batches

\* A batch is written to the tables; every batch of a JSON file, and every tenth
\* of the other formats, is followed by a progress update.
ProcessBatch(w) ==
  /\ AtStep(w, "run") /\ MoreBatches(w)
  /\ done' = [done EXCEPT ![w] = @ + 1]
  /\ written' = [written EXCEPT ![wjob[w]] = @ + 1]
  /\ \E step \in {"run", "progress"} : GoTo(w, step)
  /\ UNCHANGED <<apiVars, rowVars, queueVars, lock, wjob, failed, cleanVars>>

\* updateJobProgress: no condition on the row.
UpdateJobProgress(w) ==
  /\ AtStep(w, "progress")
  /\ rows' = [rows EXCEPT ![wjob[w]] = done[w]]
  /\ GoTo(w, "run")
  /\ UNCHANGED <<apiVars, status, locked, age, written, queueVars, lock, wjob, done, failed, cleanVars>>

\* The stream, the parser, the progress update or the storage raises an error.
ProcessingFails(w) ==
  /\ wpc[w] \in {"run", "progress"}
  /\ GoTo(w, "fail")
  /\ UNCHANGED <<apiVars, rowVars, written, queueVars, lock, wjob, done, failed, cleanVars>>

\* Variant: the end of the file is not awaited.
FileIsRead_Early(w) == done[w] > 0

\* The loop over the batches has ended.
FileIsRead(w) == done[w] = Batches

ProcessingEnds(w) ==
  /\ AtStep(w, "run") /\ FileIsRead(w)
  /\ GoTo(w, "complete")
  /\ UNCHANGED <<apiVars, rowVars, written, queueVars, lock, wjob, done, failed, cleanVars>>

\* finalizeJob reads the row under its lock and compares the status.
MayFinalize(j) == status[j] = "PROCESSING"

\* Variant: the lock columns are not cleared.
LeaveProcessing_KeepsLock(j, s) ==
  /\ status' = [status EXCEPT ![j] = s]
  /\ age' = [age EXCEPT ![j] = 0]
  /\ UNCHANGED locked

LeaveProcessing(j, s) ==
  /\ status' = [status EXCEPT ![j] = s]
  /\ locked' = [locked EXCEPT ![j] = FALSE]
  /\ age' = [age EXCEPT ![j] = 0]

WriteCompleted(w) ==
  /\ LeaveProcessing(wjob[w], "COMPLETED")
  /\ rows' = [rows EXCEPT ![wjob[w]] = done[w]]

FinalizeCompleted(w) ==
  /\ AtStep(w, "complete")
  /\ IF MayFinalize(wjob[w]) THEN WriteCompleted(w) ELSE UNCHANGED rowVars
  /\ GoTo(w, "release")
  /\ UNCHANGED <<apiVars, written, queueVars, lock, wjob, done, failed, cleanVars>>

\* The transaction raises an error, before or after it commits: it is caught and
\* the job is to be finalized as FAILED.
FinalizeError(w) ==
  /\ AtStep(w, "complete") /\ "db" \in Faults
  /\ \/ UNCHANGED rowVars
     \/ MayFinalize(wjob[w]) /\ WriteCompleted(w)
  /\ GoTo(w, "fail")
  /\ UNCHANGED <<apiVars, written, queueVars, lock, wjob, done, failed, cleanVars>>

\* The error is thrown on to the queue, whether or not the row could be written.
FinalizeFailed(w) ==
  /\ AtStep(w, "fail")
  /\ \/ IF MayFinalize(wjob[w])
        THEN LeaveProcessing(wjob[w], "FAILED") /\ UNCHANGED rows
        ELSE UNCHANGED rowVars
     \/ "db" \in Faults /\ UNCHANGED rowVars
  /\ failed' = [failed EXCEPT ![w] = TRUE]
  /\ GoTo(w, "release")
  /\ UNCHANGED <<apiVars, written, queueVars, lock, wjob, done, cleanVars>>

\* releaseLock deletes the key if it still holds this worker's token.  If Redis
\* raises an error the token stays until it expires.
ReleaseLock(w) ==
  /\ AtStep(w, "release")
  /\ \/ lock' = [lock EXCEPT ![wjob[w]] = IF @ = w THEN NoWorker ELSE @]
     \/ "redis" \in Faults /\ lock' = [lock EXCEPT ![wjob[w]] = IF @ = w THEN Orphan ELSE @]
  /\ GoTo(w, "settle")
  /\ UNCHANGED <<apiVars, rowVars, written, queueVars, wjob, done, failed, cleanVars>>

WorkerStep(w) ==
  \/ AcquireLock(w) \/ AcquireRefused(w)
  \/ StartProcessing(w) \/ StartRefused(w) \/ StartError(w)
  \/ ProcessBatch(w) \/ UpdateJobProgress(w) \/ ProcessingFails(w) \/ ProcessingEnds(w)
  \/ FinalizeCompleted(w) \/ FinalizeError(w) \/ FinalizeFailed(w)
  \/ ReleaseLock(w) \/ Settle(w)

\* The process dies: its token stays at the key, its delivery with the queue.
WorkerCrashes(w) ==
  /\ "crash" \in Faults /\ wpc[w] # "idle"
  /\ lock' = [lock EXCEPT ![wjob[w]] = IF @ = w THEN Orphan ELSE @]
  /\ GoTo(w, "idle")
  /\ wjob' = [wjob EXCEPT ![w] = NoJob]
  /\ UNCHANGED <<apiVars, rowVars, written, queueVars, done, failed, cleanVars>>

\* A token that nobody renews expires.
LockExpires(j) ==
  /\ lock[j] = Orphan
  /\ lock' = [lock EXCEPT ![j] = NoWorker]
  /\ UNCHANGED <<apiVars, rowVars, written, queueVars, workerVars, cleanVars>>

\* The renewal of a working process has stopped, or its node is shutting down.
LockLapses(j) ==
  /\ "lapse" \in Faults /\ lock[j] \in Worker
  /\ lock' = [lock EXCEPT ![j] = NoWorker]
  /\ UNCHANGED <<apiVars, rowVars, written, queueVars, workerVars, cleanVars>>

-----------------------------------------------------------------------------
(* StaleJobCleanupService *)

\* A worker is between the transition to PROCESSING and the end of finalizeJob.
Executing(w, j) == wjob[w] = j /\ wpc[w] \in {"run", "progress", "complete", "fail"}

\* The row of a job grows older than the next threshold: locked_at passes its
\* ten minutes first, started_at its thirty minutes next.
RowAges(j) ==
  /\ status[j] = "PROCESSING" /\ age[j] < 2
  /\ "slow" \in Faults \/ \A w \in Worker : ~Executing(w, j)
  /\ age' = [age EXCEPT ![j] = @ + 1]
  /\ UNCHANGED <<apiVars, status, locked, rows, written, queueVars, lock, workerVars, cleanVars>>

StaleProcessing(j) == status[j] = "PROCESSING" /\ age[j] = 2
StaleLock(j) == locked[j] /\ age[j] >= 1 /\ status[j] \in {"PENDING", "PROCESSING"}

\* The cleanup lock is free; a process that finds it taken skips this round.  So does one
\* whose SET raises an error, which may have stored the token all the same.
CleanupBegins(c) ==
  /\ cpc[c] = "idle" /\ cleanupLock = NoCleaner
  /\ \/ cleanupLock' = c /\ cpc' = [cpc EXCEPT ![c] = "scan"]
     \/ "redis" \in Faults /\ cleanupLock' = Orphan /\ UNCHANGED cpc
  /\ UNCHANGED <<apiVars, rowVars, written, queueVars, lock, workerVars, found>>

FindStaleProcessing(c) ==
  /\ cpc[c] = "scan"
  /\ found' = [found EXCEPT ![c] = {<<j, status[j]>> : j \in {j \in Request : StaleProcessing(j)}}]
  /\ cpc' = [cpc EXCEPT ![c] = "scanLocks"]
  /\ UNCHANGED <<apiVars, rowVars, written, queueVars, lock, workerVars, cleanupLock>>

\* Jobs that both queries return are kept once, as the first query read them.
FindStaleLocks(c) ==
  /\ cpc[c] = "scanLocks"
  /\ LET seen == {f[1] : f \in found[c]}
     IN  found' = [found EXCEPT ![c] =
           @ \cup {<<j, status[j]>> : j \in {j \in Request \ seen : StaleLock(j)}}]
  /\ cpc' = [cpc EXCEPT ![c] = "handle"]
  /\ UNCHANGED <<apiVars, rowVars, written, queueVars, lock, workerVars, cleanupLock>>

\* Variant: the status the query saw is not looked at.
ResetsToPending_Always(s) == TRUE

\* The branch is taken on the status the query saw.
ResetsToPending(s) == RestartStaleJobs /\ s = "PROCESSING"

TakeFound(c, j, s) ==
  /\ cpc[c] = "handle" /\ <<j, s>> \in found[c]
  /\ found' = [found EXCEPT ![c] = @ \ {<<j, s>>}]
  /\ UNCHANGED <<apiVars, rows, written, queueVars, lock, workerVars, cleanupLock, cpc>>

\* handleStaleImportJob updates the row by its id, whatever it holds by now.
HandleStaleJob(c, j) ==
  \E s \in JobStatus :
    TakeFound(c, j, s) /\ LeaveProcessing(j, IF ResetsToPending(s) THEN "PENDING" ELSE "FAILED")

\* The update raises an error: it is logged and the next job is handled.
HandleError(c, j) ==
  /\ "db" \in Faults
  /\ \E s \in JobStatus : TakeFound(c, j, s) /\ UNCHANGED <<status, locked, age>>

\* The script deletes the key if it holds this process's token, or Redis raises an
\* error and the token stays until it expires.
ReleaseCleanupLock(c) ==
  \/ cleanupLock' = IF cleanupLock = c THEN NoCleaner ELSE cleanupLock
  \/ "redis" \in Faults /\ cleanupLock' = IF cleanupLock = c THEN Orphan ELSE cleanupLock

\* Every job was handled, or one of the queries raised an error.
CleanupEnds(c) ==
  /\ \/ cpc[c] = "handle" /\ found[c] = {}
     \/ "db" \in Faults /\ cpc[c] \in {"scan", "scanLocks"}
  /\ ReleaseCleanupLock(c)
  /\ cpc' = [cpc EXCEPT ![c] = "idle"]
  /\ found' = [found EXCEPT ![c] = {}]
  /\ UNCHANGED <<apiVars, rowVars, written, queueVars, lock, workerVars>>

CleanerCrashes(c) ==
  /\ "crash" \in Faults /\ cpc[c] # "idle"
  /\ cleanupLock' = IF cleanupLock = c THEN Orphan ELSE cleanupLock
  /\ cpc' = [cpc EXCEPT ![c] = "idle"]
  /\ found' = [found EXCEPT ![c] = {}]
  /\ UNCHANGED <<apiVars, rowVars, written, queueVars, lock, workerVars>>

CleanupLockExpires ==
  /\ cleanupLock = Orphan \/ ("lapse" \in Faults /\ cleanupLock \in Cleaner)
  /\ cleanupLock' = NoCleaner
  /\ UNCHANGED <<apiVars, rowVars, written, queueVars, lock, workerVars, cpc, found>>

HandleSome(c) == \E j \in Request : HandleStaleJob(c, j)

CleanerStep(c) ==
  \/ CleanupBegins(c) \/ FindStaleProcessing(c) \/ FindStaleLocks(c)
  \/ HandleSome(c) \/ CleanupEnds(c)
  \/ \E j \in Request : HandleError(c, j)

-----------------------------------------------------------------------------
QueueStep(j) ==
  \/ \E w \in Worker : Deliver(w, j)
  \/ Backoff(j) \/ RedeliverAbandoned(j)

Next ==
  \/ \E r \in Request : RequestStep(r)
  \/ \E w \in Worker : WorkerStep(w) \/ WorkerCrashes(w)
  \/ \E j \in Request : QueueStep(j) \/ RedeliverStalled(j) \/ LockExpires(j)
                        \/ LockLapses(j) \/ RowAges(j)
  \/ \E c \in Cleaner : CleanerStep(c) \/ CleanerCrashes(c)
  \/ CleanupLockExpires

Spec == Init /\ [][Next]_vars

\* Workers, the queue, expiry and the clock go on.  The cleanup is scheduled again
\* and again: it gets through it now and then, though its process may die and its
\* updates may fail.
Fairness ==
  /\ \A w \in Worker : WF_vars(WorkerStep(w))
  /\ \A j \in Request : WF_vars(QueueStep(j)) /\ WF_vars(LockExpires(j)) /\ WF_vars(RowAges(j))
  /\ \A c \in Cleaner :
       /\ WF_vars(CleanerStep(c))
       /\ SF_vars(FindStaleProcessing(c)) /\ SF_vars(FindStaleLocks(c)) /\ SF_vars(HandleSome(c))
  /\ WF_vars(CleanupLockExpires)

FairSpec == Spec /\ Fairness

-----------------------------------------------------------------------------
(* Properties *)

\* No two workers import the file of one job at the same time (processImport):
\* neither a lock that lapses, a delivery that is repeated nor a cleanup that
\* comes too early makes it happen, because the transition to PROCESSING is
\* taken once.
OneExecution ==
  \A j \in Request : \A v, w \in Worker :
    Executing(v, j) /\ Executing(w, j) => v = w

\* Without restarts no batch of a file is written twice, however often the queue
\* delivers the job (attempts, stalled deliveries).
NoBatchTwice == \A j \in Request : written[j] <= Batches

\* A job that says COMPLETED has written every batch of its file and reports all
\* of them: no late progress update, second run or lost answer of a transaction
\* spoils it (finalizeJob, updateJobProgress).
CompletedIsWhole ==
  \A j \in Request : status[j] = "COMPLETED" => written[j] >= Batches /\ rows[j] = Batches

\* The lock columns agree with the status after every handler and the cleanup:
\* a PROCESSING row can always be found by its lock, and no other row is.
LockColumns == \A j \in Request : locked[j] <=> status[j] = "PROCESSING"

\* All requests with one key that get a job get the same one, also when they read
\* at the same time that the key is free (createImportFromFile).
KeyNamesOneJob ==
  \A r, s \in Request : SameKey(r, s) =>
    /\ \A j \in answer[r], k \in answer[s] : j = k
    /\ status[r] # "none" /\ status[s] # "none" => r = s

\* A job that is PROCESSING comes to an end, even if its worker dies or its start
\* was recorded for nobody: the cleanup finds it (cleanupStaleImportJobs).
ProcessingIsTemporary ==
  \A j \in Request : status[j] = "PROCESSING" ~> status[j] \in Terminal

\* What README.md:559 promises: no race changes the status of a finished job.
TerminalIsFinal ==
  [][\A j \in Request : status[j] \in Terminal => status'[j] = status[j]]_vars

\* What README.md:564 promises: a job whose worker crashes is brought to an end,
\* unless the queue itself gives up on it.
CrashIsRecovered ==
  \A j \in Request : queue[j] = "active" ~> status[j] \in Terminal \/ queue[j] = "failed"
=============================================================================
