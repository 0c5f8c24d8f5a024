----------------------------- MODULE ExportJobs -----------------------------
(***************************************************************************)
(* The life of one export job: the request that creates it, the workers    *)
(* that write the rows its filters select to a file page by page, clients  *)
(* that poll it and the cleanup, while imports go on changing the table.   *)
(*                                                                         *)
(* The row of export_jobs is a record, because three places save a whole   *)
(* entity that they read some time before: processing after the count, a   *)
(* poll after it renewed the URL, and both finalizations under a row lock. *)
(* Queue, Redis lock and cleanup are those of ImportJobs, reduced to what  *)
(* they do to a job: deliveries may be repeated, locks may be left behind. *)
(***************************************************************************)
EXTENDS Integers, Sequences, FiniteSets

CONSTANTS
  Worker, NoWorker,  \* queue workers; no worker
  Orphan,            \* a lock token that no running process holds
  Row,               \* rows the table may have
  Tables,            \* what the filters may select to begin with: rows, and created_at
  Times,             \* values of created_at of rows that come later
  MaxLeaves,         \* rows that leave the selection after the count
  MaxUpdates,        \* progress updates that are on their way at a time
  PageSize,          \* rows per query
  MaxDeliveries,     \* deliveries of the job to a worker
  RestartStaleJobs,  \* the configuration switch of the cleanup
  NoRead,            \* a client or the cleanup that has not read the row
  Faults             \* what may go wrong

FaultKinds ==
  {"request",  \* the request ends between the insert and queue.add
   "crash",    \* a worker process dies
   "redis",    \* a lock command raises an error
   "lapse",    \* the lock expires, or a shutdown deletes it, while its holder works
   "db",       \* a transaction or a query of the processing raises an error
   "s3",       \* the upload raises an error
   "slow"}     \* an export outlives the thresholds of the cleanup

ASSUME NamesAssumption == NoWorker \notin Worker /\ Orphan \notin Worker /\ NoWorker # Orphan
ASSUME RowsAssumption ==
  /\ Tables \subseteq [rows : SUBSET Row, created : [Row -> Nat]]
  /\ IsFiniteSet(Row) /\ Times \subseteq Nat
ASSUME BoundsAssumption == 
  /\ PageSize \in Nat \ {0} /\ MaxDeliveries \in Nat
  /\ MaxLeaves \in Nat /\ MaxUpdates \in Nat
ASSUME SwitchAssumption == RestartStaleJobs \in BOOLEAN /\ Faults \subseteq FaultKinds

VARIABLES
  created,     \* created_at of each row
  selected,    \* the rows that match the filters
  left,        \* history: how often a row has left them since they were counted
  tied,        \* history: whether two rows have had the same created_at since
  job,         \* the row of export_jobs
  queued,      \* whether the request has come to queue.add, and how it ended
  deliveries,  \* deliveries so far
  lock,        \* the token at lock:export-job:<id>
  pc,          \* where each worker stands
  entity,      \* the entity a worker works with
  base,        \* the rows it counted
  file,        \* the rows it has written
  aged,        \* thresholds that locked_at and started_at of its run have passed
  late,        \* progress updates that were sent and not awaited
  polled,      \* the entity a client has read
  found        \* the status the cleanup has read

tableVars == <<created, selected, left, tied>>
runVars == <<entity, base, file>>
vars == <<tableVars, job, queued, deliveries, lock, pc, runVars, aged, late, polled, found>>

Terminal == {"COMPLETED", "FAILED"}
JobStatus == Terminal \cup {"PENDING", "PROCESSING"}

\* Creation times differ unless rows were inserted by one transaction, whose now() they
\* share, or a file of comments gave them the same.
Untied == \A a, b \in selected : created[a] = created[b] => a = b

\* The answers the database may give to ORDER BY created_at.
Orders(S) ==
  {s \in [1..Cardinality(S) -> S] : \A m, n \in DOMAIN s : m < n =>
     s[m] # s[n] /\ created[s[m]] <= created[s[n]]}

\* The value of left as long as nothing was counted.
NotCounted == -1

\* by is the run whose locked_by, locked_at and started_at the row has; url says
\* whether the link of a finished export is about to expire.
NoJob == [status |-> "none", by |-> NoWorker, total |-> 0, exported |-> 0,
          lines |-> <<>>, url |-> "none"]

Executing(w) == pc[w] \in {"count", "save", "stream", "complete", "fail"}

ExportJob ==
  [status : JobStatus \cup {"none"}, by : Worker \cup {NoWorker},
   total : 0..Cardinality(Row), exported : Nat,
   lines : Seq(Row), url : {"none", "fresh", "old"}]

TypeOK ==
  /\ created \in [Row -> Nat] /\ selected \in SUBSET Row
  /\ left \in {NotCounted} \cup 0..MaxLeaves /\ tied \in BOOLEAN
  /\ job \in ExportJob /\ queued \in {"before", "created", "queued", "failed"}
  /\ deliveries \in 0..MaxDeliveries
  /\ lock \in Worker \cup {NoWorker, Orphan}
  /\ pc \in [Worker -> {"idle", "acquire", "transition", "count", "save", "stream", "complete",
                        "fail", "release"}]
  /\ entity \in [Worker -> ExportJob] /\ file \in [Worker -> Seq(Row)]
  /\ base \in [Worker -> SUBSET Row]
  /\ aged \in [Worker -> 0..2]
  /\ late \in SUBSET Nat
  /\ polled = NoRead \/ polled \in ExportJob
  /\ found \in JobStatus \cup {NoRead}

Init ==
  /\ \E t \in Tables : selected = t.rows /\ created = t.created
  /\ left = NotCounted /\ tied = ~Untied
  /\ job = NoJob /\ queued = "before" /\ deliveries = 0 /\ lock = NoWorker
  /\ pc = [w \in Worker |-> "idle"]
  /\ entity = [w \in Worker |-> NoJob]
  /\ base = [w \in Worker |-> {}] /\ file = [w \in Worker |-> <<>>]
  /\ aged = [w \in Worker |-> 0]
  /\ late = {} /\ polled = NoRead /\ found = NoRead

-----------------------------------------------------------------------------
(* The request, the queue and the table *)

CreateExport ==
  /\ queued = "before"
  /\ job' = [job EXCEPT !.status = "PENDING"] /\ queued' = "created"
  /\ UNCHANGED <<tableVars, deliveries, lock, pc, runVars, aged, late, polled, found>>

Enqueue ==
  /\ queued = "created"
  /\ queued' = "queued" \/ ("request" \in Faults /\ queued' = "failed")
  /\ UNCHANGED <<tableVars, job, deliveries, lock, pc, runVars, aged, late, polled, found>>

\* First delivery, retry, or the queue's answer to a stalled or dead worker.
Deliver(w) ==
  /\ queued = "queued" /\ deliveries < MaxDeliveries /\ pc[w] = "idle"
  /\ deliveries' = deliveries + 1
  /\ pc' = [pc EXCEPT ![w] = "acquire"]
  /\ UNCHANGED <<tableVars, job, queued, lock, runVars, aged, late, polled, found>>

\* Imports change the table while pages of it are read.  What they do before the count
\* is a matter of Tables, and what they do after the last page nobody notices.
Edit ==
  /\ \E w \in Worker : pc[w] \in {"save", "stream"}
  /\ UNCHANGED <<job, queued, deliveries, lock, pc, runVars, aged, late, polled, found>>

\* A row is inserted, or an update makes it match the filters.
Enter(r, t) ==
  /\ r \notin selected
  /\ selected' = selected \cup {r}
  /\ created' = [created EXCEPT ![r] = t]
  /\ tied' = (tied \/ ~Untied')
  /\ Edit /\ UNCHANGED left

\* An update changes a column that the filters look at: active, status, author_id or
\* updated_at.  A record that names the id of a row may also write its created_at: for
\* the queries the row leaves and comes back elsewhere.
Leave(r) ==
  /\ r \in selected /\ left < MaxLeaves
  /\ selected' = selected \ {r}
  /\ left' = left + 1
  /\ Edit /\ UNCHANGED <<created, tied>>

-----------------------------------------------------------------------------
(* processExport *)

GoTo(w, step) == pc' = [pc EXCEPT ![w] = step]

AcquireLock(w) ==
  /\ pc[w] = "acquire" /\ lock = NoWorker
  /\ lock' = w
  /\ GoTo(w, "transition")
  /\ UNCHANGED <<tableVars, job, queued, deliveries, runVars, aged, late, polled, found>>

\* The job is skipped, also when Redis raises an error, before or after SET.
AcquireRefused(w) ==
  /\ pc[w] = "acquire"
  /\ \/ lock # NoWorker /\ UNCHANGED lock
     \/ "redis" \in Faults /\ (UNCHANGED lock \/ (lock = NoWorker /\ lock' = Orphan))
  /\ GoTo(w, "idle")
  /\ UNCHANGED <<tableVars, job, queued, deliveries, runVars, aged, late, polled, found>>

\* Variant: the status is not compared.
MayStart_AnyStatus == TRUE

\* atomicStatusTransition compares the status it finds under the row lock.
MayStart == job.status = "PENDING"

Started(w) == [job EXCEPT !.status = "PROCESSING", !.by = w]

StartProcessing(w) ==
  /\ pc[w] = "transition" /\ MayStart
  /\ job' = Started(w)
  /\ entity' = [entity EXCEPT ![w] = Started(w)]
  /\ file' = [file EXCEPT ![w] = <<>>]
  /\ aged' = [aged EXCEPT ![w] = 0]
  /\ GoTo(w, "count")
  /\ UNCHANGED <<tableVars, queued, deliveries, lock, base, late, polled, found>>

\* Another status, or an error of the transaction before or after its COMMIT.
StartRefused(w) ==
  /\ pc[w] = "transition"
  /\ \/ ~MayStart /\ UNCHANGED <<job, aged>>
     \/ "db" \in Faults /\ UNCHANGED <<job, aged>>
     \/ /\ "db" \in Faults /\ MayStart
        /\ job' = Started(w) /\ aged' = [aged EXCEPT ![w] = 0]
  /\ GoTo(w, "release")
  /\ UNCHANGED <<tableVars, queued, deliveries, lock, runVars, late, polled, found>>

CountRecords(w) ==
  /\ pc[w] = "count"
  /\ base' = [base EXCEPT ![w] = selected]
  /\ left' = 0 /\ tied' = ~Untied
  /\ entity' = [entity EXCEPT ![w].total = Cardinality(selected)]
  /\ GoTo(w, "save")
  /\ UNCHANGED <<created, selected, job, queued, deliveries, lock, file, aged, late, polled, found>>

\* save() writes every column in which the row differs from the entity, whoever
\* changed it since.
SaveTotal(w) ==
  /\ pc[w] = "save"
  /\ job' = entity[w]
  /\ GoTo(w, "stream")
  /\ UNCHANGED <<tableVars, queued, deliveries, lock, runVars, aged, late, polled, found>>

\* Variant: the next page begins one row too late.
Offset_SkipsOne(w) == IF file[w] = <<>> THEN 0 ELSE Len(file[w]) + 1
\* Variant: the next page begins with the last row of this one.
Offset_Overlaps(w) == IF file[w] = <<>> THEN 0 ELSE Len(file[w]) - 1

Offset(w) == Len(file[w])

\* OFFSET and LIMIT of an order that the database chooses anew for every page.
Page(w, order) ==
  LET end == Offset(w) + PageSize
  IN  SubSeq(order, Offset(w) + 1, IF end < Len(order) THEN end ELSE Len(order))

\* streamRecords: a page that is not full is the last one, and the upload can end.
FetchPage(w) ==
  /\ pc[w] = "stream"
  /\ \E order \in Orders(selected) :
       /\ file' = [file EXCEPT ![w] = @ \o Page(w, order)]
       /\ GoTo(w, IF Len(Page(w, order)) < PageSize THEN "complete" ELSE "stream")
  /\ UNCHANGED <<tableVars, job, queued, deliveries, lock, entity, base, aged, late, polled, found>>

\* onMetrics sends the number of lines so far and waits for no answer.
SendProgress(w) ==
  /\ pc[w] \in {"stream", "complete"} /\ file[w] # <<>> /\ Cardinality(late) < MaxUpdates
  /\ late' = late \cup {Len(file[w])}
  /\ UNCHANGED <<tableVars, job, queued, deliveries, lock, pc, runVars, aged, polled, found>>

ProgressArrives(n) ==
  /\ n \in late
  /\ late' = late \ {n}
  /\ job' = [job EXCEPT !.exported = n]
  /\ UNCHANGED <<tableVars, queued, deliveries, lock, pc, runVars, aged, polled, found>>

\* countRecords, save(), the upload or the URL raises an error.
ExportFails(w) ==
  /\ \/ "db" \in Faults /\ pc[w] \in {"count", "save"}
     \/ "s3" \in Faults /\ pc[w] \in {"stream", "complete"}
  /\ GoTo(w, "fail")
  /\ UNCHANGED <<tableVars, job, queued, deliveries, lock, runVars, aged, late, polled, found>>

\* Variant: the lock columns are not cleared.
Released_KeepsLock(j, s) == [j EXCEPT !.status = s]

Released(j, s) == [j EXCEPT !.status = s, !.by = NoWorker]

MayFinalize == job.status = "PROCESSING"

Completed(w) ==
  [Released(job, "COMPLETED") EXCEPT
     !.exported = entity[w].total, !.lines = file[w], !.url = "fresh"]

FinalizeCompleted(w) ==
  /\ pc[w] = "complete"
  /\ job' = IF MayFinalize THEN Completed(w) ELSE job
  /\ GoTo(w, "release")
  /\ UNCHANGED <<tableVars, queued, deliveries, lock, runVars, aged, late, polled, found>>

\* The transaction raises an error before or after its COMMIT: the catch block of
\* executeExportProcessing finalizes the job as FAILED.
FinalizeError(w) ==
  /\ pc[w] = "complete" /\ "db" \in Faults
  /\ job' = job \/ (MayFinalize /\ job' = Completed(w))
  /\ GoTo(w, "fail")
  /\ UNCHANGED <<tableVars, queued, deliveries, lock, runVars, aged, late, polled, found>>

FinalizeFailed(w) ==
  /\ pc[w] = "fail"
  /\ \/ job' = IF MayFinalize THEN Released(job, "FAILED") ELSE job
     \/ "db" \in Faults /\ UNCHANGED job
  /\ GoTo(w, "release")
  /\ UNCHANGED <<tableVars, queued, deliveries, lock, runVars, aged, late, polled, found>>

ReleaseLock(w) ==
  /\ pc[w] = "release"
  /\ \/ lock' = IF lock = w THEN NoWorker ELSE lock
     \/ "redis" \in Faults /\ lock = w /\ lock' = Orphan
  /\ GoTo(w, "idle")
  /\ UNCHANGED <<tableVars, job, queued, deliveries, runVars, aged, late, polled, found>>

\* The process dies, or a query of streamRecords fails: the error event of a stream
\* nobody listens to ends the process.
WorkerCrashes(w) ==
  /\ ("crash" \in Faults /\ pc[w] # "idle") \/ ("db" \in Faults /\ pc[w] = "stream")
  /\ lock' = IF lock = w THEN Orphan ELSE lock
  /\ GoTo(w, "idle")
  /\ UNCHANGED <<tableVars, job, queued, deliveries, runVars, aged, late, polled, found>>

\* The lock of a dead process expires, and with "lapse" also that of a running one.
LockExpires ==
  /\ lock = Orphan \/ ("lapse" \in Faults /\ lock # NoWorker)
  /\ lock' = NoWorker
  /\ UNCHANGED <<tableVars, job, queued, deliveries, pc, runVars, aged, late, polled, found>>

-----------------------------------------------------------------------------
(* getJob *)

\* A client finds that the link is about to expire.
PollReads ==
  /\ polled = NoRead /\ job.status = "COMPLETED" /\ job.url = "old"
  /\ polled' = job
  /\ UNCHANGED <<tableVars, job, queued, deliveries, lock, pc, runVars, aged, late, found>>

\* Variant: what is saved was built from the answer and has no file name.
Renewed_NoFile(j) == [j EXCEPT !.url = "fresh", !.lines = <<>>]

Renewed(j) == [j EXCEPT !.url = "fresh"]

\* save() again, or the link cannot be signed.
PollSaves ==
  /\ polled # NoRead
  /\ job' = Renewed(polled) \/ ("s3" \in Faults /\ UNCHANGED job)
  /\ polled' = NoRead
  /\ UNCHANGED <<tableVars, queued, deliveries, lock, pc, runVars, aged, late, found>>

LinkAges ==
  /\ job.url = "fresh"
  /\ job' = [job EXCEPT !.url = "old"]
  /\ UNCHANGED <<tableVars, queued, deliveries, lock, pc, runVars, aged, late, polled, found>>

-----------------------------------------------------------------------------
(* cleanupStaleExportJobs *)

\* Ten minutes after the transition locked_at is stale, thirty minutes after it
\* started_at.
RunAges(w) ==
  /\ job.by = w /\ aged[w] < 2
  /\ "slow" \in Faults \/ ~Executing(w)
  /\ aged' = [aged EXCEPT ![w] = @ + 1]
  /\ UNCHANGED <<tableVars, job, queued, deliveries, lock, pc, runVars, late, polled, found>>

\* Variant: only jobs that wait for a worker are looked for.
Stale_Pending == job.status = "PENDING" /\ job.by # NoWorker /\ aged[job.by] > 0

\* What the two queries find: old runs that are PROCESSING, and old locks.
Stale ==
  \/ job.status = "PROCESSING" /\ job.by # NoWorker /\ aged[job.by] = 2
  \/ job.status \in {"PENDING", "PROCESSING"} /\ job.by # NoWorker /\ aged[job.by] > 0

FindStaleJob ==
  /\ found = NoRead /\ Stale
  /\ found' = job.status
  /\ UNCHANGED <<tableVars, job, queued, deliveries, lock, pc, runVars, aged, late, polled>>

\* Variant: the status that no code sets.
HandledStatus_Cancelled == IF RestartStaleJobs THEN "PENDING" ELSE "CANCELLED"

HandledStatus == IF RestartStaleJobs /\ found = "PROCESSING" THEN "PENDING" ELSE "FAILED"

\* The update names the row by its id; if it raises an error the row is left alone.
HandleStaleJob ==
  /\ found # NoRead
  /\ \/ job' = Released(job, HandledStatus)
     \/ "db" \in Faults /\ UNCHANGED job
  /\ found' = NoRead
  /\ UNCHANGED <<tableVars, queued, deliveries, lock, pc, runVars, aged, late, polled>>

-----------------------------------------------------------------------------
TableChanges == \E r \in Row : Leave(r) \/ \E t \in Times : Enter(r, t)

WorkerStep(w) ==
  \/ AcquireLock(w) \/ AcquireRefused(w) \/ StartProcessing(w) \/ StartRefused(w)
  \/ CountRecords(w) \/ SaveTotal(w) \/ FetchPage(w) \/ ExportFails(w)
  \/ FinalizeCompleted(w) \/ FinalizeError(w) \/ FinalizeFailed(w) \/ ReleaseLock(w)

CleanupStep == FindStaleJob \/ HandleStaleJob

Next ==
  \/ CreateExport \/ Enqueue \/ TableChanges
  \/ \E w \in Worker :
       Deliver(w) \/ WorkerStep(w) \/ SendProgress(w) \/ WorkerCrashes(w) \/ RunAges(w)
  \/ \E n \in late : ProgressArrives(n)
  \/ LockExpires \/ PollReads \/ PollSaves \/ LinkAges \/ CleanupStep

Spec == Init /\ [][Next]_vars

\* Workers and the clock go on; the cleanup runs every five minutes, and now and then
\* its update succeeds.
Fairness ==
  /\ \A w \in Worker : WF_vars(WorkerStep(w)) /\ WF_vars(RunAges(w))
  /\ SF_vars(FindStaleJob) /\ SF_vars(HandleStaleJob /\ job' # job)

FairSpec == Spec /\ Fairness

-----------------------------------------------------------------------------
(* Properties *)

\* No two workers export at the same time, although deliveries repeat, locks lapse
\* and a run may put back the row the cleanup has failed (processExport, SaveTotal).
OneExecution == \A v, w \in Worker : Executing(v) /\ Executing(w) => v = w

\* The lock columns agree with the status, also after whole entities were saved.
LockColumns == job.by # NoWorker <=> job.status = "PROCESSING"

\* Paging by OFFSET while imports change what the filters select costs the file of a
\* completed export one counted row at most for each time a row left the selection, and
\* none for rows that come, if creation times differ; and in any case one line at most
\* for each row that left (countRecords, streamRecords).
FileIsWhole ==
  job.status = "COMPLETED" =>
    /\ Len(job.lines) + left >= job.total
    /\ ~tied => \A w \in Worker :
         Cardinality({r \in base[w] : \A n \in DOMAIN job.lines : job.lines[n] # r}) <= left

\* If what is selected is what was counted, and no row has left it meanwhile, the file
\* has no other lines, and its rows are in the order of their creation unless times are
\* equal.
FileIsExact ==
  job.status = "COMPLETED" /\ left = 0 /\ Cardinality(selected) = job.total =>
    Len(job.lines) = job.total /\ (~tied => job.lines \in Orders(selected))

\* A file that clients have been told of stays: no entity read before it was written
\* is saved over it (executeExportProcessing, getJob, the cleanup).
FileIsKept == [][job.lines # <<>> => job'.lines = job.lines]_vars

\* An export that is PROCESSING comes to an end, even if its worker dies, its start
\* was recorded for nobody, or it saves its row after the cleanup has failed it.
ProcessingIsTemporary == job.status = "PROCESSING" ~> job.status \in Terminal
=============================================================================
