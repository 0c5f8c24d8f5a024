------------------------ MODULE ExportJobsRefinement ------------------------
(***************************************************************************)
(* ExportJobs implements ExportLifecycle if stale jobs are not restarted.  *)
(* The rows, the status and the lines of the file are the same; the rows   *)
(* promised are those that the one run has counted.  The lock of the job   *)
(* is a lock of LockService, the interface that DistributedLock implements. *)
(***************************************************************************)
EXTENDS ExportJobs

Lifecycle == INSTANCE ExportLifecycle WITH
  rows <- selected, status <- job.status, document <- job.lines,
  counted <- UNION {base[w] : w \in Worker}, Slow <- "slow" \in Faults

\* Whatever crashes, lapses or fails, whatever rows come and leave between two pages, and
\* whoever saves an entity read long before, a client sees one document, written once,
\* that is whole but for one row to each that left (processExport, getJob and the cleanup
\* together).
ImplementsLifecycle == Lifecycle!Spec

\* A worker is between the two ends of the lock's try block in processExport.
Holding == {w \in Worker : pc[w] \notin {"idle", "acquire"}}

Lock == INSTANCE LockService WITH
  Caller <- Worker, NoCaller <- NoWorker,
  Reliable <- IF "lapse" \in Faults THEN {} ELSE Worker,
  token <- lock, working <- Holding, stopping <- FALSE

\* The key of the job changes as the lock service changes it: a worker that was
\* refused, has released or died is never at the key, and none frees it for another.
LockKept == Lock!Spec
=============================================================================
