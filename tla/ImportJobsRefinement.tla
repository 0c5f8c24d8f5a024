------------------------ MODULE ImportJobsRefinement ------------------------
(***************************************************************************)
(* ImportJobs implements JobLifecycle as long as stale jobs are not        *)
(* restarted.  The status and the written batches are the same; everything *)
(* else is hidden.  And the lock of each job is a lock of LockService, the *)
(* interface that DistributedLock implements.                              *)
(***************************************************************************)
EXTENDS ImportJobs

Lifecycle == INSTANCE JobLifecycle WITH Job <- Request, Slow <- "slow" \in Faults

\* Whatever crashes, stalls, lapses or fails, what a client sees of a job is what
\* JobLifecycle allows: processImport, finalizeJob and the cleanup together.
ImplementsLifecycle == Lifecycle!Spec

\* A worker is between the two ends of the lock's try block in processImport.
Holding(w, j) == wjob[w] = j /\ wpc[w] \notin {"idle", "acquire", "settle"}

Lock(j) == INSTANCE LockService WITH
  Caller <- Worker, NoCaller <- NoWorker,
  Reliable <- IF "lapse" \in Faults THEN {} ELSE Worker,
  token <- lock[j], working <- {w \in Worker : Holding(w, j)}, stopping <- FALSE

\* The key of a job changes as the lock service changes it, and only workers that
\* got it or nobody's token are there: a worker that was refused, has released or
\* died is never at the key, and none frees it for another.
LocksKept == \A j \in Request : Lock(j)!Spec
=============================================================================
