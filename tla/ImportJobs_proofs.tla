------------------------- MODULE ImportJobs_proofs -------------------------
(***************************************************************************)
(* Proofs about ImportJobs for any requests, workers, cleaners, bounds and *)
(* faults.                                                                 *)
(***************************************************************************)
EXTENDS ImportJobsRefinement, TLAPS

Early == {"lookup", "create", "upload", "saveUrl", "enqueue"}

\* A delivery in progress has attempts left and a worker.
QueueInv ==
  \A j \in Request :
    /\ queue[j] \in {"none", "waiting", "active", "delayed"} => attempts[j] < MaxAttempts
    /\ queue[j] = "active" <=> holder[j] # NoWorker

\* Until queue.add the job of a request is known to nobody else.
RequestInv ==
  \A r \in Request :
    /\ request[r] \in {"lookup", "create"} => status[r] = "none"
    /\ request[r] \in {"upload", "saveUrl", "enqueue"} => status[r] = "PENDING"
    /\ request[r] \in Early => queue[r] = "none" /\ written[r] = 0
    /\ status[r] = "none" => queue[r] = "none"

\* A worker with a delivery has a job of the queue, and its step says how far it is.
WorkerInv ==
  \A w \in Worker :
    /\ wpc[w] = "idle" <=> wjob[w] = NoJob
    /\ wjob[w] # NoJob => queue[wjob[w]] # "none"
    /\ wpc[w] \in {"acquire", "transition"} => done[w] = 0
    /\ wpc[w] = "complete" => done[w] = Batches

\* The cleanup knows only jobs that were started.
FoundInv ==
  \A c \in Cleaner : \A f \in found[c] : status[f[1]] \notin {"none"} /\ request[f[1]] \notin Early

Typed == TypeOK /\ QueueInv /\ WorkerInv

\* One step keeps every variable in its type.
LEMMA TypeStep == ASSUME Typed, [Next]_vars PROVE TypeOK'
<1> USE NamesAssumption, BoundsAssumption
    DEF Typed, TypeOK, QueueInv, WorkerInv, JobTokens, CleanupTokens, JobStatus, apiVars, rowVars,
        queueVars, workerVars, cleanVars
<1>1. ASSUME NEW r \in Request, FindByIdempotencyKey(r) PROVE TypeOK'
  <2>1. ASSUME NEW j \in Request, answer' = [answer EXCEPT ![r] = {j}]
        PROVE  answer' \in [Request -> SUBSET Request]
    BY <2>1
  <2>2. answer' \in [Request -> SUBSET Request]
    BY <1>1, <2>1 DEF FindByIdempotencyKey, JobsWithKeyOf
  <2> QED
    BY <1>1, <2>2 DEF FindByIdempotencyKey
<1>2. ASSUME NEW r \in Request, CreateRow(r) PROVE TypeOK'
  BY <1>2 DEF CreateRow
<1>3. ASSUME NEW r \in Request, CreateConflict(r) PROVE TypeOK'
  BY <1>3 DEF CreateConflict
<1>4. ASSUME NEW r \in Request, UploadFile(r) PROVE TypeOK'
  BY <1>4 DEF UploadFile
<1>5. ASSUME NEW r \in Request, SaveFileUrl(r) PROVE TypeOK'
  BY <1>5 DEF SaveFileUrl
<1>6. ASSUME NEW r \in Request, Enqueue(r) PROVE TypeOK'
  <2>1. answer' \in [Request -> SUBSET Request]
    <3>1. CASE answer' = [answer EXCEPT ![r] = {r}]
      BY <3>1
    <3> QED
      BY <1>6, <3>1 DEF Enqueue
  <2>2. request' = [request EXCEPT ![r] = "replied"] \/ request' = [request EXCEPT ![r] = "error"]
    BY <1>6 DEF Enqueue
  <2> QED
    BY <1>6, <2>1, <2>2 DEF Enqueue
<1>7. ASSUME NEW r \in Request, RequestFails(r) PROVE TypeOK'
  BY <1>7 DEF RequestFails
<1>8. ASSUME NEW w \in Worker, NEW j \in Request, Deliver(w, j) PROVE TypeOK'
  BY <1>8 DEF Deliver
<1>9. ASSUME NEW j \in Request, Backoff(j) PROVE TypeOK'
  BY <1>9 DEF Backoff
<1>10. ASSUME NEW j \in Request, RedeliverAbandoned(j) PROVE TypeOK'
  BY <1>10 DEF RedeliverAbandoned, Abandoned, TakeAway, Working
<1>11. ASSUME NEW j \in Request, RedeliverStalled(j) PROVE TypeOK'
  BY <1>11 DEF RedeliverStalled, TakeAway, Working
<1>12. ASSUME NEW j \in Request, LockExpires(j) PROVE TypeOK'
  BY <1>12 DEF LockExpires
<1>13. ASSUME NEW j \in Request, LockLapses(j) PROVE TypeOK'
  BY <1>13 DEF LockLapses
<1>14. ASSUME NEW j \in Request, RowAges(j) PROVE TypeOK'
  BY <1>14 DEF RowAges
<1>15. ASSUME NEW w \in Worker, AcquireLock(w) PROVE TypeOK'
  BY <1>15 DEF AcquireLock, AtStep, GoTo, LockIsFree
<1>16. ASSUME NEW w \in Worker, AcquireRefused(w) PROVE TypeOK'
  BY <1>16 DEF AcquireRefused, AtStep, GoTo, LockIsFree
<1>17. ASSUME NEW w \in Worker, StartProcessing(w) PROVE TypeOK'
  BY <1>17 DEF StartProcessing, AtStep, GoTo, MayStart, MarkProcessing
<1>18. ASSUME NEW w \in Worker, StartRefused(w) PROVE TypeOK'
  <2>1. CASE UNCHANGED rowVars
    BY <1>18, <2>1 DEF StartRefused, AtStep, GoTo
  <2>2. CASE MarkProcessing(wjob[w])
    BY <1>18, <2>2 DEF StartRefused, AtStep, GoTo, MarkProcessing
  <2> QED
    BY <1>18, <2>1, <2>2 DEF StartRefused
<1>19. ASSUME NEW w \in Worker, StartError(w) PROVE TypeOK'
  <2>1. CASE UNCHANGED rowVars
    BY <1>19, <2>1 DEF StartError, AtStep, GoTo
  <2>2. CASE MarkProcessing(wjob[w])
    BY <1>19, <2>2 DEF StartError, AtStep, GoTo, MarkProcessing
  <2> QED
    BY <1>19, <2>1, <2>2 DEF StartError
<1>20. ASSUME NEW w \in Worker, ProcessBatch(w) PROVE TypeOK'
  BY <1>20 DEF ProcessBatch, AtStep, GoTo, MoreBatches
<1>21. ASSUME NEW w \in Worker, UpdateJobProgress(w) PROVE TypeOK'
  BY <1>21 DEF UpdateJobProgress, AtStep, GoTo
<1>22. ASSUME NEW w \in Worker, ProcessingFails(w) PROVE TypeOK'
  BY <1>22 DEF ProcessingFails, GoTo
<1>23. ASSUME NEW w \in Worker, ProcessingEnds(w) PROVE TypeOK'
  BY <1>23 DEF ProcessingEnds, AtStep, GoTo, FileIsRead
<1>24. ASSUME NEW w \in Worker, FinalizeCompleted(w) PROVE TypeOK'
  <2>1. CASE UNCHANGED rowVars
    BY <1>24, <2>1 DEF FinalizeCompleted, AtStep, GoTo
  <2>2. CASE WriteCompleted(w)
    BY <1>24, <2>2 DEF FinalizeCompleted, AtStep, GoTo, WriteCompleted, LeaveProcessing
  <2> QED
    BY <1>24, <2>1, <2>2 DEF FinalizeCompleted
<1>25. ASSUME NEW w \in Worker, FinalizeError(w) PROVE TypeOK'
  <2>1. CASE UNCHANGED rowVars
    BY <1>25, <2>1 DEF FinalizeError, AtStep, GoTo
  <2>2. CASE WriteCompleted(w)
    BY <1>25, <2>2 DEF FinalizeError, AtStep, GoTo, WriteCompleted, LeaveProcessing
  <2> QED
    BY <1>25, <2>1, <2>2 DEF FinalizeError
<1>26. ASSUME NEW w \in Worker, FinalizeFailed(w) PROVE TypeOK'
  <2>1. CASE UNCHANGED rowVars
    BY <1>26, <2>1 DEF FinalizeFailed, AtStep, GoTo
  <2>2. CASE LeaveProcessing(wjob[w], "FAILED") /\ UNCHANGED rows
    BY <1>26, <2>2 DEF FinalizeFailed, AtStep, GoTo, LeaveProcessing
  <2> QED
    BY <1>26, <2>1, <2>2 DEF FinalizeFailed
<1>27. ASSUME NEW w \in Worker, ReleaseLock(w) PROVE TypeOK'
  BY <1>27 DEF ReleaseLock, AtStep, GoTo
<1>28. ASSUME NEW w \in Worker, Settle(w) PROVE TypeOK'
  <2> DEFINE j == wjob[w]
  <2>1. j \in Request
    BY <1>28 DEF Settle
  <2>2. holder' \in [Request -> Worker \cup {NoWorker}]
    BY <1>28 DEF Settle
  <2>3. attempts' \in [Request -> 0..MaxAttempts]
    <3>1. CASE UNCHANGED attempts
      BY <3>1
    <3>2. CASE holder[j] = w /\ attempts' = [attempts EXCEPT ![j] = @ + 1]
      <4>1. attempts[j] < MaxAttempts
        BY <2>1, <3>2
      <4> QED
        BY <2>1, <3>2, <4>1
    <3> QED
      BY <1>28, <3>1, <3>2 DEF Settle
  <2>4. queue' \in [Request -> {"none", "waiting", "active", "delayed", "completed", "failed"}]
    <3>1. CASE \E s \in {"delayed", "failed", "completed"} : queue' = [queue EXCEPT ![j] = s]
      BY <3>1
    <3> QED
      BY <1>28, <3>1 DEF Settle
  <2> QED
    BY <1>28, <2>2, <2>3, <2>4 DEF Settle
<1>29. ASSUME NEW w \in Worker, WorkerCrashes(w) PROVE TypeOK'
  BY <1>29 DEF WorkerCrashes, GoTo
<1>30. ASSUME NEW c \in Cleaner, CleanupBegins(c) PROVE TypeOK'
  BY <1>30 DEF CleanupBegins
<1>31. ASSUME NEW c \in Cleaner, FindStaleProcessing(c) PROVE TypeOK'
  BY <1>31 DEF FindStaleProcessing, StaleProcessing
<1>32. ASSUME NEW c \in Cleaner, FindStaleLocks(c) PROVE TypeOK'
  BY <1>32 DEF FindStaleLocks, StaleLock
<1>33. ASSUME NEW c \in Cleaner, CleanupEnds(c) PROVE TypeOK'
  BY <1>33 DEF CleanupEnds, ReleaseCleanupLock
<1>34. ASSUME NEW c \in Cleaner, CleanerCrashes(c) PROVE TypeOK'
  BY <1>34 DEF CleanerCrashes
<1>35. ASSUME NEW c \in Cleaner, NEW j \in Request, HandleStaleJob(c, j) PROVE TypeOK'
  <2>1. PICK s \in JobStatus, t \in {"PENDING", "FAILED"} :
          TakeFound(c, j, s) /\ LeaveProcessing(j, t)
    BY <1>35 DEF HandleStaleJob
  <2> QED
    BY <2>1 DEF TakeFound, LeaveProcessing
<1>36. ASSUME NEW c \in Cleaner, NEW j \in Request, HandleError(c, j) PROVE TypeOK'
  BY <1>36 DEF HandleError, TakeFound
<1>37. CASE CleanupLockExpires \/ UNCHANGED vars
  BY <1>37 DEF CleanupLockExpires, vars
<1> QED
  BY <1>1, <1>2, <1>3, <1>4, <1>5, <1>6, <1>7, <1>8, <1>9, <1>10, <1>11, <1>12, <1>13, <1>14, <1>15,
     <1>16, <1>17, <1>18, <1>19, <1>20, <1>21, <1>22, <1>23, <1>24, <1>25, <1>26, <1>27, <1>28,
     <1>29, <1>30, <1>31, <1>32, <1>33, <1>34, <1>35, <1>36, <1>37 DEF Next, RequestStep,
     WorkerStep, QueueStep, CleanerStep, HandleSome

\* Only queue.add and the delivery of a job write its queue entry.
LEMMA QueueInvStep == ASSUME Typed, RequestInv, [Next]_vars PROVE QueueInv'
<1> USE BoundsAssumption, NamesAssumption
    DEF Typed, TypeOK, QueueInv, apiVars, rowVars, queueVars, workerVars, cleanVars
<1>1. ASSUME NEW r \in Request, Enqueue(r) PROVE QueueInv'
  BY <1>1 DEF Enqueue, RequestInv, Early
<1>2. ASSUME NEW w \in Worker, NEW j \in Request, Deliver(w, j) PROVE QueueInv'
  BY <1>2 DEF Deliver
<1>3. ASSUME NEW j \in Request, Backoff(j) PROVE QueueInv'
  BY <1>3 DEF Backoff
<1>4. ASSUME NEW j \in Request, RedeliverAbandoned(j) PROVE QueueInv'
  BY <1>4 DEF RedeliverAbandoned, Abandoned, TakeAway, Working
<1>5. ASSUME NEW j \in Request, RedeliverStalled(j) PROVE QueueInv'
  BY <1>5 DEF RedeliverStalled, TakeAway, Working
<1>6. ASSUME NEW w \in Worker, Settle(w) PROVE QueueInv'
  BY <1>6 DEF Settle, WorkerInv
<1>7. ASSUME NEW r \in Request,
        FindByIdempotencyKey(r) \/ CreateRow(r) \/ CreateConflict(r) \/ UploadFile(r) \/
           SaveFileUrl(r) \/ RequestFails(r)
     PROVE QueueInv'
  BY <1>7 DEF FindByIdempotencyKey, JobsWithKeyOf, CreateRow, CreateConflict, UploadFile,
     SaveFileUrl, RequestFails
<1>8. ASSUME NEW j \in Request,
        LockExpires(j) \/ LockLapses(j) \/ RowAges(j)
     PROVE QueueInv'
  BY <1>8 DEF LockExpires, LockLapses, RowAges
<1>9. ASSUME NEW w \in Worker,
        AcquireLock(w) \/ AcquireRefused(w) \/ StartProcessing(w) \/ StartRefused(w) \/
           StartError(w) \/ ProcessBatch(w) \/ UpdateJobProgress(w) \/ ProcessingFails(w) \/
           ProcessingEnds(w) \/ FinalizeCompleted(w) \/ FinalizeError(w) \/ FinalizeFailed(w) \/
           ReleaseLock(w) \/ WorkerCrashes(w)
     PROVE QueueInv'
  BY <1>9 DEF AcquireLock, AtStep, GoTo, LockIsFree, AcquireRefused, StartProcessing, MayStart,
     MarkProcessing, StartRefused, StartError, ProcessBatch, MoreBatches, UpdateJobProgress,
     ProcessingFails, ProcessingEnds, FileIsRead, FinalizeCompleted, MayFinalize, WriteCompleted,
     LeaveProcessing, FinalizeError, FinalizeFailed, ReleaseLock, WorkerCrashes
<1>10. ASSUME NEW c \in Cleaner,
        CleanupBegins(c) \/ FindStaleProcessing(c) \/ FindStaleLocks(c) \/ CleanupEnds(c) \/
           CleanerCrashes(c)
     PROVE QueueInv'
  BY <1>10 DEF CleanupBegins, FindStaleProcessing, StaleProcessing, FindStaleLocks, StaleLock,
     CleanupEnds, ReleaseCleanupLock, CleanerCrashes
<1>11. ASSUME NEW c \in Cleaner, NEW j \in Request, HandleStaleJob(c, j) PROVE QueueInv'
  BY <1>11 DEF HandleStaleJob, TakeFound, LeaveProcessing
<1>12. ASSUME NEW c \in Cleaner, NEW j \in Request, HandleError(c, j) PROVE QueueInv'
  BY <1>12 DEF HandleError, TakeFound
<1>13. CASE CleanupLockExpires \/ UNCHANGED vars
  BY <1>13 DEF CleanupLockExpires, vars
<1> QED
  BY <1>1, <1>2, <1>3, <1>4, <1>5, <1>6, <1>7, <1>8, <1>9, <1>10, <1>11, <1>12, <1>13 DEF Next,
     RequestStep, WorkerStep, QueueStep, CleanerStep, HandleSome

\* A job is started only after its request has called queue.add.
LEMMA RequestInvStep == ASSUME Typed, RequestInv, LockColumns, FoundInv, [Next]_vars PROVE RequestInv'
<1> USE NamesAssumption
    DEF Typed, TypeOK, RequestInv, Early, apiVars, rowVars, queueVars, workerVars, cleanVars
<1>1. ASSUME NEW r \in Request, FindByIdempotencyKey(r) PROVE RequestInv'
  BY <1>1 DEF FindByIdempotencyKey, JobsWithKeyOf
<1>2. ASSUME NEW r \in Request, CreateRow(r) PROVE RequestInv'
  BY <1>2 DEF CreateRow
<1>3. ASSUME NEW r \in Request, CreateConflict(r) PROVE RequestInv'
  BY <1>3 DEF CreateConflict
<1>4. ASSUME NEW r \in Request, UploadFile(r) PROVE RequestInv'
  BY <1>4 DEF UploadFile
<1>5. ASSUME NEW r \in Request, SaveFileUrl(r) PROVE RequestInv'
  BY <1>5 DEF SaveFileUrl
<1>6. ASSUME NEW r \in Request, Enqueue(r) PROVE RequestInv'
  BY <1>6 DEF Enqueue
<1>7. ASSUME NEW r \in Request, RequestFails(r) PROVE RequestInv'
  BY <1>7 DEF RequestFails
<1>8. ASSUME NEW w \in Worker, NEW j \in Request, Deliver(w, j) PROVE RequestInv'
  BY <1>8 DEF Deliver
<1>9. ASSUME NEW w \in Worker, StartProcessing(w) PROVE RequestInv'
  BY <1>9 DEF StartProcessing, AtStep, GoTo, MayStart, MarkProcessing, WorkerInv
<1>10. ASSUME NEW w \in Worker, StartRefused(w) PROVE RequestInv'
  BY <1>10 DEF StartRefused, AtStep, GoTo, MayStart, MarkProcessing, WorkerInv
<1>11. ASSUME NEW w \in Worker, StartError(w) PROVE RequestInv'
  BY <1>11 DEF StartError, AtStep, GoTo, MayStart, MarkProcessing, WorkerInv
<1>12. ASSUME NEW w \in Worker, ProcessBatch(w) PROVE RequestInv'
  BY <1>12 DEF ProcessBatch, AtStep, GoTo, MoreBatches, WorkerInv
<1>13. ASSUME NEW w \in Worker, FinalizeCompleted(w) PROVE RequestInv'
  BY <1>13 DEF FinalizeCompleted, AtStep, GoTo, MayFinalize, WriteCompleted, LeaveProcessing,
     WorkerInv
<1>14. ASSUME NEW w \in Worker, FinalizeError(w) PROVE RequestInv'
  BY <1>14 DEF FinalizeError, AtStep, GoTo, MayFinalize, WriteCompleted, LeaveProcessing, WorkerInv
<1>15. ASSUME NEW w \in Worker, FinalizeFailed(w) PROVE RequestInv'
  BY <1>15 DEF FinalizeFailed, AtStep, GoTo, MayFinalize, LeaveProcessing, WorkerInv
<1>16. ASSUME NEW w \in Worker, Settle(w) PROVE RequestInv'
  BY <1>16 DEF Settle, WorkerInv
<1>17. ASSUME NEW c \in Cleaner, NEW j \in Request, HandleStaleJob(c, j) PROVE RequestInv'
  BY <1>17 DEF HandleStaleJob, TakeFound, LeaveProcessing, FoundInv
<1>18. ASSUME NEW j \in Request,
        Backoff(j) \/ RedeliverAbandoned(j) \/ RedeliverStalled(j) \/ LockExpires(j) \/
           LockLapses(j) \/ RowAges(j)
     PROVE RequestInv'
  BY <1>18 DEF Backoff, RedeliverAbandoned, Abandoned, TakeAway, Working, RedeliverStalled,
     LockExpires, LockLapses, RowAges
<1>19. ASSUME NEW w \in Worker,
        AcquireLock(w) \/ AcquireRefused(w) \/ UpdateJobProgress(w) \/ ProcessingFails(w) \/
           ProcessingEnds(w) \/ ReleaseLock(w) \/ WorkerCrashes(w)
     PROVE RequestInv'
  BY <1>19 DEF AcquireLock, AtStep, GoTo, LockIsFree, AcquireRefused, UpdateJobProgress,
     ProcessingFails, ProcessingEnds, FileIsRead, ReleaseLock, WorkerCrashes
<1>20. ASSUME NEW c \in Cleaner,
        CleanupBegins(c) \/ FindStaleProcessing(c) \/ FindStaleLocks(c) \/ CleanupEnds(c) \/
           CleanerCrashes(c)
     PROVE RequestInv'
  BY <1>20 DEF CleanupBegins, FindStaleProcessing, StaleProcessing, FindStaleLocks, StaleLock,
     CleanupEnds, ReleaseCleanupLock, CleanerCrashes
<1>21. ASSUME NEW c \in Cleaner, NEW j \in Request, HandleError(c, j) PROVE RequestInv'
  BY <1>21 DEF HandleError, TakeFound
<1>22. CASE CleanupLockExpires \/ UNCHANGED vars
  BY <1>22 DEF CleanupLockExpires, vars
<1> QED
  BY <1>1, <1>2, <1>3, <1>4, <1>5, <1>6, <1>7, <1>8, <1>9, <1>10, <1>11, <1>12, <1>13, <1>14, <1>15,
     <1>16, <1>17, <1>18, <1>19, <1>20, <1>21, <1>22 DEF Next, RequestStep, WorkerStep, QueueStep,
     CleanerStep, HandleSome

\* A worker changes its own job and step, and a job never leaves the queue.
LEMMA WorkerInvStep == ASSUME Typed, [Next]_vars PROVE WorkerInv'
<1> USE NamesAssumption, BoundsAssumption
    DEF Typed, TypeOK, WorkerInv, apiVars, rowVars, queueVars, workerVars, cleanVars
<1>1. ASSUME NEW r \in Request, Enqueue(r) PROVE WorkerInv'
  BY <1>1 DEF Enqueue
<1>2. ASSUME NEW w \in Worker, NEW j \in Request, Deliver(w, j) PROVE WorkerInv'
  BY <1>2 DEF Deliver
<1>3. ASSUME NEW j \in Request, Backoff(j) PROVE WorkerInv'
  BY <1>3 DEF Backoff
<1>4. ASSUME NEW j \in Request, RedeliverAbandoned(j) PROVE WorkerInv'
  BY <1>4 DEF RedeliverAbandoned, Abandoned, TakeAway, Working
<1>5. ASSUME NEW j \in Request, RedeliverStalled(j) PROVE WorkerInv'
  BY <1>5 DEF RedeliverStalled, TakeAway, Working
<1>6. ASSUME NEW w \in Worker, AcquireLock(w) PROVE WorkerInv'
  BY <1>6 DEF AcquireLock, AtStep, GoTo, LockIsFree
<1>7. ASSUME NEW w \in Worker, AcquireRefused(w) PROVE WorkerInv'
  BY <1>7 DEF AcquireRefused, AtStep, GoTo, LockIsFree
<1>8. ASSUME NEW w \in Worker, StartProcessing(w) PROVE WorkerInv'
  BY <1>8 DEF StartProcessing, AtStep, GoTo, MayStart, MarkProcessing
<1>9. ASSUME NEW w \in Worker, StartRefused(w) PROVE WorkerInv'
  BY <1>9 DEF StartRefused, AtStep, GoTo, MayStart, MarkProcessing
<1>10. ASSUME NEW w \in Worker, StartError(w) PROVE WorkerInv'
  BY <1>10 DEF StartError, AtStep, GoTo, MayStart, MarkProcessing
<1>11. ASSUME NEW w \in Worker, ProcessBatch(w) PROVE WorkerInv'
  BY <1>11 DEF ProcessBatch, AtStep, GoTo, MoreBatches
<1>12. ASSUME NEW w \in Worker, UpdateJobProgress(w) PROVE WorkerInv'
  BY <1>12 DEF UpdateJobProgress, AtStep, GoTo
<1>13. ASSUME NEW w \in Worker, ProcessingFails(w) PROVE WorkerInv'
  BY <1>13 DEF ProcessingFails, GoTo
<1>14. ASSUME NEW w \in Worker, ProcessingEnds(w) PROVE WorkerInv'
  BY <1>14 DEF ProcessingEnds, AtStep, GoTo, FileIsRead
<1>15. ASSUME NEW w \in Worker, FinalizeCompleted(w) PROVE WorkerInv'
  BY <1>15 DEF FinalizeCompleted, AtStep, GoTo, MayFinalize, WriteCompleted, LeaveProcessing
<1>16. ASSUME NEW w \in Worker, FinalizeError(w) PROVE WorkerInv'
  BY <1>16 DEF FinalizeError, AtStep, GoTo, MayFinalize, WriteCompleted, LeaveProcessing
<1>17. ASSUME NEW w \in Worker, FinalizeFailed(w) PROVE WorkerInv'
  BY <1>17 DEF FinalizeFailed, AtStep, GoTo, MayFinalize, LeaveProcessing
<1>18. ASSUME NEW w \in Worker, ReleaseLock(w) PROVE WorkerInv'
  BY <1>18 DEF ReleaseLock, AtStep, GoTo
<1>19. ASSUME NEW w \in Worker, Settle(w) PROVE WorkerInv'
  BY <1>19 DEF Settle
<1>20. ASSUME NEW w \in Worker, WorkerCrashes(w) PROVE WorkerInv'
  BY <1>20 DEF WorkerCrashes, GoTo
<1>21. ASSUME NEW r \in Request,
        FindByIdempotencyKey(r) \/ CreateRow(r) \/ CreateConflict(r) \/ UploadFile(r) \/
           SaveFileUrl(r) \/ RequestFails(r)
     PROVE WorkerInv'
  BY <1>21 DEF FindByIdempotencyKey, JobsWithKeyOf, CreateRow, CreateConflict, UploadFile,
     SaveFileUrl, RequestFails
<1>22. ASSUME NEW j \in Request,
        LockExpires(j) \/ LockLapses(j) \/ RowAges(j)
     PROVE WorkerInv'
  BY <1>22 DEF LockExpires, LockLapses, RowAges
<1>23. ASSUME NEW c \in Cleaner,
        CleanupBegins(c) \/ FindStaleProcessing(c) \/ FindStaleLocks(c) \/ CleanupEnds(c) \/
           CleanerCrashes(c)
     PROVE WorkerInv'
  BY <1>23 DEF CleanupBegins, FindStaleProcessing, StaleProcessing, FindStaleLocks, StaleLock,
     CleanupEnds, ReleaseCleanupLock, CleanerCrashes
<1>24. ASSUME NEW c \in Cleaner, NEW j \in Request, HandleStaleJob(c, j) PROVE WorkerInv'
  BY <1>24 DEF HandleStaleJob, TakeFound, LeaveProcessing
<1>25. ASSUME NEW c \in Cleaner, NEW j \in Request, HandleError(c, j) PROVE WorkerInv'
  BY <1>25 DEF HandleError, TakeFound
<1>26. CASE CleanupLockExpires \/ UNCHANGED vars
  BY <1>26 DEF CleanupLockExpires, vars
<1> QED
  BY <1>1, <1>2, <1>3, <1>4, <1>5, <1>6, <1>7, <1>8, <1>9, <1>10, <1>11, <1>12, <1>13, <1>14, <1>15,
     <1>16, <1>17, <1>18, <1>19, <1>20, <1>21, <1>22, <1>23, <1>24, <1>25, <1>26 DEF Next,
     RequestStep, WorkerStep, QueueStep, CleanerStep, HandleSome

\* A row that the cleanup can find has been started: it was PROCESSING or locked.
LEMMA FoundInvStep == ASSUME Typed, RequestInv, LockColumns, FoundInv, [Next]_vars PROVE FoundInv'
<1> USE NamesAssumption
    DEF Typed, TypeOK, FoundInv, Early, apiVars, rowVars, queueVars, workerVars, cleanVars
<1>1. ASSUME NEW r \in Request, FindByIdempotencyKey(r) PROVE FoundInv'
  BY <1>1 DEF FindByIdempotencyKey, JobsWithKeyOf
<1>2. ASSUME NEW r \in Request, CreateRow(r) PROVE FoundInv'
  BY <1>2 DEF CreateRow
<1>3. ASSUME NEW r \in Request, CreateConflict(r) PROVE FoundInv'
  BY <1>3 DEF CreateConflict
<1>4. ASSUME NEW r \in Request, UploadFile(r) PROVE FoundInv'
  BY <1>4 DEF UploadFile
<1>5. ASSUME NEW r \in Request, SaveFileUrl(r) PROVE FoundInv'
  BY <1>5 DEF SaveFileUrl
<1>6. ASSUME NEW r \in Request, Enqueue(r) PROVE FoundInv'
  BY <1>6 DEF Enqueue
<1>7. ASSUME NEW r \in Request, RequestFails(r) PROVE FoundInv'
  BY <1>7 DEF RequestFails
<1>8. ASSUME NEW w \in Worker, StartProcessing(w) PROVE FoundInv'
  BY <1>8 DEF StartProcessing, AtStep, GoTo, MayStart, MarkProcessing
<1>9. ASSUME NEW w \in Worker, StartRefused(w) PROVE FoundInv'
  BY <1>9 DEF StartRefused, AtStep, GoTo, MayStart, MarkProcessing
<1>10. ASSUME NEW w \in Worker, StartError(w) PROVE FoundInv'
  BY <1>10 DEF StartError, AtStep, GoTo, MayStart, MarkProcessing
<1>11. ASSUME NEW w \in Worker, FinalizeCompleted(w) PROVE FoundInv'
  BY <1>11 DEF FinalizeCompleted, AtStep, GoTo, MayFinalize, WriteCompleted, LeaveProcessing
<1>12. ASSUME NEW w \in Worker, FinalizeError(w) PROVE FoundInv'
  BY <1>12 DEF FinalizeError, AtStep, GoTo, MayFinalize, WriteCompleted, LeaveProcessing
<1>13. ASSUME NEW w \in Worker, FinalizeFailed(w) PROVE FoundInv'
  BY <1>13 DEF FinalizeFailed, AtStep, GoTo, MayFinalize, LeaveProcessing
<1>14. ASSUME NEW c \in Cleaner, FindStaleProcessing(c) PROVE FoundInv'
  BY <1>14 DEF FindStaleProcessing, StaleProcessing, RequestInv, LockColumns
<1>15. ASSUME NEW c \in Cleaner, FindStaleLocks(c) PROVE FoundInv'
  BY <1>15 DEF FindStaleLocks, StaleLock, RequestInv, LockColumns
<1>16. ASSUME NEW c \in Cleaner, CleanupEnds(c) \/ CleanerCrashes(c) PROVE FoundInv'
  BY <1>16 DEF CleanupEnds, ReleaseCleanupLock, CleanerCrashes
<1>17. ASSUME NEW c \in Cleaner, NEW j \in Request, HandleStaleJob(c, j) PROVE FoundInv'
  BY <1>17 DEF HandleStaleJob, TakeFound, LeaveProcessing
<1>18. ASSUME NEW c \in Cleaner, NEW j \in Request, HandleError(c, j) PROVE FoundInv'
  BY <1>18 DEF HandleError, TakeFound
<1>19. ASSUME NEW j \in Request,
        Backoff(j) \/ RedeliverAbandoned(j) \/ RedeliverStalled(j) \/ LockExpires(j) \/
           LockLapses(j) \/ RowAges(j)
     PROVE FoundInv'
  BY <1>19 DEF Backoff, RedeliverAbandoned, Abandoned, TakeAway, Working, RedeliverStalled,
     LockExpires, LockLapses, RowAges
<1>20. ASSUME NEW w \in Worker,
        AcquireLock(w) \/ AcquireRefused(w) \/ ProcessBatch(w) \/ UpdateJobProgress(w) \/
           ProcessingFails(w) \/ ProcessingEnds(w) \/ ReleaseLock(w) \/ Settle(w) \/
           WorkerCrashes(w)
     PROVE FoundInv'
  BY <1>20 DEF AcquireLock, AtStep, GoTo, LockIsFree, AcquireRefused, ProcessBatch, MoreBatches,
     UpdateJobProgress, ProcessingFails, ProcessingEnds, FileIsRead, ReleaseLock, Settle,
     WorkerCrashes
<1>21. ASSUME NEW c \in Cleaner,
        CleanupBegins(c)
     PROVE FoundInv'
  BY <1>21 DEF CleanupBegins
<1>22. ASSUME NEW w \in Worker, NEW j \in Request, Deliver(w, j) PROVE FoundInv'
  BY <1>22 DEF Deliver
<1>23. CASE CleanupLockExpires \/ UNCHANGED vars
  BY <1>23 DEF CleanupLockExpires, vars
<1> QED
  BY <1>1, <1>2, <1>3, <1>4, <1>5, <1>6, <1>7, <1>8, <1>9, <1>10, <1>11, <1>12, <1>13, <1>14, <1>15,
     <1>16, <1>17, <1>18, <1>19, <1>20, <1>21, <1>22, <1>23 DEF Next, RequestStep, WorkerStep,
     QueueStep, CleanerStep, HandleSome

\* Every handler that writes the status writes the lock columns with it.
LEMMA LockColumnsStep == ASSUME Typed, RequestInv, LockColumns, [Next]_vars PROVE LockColumns'
<1> USE NamesAssumption
    DEF Typed, TypeOK, LockColumns, apiVars, rowVars, queueVars, workerVars, cleanVars
<1>1. ASSUME NEW r \in Request, CreateRow(r) PROVE LockColumns'
  BY <1>1 DEF CreateRow, RequestInv
<1>2. ASSUME NEW r \in Request, SaveFileUrl(r) PROVE LockColumns'
  BY <1>2 DEF SaveFileUrl
<1>3. ASSUME NEW w \in Worker, StartProcessing(w) PROVE LockColumns'
  BY <1>3 DEF StartProcessing, AtStep, GoTo, MayStart, MarkProcessing
<1>4. ASSUME NEW w \in Worker, StartRefused(w) PROVE LockColumns'
  BY <1>4 DEF StartRefused, AtStep, GoTo, MayStart, MarkProcessing
<1>5. ASSUME NEW w \in Worker, StartError(w) PROVE LockColumns'
  BY <1>5 DEF StartError, AtStep, GoTo, MayStart, MarkProcessing
<1>6. ASSUME NEW w \in Worker, FinalizeCompleted(w) PROVE LockColumns'
  BY <1>6 DEF FinalizeCompleted, AtStep, GoTo, MayFinalize, WriteCompleted, LeaveProcessing
<1>7. ASSUME NEW w \in Worker, FinalizeError(w) PROVE LockColumns'
  BY <1>7 DEF FinalizeError, AtStep, GoTo, MayFinalize, WriteCompleted, LeaveProcessing
<1>8. ASSUME NEW w \in Worker, FinalizeFailed(w) PROVE LockColumns'
  BY <1>8 DEF FinalizeFailed, AtStep, GoTo, MayFinalize, LeaveProcessing
<1>9. ASSUME NEW c \in Cleaner, NEW j \in Request, HandleStaleJob(c, j) PROVE LockColumns'
  BY <1>9 DEF HandleStaleJob, TakeFound, LeaveProcessing
<1>10. ASSUME NEW r \in Request,
        FindByIdempotencyKey(r) \/ CreateConflict(r) \/ UploadFile(r) \/ Enqueue(r) \/
           RequestFails(r)
     PROVE LockColumns'
  BY <1>10 DEF FindByIdempotencyKey, JobsWithKeyOf, CreateConflict, UploadFile, Enqueue,
     RequestFails
<1>11. ASSUME NEW j \in Request,
        Backoff(j) \/ RedeliverAbandoned(j) \/ RedeliverStalled(j) \/ LockExpires(j) \/
           LockLapses(j) \/ RowAges(j)
     PROVE LockColumns'
  BY <1>11 DEF Backoff, RedeliverAbandoned, Abandoned, TakeAway, Working, RedeliverStalled,
     LockExpires, LockLapses, RowAges
<1>12. ASSUME NEW w \in Worker,
        AcquireLock(w) \/ AcquireRefused(w) \/ ProcessBatch(w) \/ UpdateJobProgress(w) \/
           ProcessingFails(w) \/ ProcessingEnds(w) \/ ReleaseLock(w) \/ Settle(w) \/
           WorkerCrashes(w)
     PROVE LockColumns'
  BY <1>12 DEF AcquireLock, AtStep, GoTo, LockIsFree, AcquireRefused, ProcessBatch, MoreBatches,
     UpdateJobProgress, ProcessingFails, ProcessingEnds, FileIsRead, ReleaseLock, Settle,
     WorkerCrashes
<1>13. ASSUME NEW c \in Cleaner,
        CleanupBegins(c) \/ FindStaleProcessing(c) \/ FindStaleLocks(c) \/ CleanupEnds(c) \/
           CleanerCrashes(c)
     PROVE LockColumns'
  BY <1>13 DEF CleanupBegins, FindStaleProcessing, StaleProcessing, FindStaleLocks, StaleLock,
     CleanupEnds, ReleaseCleanupLock, CleanerCrashes
<1>14. ASSUME NEW w \in Worker, NEW j \in Request, Deliver(w, j) PROVE LockColumns'
  BY <1>14 DEF Deliver
<1>15. ASSUME NEW c \in Cleaner, NEW j \in Request, HandleError(c, j) PROVE LockColumns'
  BY <1>15 DEF HandleError, TakeFound
<1>16. CASE CleanupLockExpires \/ UNCHANGED vars
  BY <1>16 DEF CleanupLockExpires, vars
<1> QED
  BY <1>1, <1>2, <1>3, <1>4, <1>5, <1>6, <1>7, <1>8, <1>9, <1>10, <1>11, <1>12, <1>13, <1>14, <1>15,
     <1>16 DEF Next, RequestStep, WorkerStep, QueueStep, CleanerStep, HandleSome

BaseInv == Typed /\ RequestInv /\ FoundInv /\ LockColumns

\* The parts of the unconditional invariant are inductive together.
LEMMA BaseInvariant == Spec => []BaseInv
<1>1. Init => BaseInv
  BY NamesAssumption, BoundsAssumption
  DEF Init, BaseInv, Typed, TypeOK, QueueInv, WorkerInv, RequestInv, FoundInv, LockColumns, Early,
      JobTokens, CleanupTokens
<1>2. BaseInv /\ [Next]_vars => BaseInv'
  BY TypeStep, QueueInvStep, WorkerInvStep, RequestInvStep, FoundInvStep, LockColumnsStep
  DEF BaseInv, Typed
<1> QED
  BY <1>1, <1>2, PTL DEF Spec

\* Every variable keeps its type, whatever fails: no counter leaves its bounds and no
\* step is reached with a job that is not there.
THEOREM TypeCorrect == Spec => []TypeOK
<1>1. BaseInv => TypeOK
  BY DEF BaseInv, Typed
<1> QED
  BY <1>1, BaseInvariant, PTL

\* locked_by and locked_at are set exactly while a job is PROCESSING, whatever crashes,
\* repeats or fails between the handlers that write them.
THEOREM LockColumnsTheorem == Spec => []LockColumns
<1>1. BaseInv => LockColumns
  BY DEF BaseInv
<1> QED
  BY <1>1, BaseInvariant, PTL

-----------------------------------------------------------------------------
\* A key has at most one row, and answers are jobs with the key that was sent.
KeyInv ==
  /\ \A r, s \in Request : SameKey(r, s) /\ status[r] # "none" /\ status[s] # "none" => r = s
  /\ \A r \in Request : \A j \in answer[r] : status[j] # "none" /\ (j = r \/ SameKey(r, j))

\* Only an insert gives a key a row, and it checks the constraint.
LEMMA KeyInvStep == ASSUME BaseInv, KeyInv, [Next]_vars PROVE KeyInv'
<1> USE NamesAssumption
    DEF BaseInv, Typed, TypeOK, KeyInv, SameKey, apiVars, rowVars, queueVars, workerVars, cleanVars
<1>0. ASSUME UNCHANGED answer, \A j \in Request : status'[j] = "none" <=> status[j] = "none"
      PROVE  KeyInv'
  BY <1>0
<1>1. ASSUME NEW r \in Request, FindByIdempotencyKey(r) PROVE KeyInv'
  <2>1. CASE UNCHANGED answer
    BY <1>0, <1>1, <2>1 DEF FindByIdempotencyKey
  <2>2. ASSUME NEW j \in JobsWithKeyOf(r), answer' = [answer EXCEPT ![r] = {j}] PROVE KeyInv'
    <3>1. status' = status
      BY <1>1 DEF FindByIdempotencyKey
    <3> QED
      BY <2>2, <3>1 DEF JobsWithKeyOf
  <2> QED
    BY <1>1, <2>1, <2>2 DEF FindByIdempotencyKey
<1>2. ASSUME NEW r \in Request, CreateRow(r) PROVE KeyInv'
  BY <1>2 DEF CreateRow, KeyIsTaken, JobsWithKeyOf
<1>3. ASSUME NEW r \in Request, SaveFileUrl(r) PROVE KeyInv'
  BY <1>3 DEF SaveFileUrl, RequestInv
<1>4. ASSUME NEW r \in Request, Enqueue(r) PROVE KeyInv'
  <2>1. UNCHANGED status /\ status[r] # "none"
    BY <1>4 DEF Enqueue, RequestInv
  <2>2. UNCHANGED answer \/ answer' = [answer EXCEPT ![r] = {r}]
    BY <1>4 DEF Enqueue
  <2> QED
    BY SMTT(30), <2>1, <2>2
<1>5. ASSUME NEW w \in Worker, StartProcessing(w) PROVE KeyInv'
  BY <1>5 DEF StartProcessing, AtStep, GoTo, MayStart, MarkProcessing
<1>6. ASSUME NEW w \in Worker, StartRefused(w) PROVE KeyInv'
  BY <1>6 DEF StartRefused, AtStep, GoTo, MayStart, MarkProcessing
<1>7. ASSUME NEW w \in Worker, StartError(w) PROVE KeyInv'
  BY <1>7 DEF StartError, AtStep, GoTo, MayStart, MarkProcessing
<1>8. ASSUME NEW w \in Worker, FinalizeCompleted(w) PROVE KeyInv'
  <2>1. UNCHANGED answer
    BY <1>8 DEF FinalizeCompleted
  <2>2. \A j \in Request : status'[j] = "none" <=> status[j] = "none"
    BY <1>8 DEF FinalizeCompleted, AtStep, MayFinalize, WriteCompleted, LeaveProcessing
  <2> QED
    BY <1>0, <2>1, <2>2
<1>9. ASSUME NEW w \in Worker, FinalizeError(w) PROVE KeyInv'
  <2>1. UNCHANGED answer
    BY <1>9 DEF FinalizeError
  <2>2. \A j \in Request : status'[j] = "none" <=> status[j] = "none"
    BY <1>9 DEF FinalizeError, AtStep, MayFinalize, WriteCompleted, LeaveProcessing
  <2> QED
    BY <1>0, <2>1, <2>2
<1>10. ASSUME NEW w \in Worker, FinalizeFailed(w) PROVE KeyInv'
  <2>1. UNCHANGED answer
    BY <1>10 DEF FinalizeFailed
  <2>2. \A j \in Request : status'[j] = "none" <=> status[j] = "none"
    BY <1>10 DEF FinalizeFailed, AtStep, MayFinalize, LeaveProcessing
  <2> QED
    BY <1>0, <2>1, <2>2
<1>11. ASSUME NEW c \in Cleaner, NEW j \in Request, HandleStaleJob(c, j) PROVE KeyInv'
  BY <1>11 DEF HandleStaleJob, TakeFound, LeaveProcessing, FoundInv
<1>12. ASSUME NEW r \in Request,
        CreateConflict(r) \/ UploadFile(r) \/ RequestFails(r)
     PROVE KeyInv'
  BY <1>12 DEF CreateConflict, UploadFile, RequestFails
<1>13. ASSUME NEW j \in Request,
        Backoff(j) \/ RedeliverAbandoned(j) \/ RedeliverStalled(j) \/ LockExpires(j) \/
           LockLapses(j) \/ RowAges(j)
     PROVE KeyInv'
  BY <1>13 DEF Backoff, RedeliverAbandoned, Abandoned, TakeAway, Working, RedeliverStalled,
     LockExpires, LockLapses, RowAges
<1>14. ASSUME NEW w \in Worker,
        AcquireLock(w) \/ AcquireRefused(w) \/ ProcessBatch(w) \/ UpdateJobProgress(w) \/
           ProcessingFails(w) \/ ProcessingEnds(w) \/ ReleaseLock(w) \/ Settle(w) \/
           WorkerCrashes(w)
     PROVE KeyInv'
  BY <1>14 DEF AcquireLock, AtStep, GoTo, LockIsFree, AcquireRefused, ProcessBatch, MoreBatches,
     UpdateJobProgress, ProcessingFails, ProcessingEnds, FileIsRead, ReleaseLock, Settle,
     WorkerCrashes
<1>15. ASSUME NEW c \in Cleaner,
        CleanupBegins(c) \/ FindStaleProcessing(c) \/ FindStaleLocks(c) \/ CleanupEnds(c) \/
           CleanerCrashes(c)
     PROVE KeyInv'
  BY <1>15 DEF CleanupBegins, FindStaleProcessing, StaleProcessing, FindStaleLocks, StaleLock,
     CleanupEnds, ReleaseCleanupLock, CleanerCrashes
<1>16. ASSUME NEW w \in Worker, NEW j \in Request, Deliver(w, j) PROVE KeyInv'
  BY <1>16 DEF Deliver
<1>17. ASSUME NEW c \in Cleaner, NEW j \in Request, HandleError(c, j) PROVE KeyInv'
  BY <1>17 DEF HandleError, TakeFound
<1>18. CASE CleanupLockExpires \/ UNCHANGED vars
  BY <1>18 DEF CleanupLockExpires, vars
<1> QED
  BY <1>1, <1>2, <1>3, <1>4, <1>5, <1>6, <1>7, <1>8, <1>9, <1>10, <1>11, <1>12, <1>13, <1>14, <1>15,
     <1>16, <1>17, <1>18 DEF Next, RequestStep, WorkerStep, QueueStep, CleanerStep, HandleSome

\* Requests with one key are answered with one job, however they interleave.
THEOREM KeyTheorem == Spec => []KeyNamesOneJob
<1>1. Init => KeyInv
  BY DEF Init, KeyInv
<1>2. KeyInv /\ BaseInv => KeyNamesOneJob
  BY DEF KeyInv, BaseInv, Typed, TypeOK, KeyNamesOneJob, SameKey
<1> QED
  BY <1>1, <1>2, KeyInvStep, BaseInvariant, PTL DEF Spec

-----------------------------------------------------------------------------
\* A job that has not been claimed, or not again, is untouched: true without restarts.
FreshInv ==
  \A j \in Request :
    status[j] \in {"none", "PENDING"} => written[j] = 0 /\ \A w \in Worker : ~Executing(w, j)

\* Nothing turns a claimed job back into an unclaimed one.
LEMMA FreshInvStep == ASSUME ~RestartStaleJobs, BaseInv, FreshInv, [Next]_vars PROVE FreshInv'
<1> USE NamesAssumption
    DEF BaseInv, Typed, TypeOK, FreshInv, Executing, apiVars, rowVars, queueVars, workerVars, cleanVars
<1>1. ASSUME NEW r \in Request, CreateRow(r) PROVE FreshInv'
  BY <1>1 DEF CreateRow, RequestInv, WorkerInv, Early
<1>2. ASSUME NEW r \in Request, SaveFileUrl(r) PROVE FreshInv'
  BY <1>2 DEF SaveFileUrl, RequestInv, WorkerInv, Early
<1>3. ASSUME NEW w \in Worker, NEW j \in Request, Deliver(w, j) PROVE FreshInv'
  BY <1>3 DEF Deliver
<1>4. ASSUME NEW w \in Worker, AcquireLock(w) PROVE FreshInv'
  BY <1>4 DEF AcquireLock, AtStep, GoTo, LockIsFree
<1>5. ASSUME NEW w \in Worker, AcquireRefused(w) PROVE FreshInv'
  BY <1>5 DEF AcquireRefused, AtStep, GoTo, LockIsFree
<1>6. ASSUME NEW w \in Worker, StartProcessing(w) PROVE FreshInv'
  BY <1>6 DEF StartProcessing, AtStep, GoTo, MayStart, MarkProcessing
<1>7. ASSUME NEW w \in Worker, StartRefused(w) PROVE FreshInv'
  BY <1>7 DEF StartRefused, AtStep, GoTo, MayStart, MarkProcessing
<1>8. ASSUME NEW w \in Worker, StartError(w) PROVE FreshInv'
  BY <1>8 DEF StartError, AtStep, GoTo, MayStart, MarkProcessing
<1>9. ASSUME NEW w \in Worker, ProcessBatch(w) PROVE FreshInv'
  BY <1>9 DEF ProcessBatch, AtStep, GoTo, MoreBatches
<1>10. ASSUME NEW w \in Worker, UpdateJobProgress(w) PROVE FreshInv'
  BY <1>10 DEF UpdateJobProgress, AtStep, GoTo
<1>11. ASSUME NEW w \in Worker, ProcessingFails(w) PROVE FreshInv'
  BY <1>11 DEF ProcessingFails, GoTo
<1>12. ASSUME NEW w \in Worker, ProcessingEnds(w) PROVE FreshInv'
  BY <1>12 DEF ProcessingEnds, AtStep, GoTo, FileIsRead
<1>13. ASSUME NEW w \in Worker, FinalizeCompleted(w) PROVE FreshInv'
  BY <1>13 DEF FinalizeCompleted, AtStep, GoTo, MayFinalize, WriteCompleted, LeaveProcessing
<1>14. ASSUME NEW w \in Worker, FinalizeError(w) PROVE FreshInv'
  BY <1>14 DEF FinalizeError, AtStep, GoTo, MayFinalize, WriteCompleted, LeaveProcessing
<1>15. ASSUME NEW w \in Worker, FinalizeFailed(w) PROVE FreshInv'
  BY <1>15 DEF FinalizeFailed, AtStep, GoTo, MayFinalize, LeaveProcessing
<1>16. ASSUME NEW w \in Worker, ReleaseLock(w) PROVE FreshInv'
  BY <1>16 DEF ReleaseLock, AtStep, GoTo
<1>17. ASSUME NEW w \in Worker, Settle(w) PROVE FreshInv'
  BY <1>17 DEF Settle
<1>18. ASSUME NEW w \in Worker, WorkerCrashes(w) PROVE FreshInv'
  BY <1>18 DEF WorkerCrashes, GoTo
<1>19. ASSUME NEW c \in Cleaner, NEW j \in Request, HandleStaleJob(c, j) PROVE FreshInv'
  BY <1>19 DEF HandleStaleJob, TakeFound, LeaveProcessing, ResetsToPending
<1>20. ASSUME NEW r \in Request,
        FindByIdempotencyKey(r) \/ CreateConflict(r) \/ UploadFile(r) \/ Enqueue(r) \/
           RequestFails(r)
     PROVE FreshInv'
  BY <1>20 DEF FindByIdempotencyKey, JobsWithKeyOf, CreateConflict, UploadFile, Enqueue,
     RequestFails
<1>21. ASSUME NEW j \in Request,
        Backoff(j) \/ RedeliverAbandoned(j) \/ RedeliverStalled(j) \/ LockExpires(j) \/
           LockLapses(j) \/ RowAges(j)
     PROVE FreshInv'
  BY <1>21 DEF Backoff, RedeliverAbandoned, Abandoned, TakeAway, Working, RedeliverStalled,
     LockExpires, LockLapses, RowAges
<1>22. ASSUME NEW c \in Cleaner,
        CleanupBegins(c) \/ FindStaleProcessing(c) \/ FindStaleLocks(c) \/ CleanupEnds(c) \/
           CleanerCrashes(c)
     PROVE FreshInv'
  BY <1>22 DEF CleanupBegins, FindStaleProcessing, StaleProcessing, FindStaleLocks, StaleLock,
     CleanupEnds, ReleaseCleanupLock, CleanerCrashes
<1>23. ASSUME NEW c \in Cleaner, NEW j \in Request, HandleError(c, j) PROVE FreshInv'
  BY <1>23 DEF HandleError, TakeFound
<1>24. CASE CleanupLockExpires \/ UNCHANGED vars
  BY <1>24 DEF CleanupLockExpires, vars
<1> QED
  BY <1>1, <1>2, <1>3, <1>4, <1>5, <1>6, <1>7, <1>8, <1>9, <1>10, <1>11, <1>12, <1>13, <1>14, <1>15,
     <1>16, <1>17, <1>18, <1>19, <1>20, <1>21, <1>22, <1>23, <1>24 DEF Next, RequestStep,
     WorkerStep, QueueStep, CleanerStep, HandleSome

\* From SET NX to releaseLock the key holds the token of the worker: true if no lock lapses.
HolderInv ==
  \A w \in Worker :
    wpc[w] \in {"transition", "run", "progress", "complete", "fail", "release"} => lock[wjob[w]] = w

\* Nobody else writes the key of a lock that is held.
LEMMA HolderInvStep == ASSUME "lapse" \notin Faults, BaseInv, HolderInv, [Next]_vars PROVE HolderInv'
<1> USE NamesAssumption
    DEF BaseInv, Typed, TypeOK, WorkerInv, HolderInv, apiVars, rowVars, queueVars, workerVars, cleanVars
<1>1. ASSUME NEW w \in Worker, NEW j \in Request, Deliver(w, j) PROVE HolderInv'
  BY <1>1 DEF Deliver
<1>2. ASSUME NEW j \in Request, LockExpires(j) PROVE HolderInv'
  BY <1>2 DEF LockExpires
<1>3. ASSUME NEW j \in Request, LockLapses(j) PROVE HolderInv'
  BY <1>3 DEF LockLapses
<1>4. ASSUME NEW w \in Worker, AcquireLock(w) PROVE HolderInv'
  BY <1>4 DEF AcquireLock, AtStep, GoTo, LockIsFree
<1>5. ASSUME NEW w \in Worker, AcquireRefused(w) PROVE HolderInv'
  BY <1>5 DEF AcquireRefused, AtStep, GoTo, LockIsFree
<1>6. ASSUME NEW w \in Worker, StartProcessing(w) PROVE HolderInv'
  BY <1>6 DEF StartProcessing, AtStep, GoTo, MayStart, MarkProcessing
<1>7. ASSUME NEW w \in Worker, StartRefused(w) PROVE HolderInv'
  BY <1>7 DEF StartRefused, AtStep, GoTo, MayStart, MarkProcessing
<1>8. ASSUME NEW w \in Worker, StartError(w) PROVE HolderInv'
  BY <1>8 DEF StartError, AtStep, GoTo, MayStart, MarkProcessing
<1>9. ASSUME NEW w \in Worker, ProcessBatch(w) PROVE HolderInv'
  BY <1>9 DEF ProcessBatch, AtStep, GoTo, MoreBatches
<1>10. ASSUME NEW w \in Worker, UpdateJobProgress(w) PROVE HolderInv'
  BY <1>10 DEF UpdateJobProgress, AtStep, GoTo
<1>11. ASSUME NEW w \in Worker, ProcessingFails(w) PROVE HolderInv'
  BY <1>11 DEF ProcessingFails, GoTo
<1>12. ASSUME NEW w \in Worker, ProcessingEnds(w) PROVE HolderInv'
  BY <1>12 DEF ProcessingEnds, AtStep, GoTo, FileIsRead
<1>13. ASSUME NEW w \in Worker, FinalizeCompleted(w) PROVE HolderInv'
  BY <1>13 DEF FinalizeCompleted, AtStep, GoTo, MayFinalize, WriteCompleted, LeaveProcessing
<1>14. ASSUME NEW w \in Worker, FinalizeError(w) PROVE HolderInv'
  BY <1>14 DEF FinalizeError, AtStep, GoTo, MayFinalize, WriteCompleted, LeaveProcessing
<1>15. ASSUME NEW w \in Worker, FinalizeFailed(w) PROVE HolderInv'
  BY <1>15 DEF FinalizeFailed, AtStep, GoTo, MayFinalize, LeaveProcessing
<1>16. ASSUME NEW w \in Worker, ReleaseLock(w) PROVE HolderInv'
  BY <1>16 DEF ReleaseLock, AtStep, GoTo
<1>17. ASSUME NEW w \in Worker, Settle(w) PROVE HolderInv'
  BY <1>17 DEF Settle
<1>18. ASSUME NEW w \in Worker, WorkerCrashes(w) PROVE HolderInv'
  BY <1>18 DEF WorkerCrashes, GoTo
<1>19. ASSUME NEW r \in Request,
        FindByIdempotencyKey(r) \/ CreateRow(r) \/ CreateConflict(r) \/ UploadFile(r) \/
           SaveFileUrl(r) \/ Enqueue(r) \/ RequestFails(r)
     PROVE HolderInv'
  BY <1>19 DEF FindByIdempotencyKey, JobsWithKeyOf, CreateRow, CreateConflict, UploadFile,
     SaveFileUrl, Enqueue, RequestFails
<1>20. ASSUME NEW j \in Request,
        Backoff(j) \/ RedeliverAbandoned(j) \/ RedeliverStalled(j) \/ RowAges(j)
     PROVE HolderInv'
  BY <1>20 DEF Backoff, RedeliverAbandoned, Abandoned, TakeAway, Working, RedeliverStalled, RowAges
<1>21. ASSUME NEW c \in Cleaner,
        CleanupBegins(c) \/ FindStaleProcessing(c) \/ FindStaleLocks(c) \/ CleanupEnds(c) \/
           CleanerCrashes(c)
     PROVE HolderInv'
  BY <1>21 DEF CleanupBegins, FindStaleProcessing, StaleProcessing, FindStaleLocks, StaleLock,
     CleanupEnds, ReleaseCleanupLock, CleanerCrashes
<1>22. ASSUME NEW c \in Cleaner, NEW j \in Request, HandleStaleJob(c, j) PROVE HolderInv'
  BY <1>22 DEF HandleStaleJob, TakeFound, LeaveProcessing
<1>23. ASSUME NEW c \in Cleaner, NEW j \in Request, HandleError(c, j) PROVE HolderInv'
  BY <1>23 DEF HandleError, TakeFound
<1>24. CASE CleanupLockExpires \/ UNCHANGED vars
  BY <1>24 DEF CleanupLockExpires, vars
<1> QED
  BY <1>1, <1>2, <1>3, <1>4, <1>5, <1>6, <1>7, <1>8, <1>9, <1>10, <1>11, <1>12, <1>13, <1>14, <1>15,
     <1>16, <1>17, <1>18, <1>19, <1>20, <1>21, <1>22, <1>23, <1>24 DEF Next, RequestStep,
     WorkerStep, QueueStep, CleanerStep, HandleSome

-----------------------------------------------------------------------------
\* What keeps two workers apart: the status, which is claimed once, or the lock,
\* which is held throughout.  Only restarts and lapsing locks together defeat both.
Protected == ~RestartStaleJobs \/ "lapse" \notin Faults

SafeInv ==
  /\ BaseInv
  /\ ~RestartStaleJobs => FreshInv
  /\ "lapse" \notin Faults => HolderInv

\* A running import is not COMPLETED, and what it counted is written.
RunInv ==
  \A w \in Worker :
    wpc[w] \in {"run", "progress", "complete"} =>
      status[wjob[w]] # "COMPLETED" /\ done[w] <= written[wjob[w]]

ExecInv == SafeInv /\ OneExecution /\ RunInv /\ CompletedIsWhole

\* What keeps workers apart is kept by every step.
LEMMA SafeInvStep == ASSUME SafeInv, [Next]_vars PROVE SafeInv'
<1>1. BaseInv'
  BY TypeStep, QueueInvStep, WorkerInvStep, RequestInvStep, FoundInvStep, LockColumnsStep
  DEF SafeInv, BaseInv, Typed
<1> QED
  BY <1>1, FreshInvStep, HolderInvStep DEF SafeInv

\* A worker that starts is the only one with its job.
LEMMA StartsAlone ==
  ASSUME Protected, SafeInv, NEW w \in Worker, AtStep(w, "transition"), MayStart(wjob[w]),
         NEW v \in Worker
  PROVE  ~Executing(v, wjob[w])
<1> USE NamesAssumption DEF SafeInv, BaseInv, Typed, TypeOK, WorkerInv
<1>1. CASE ~RestartStaleJobs
  BY <1>1 DEF FreshInv, AtStep, MayStart
<1>2. CASE "lapse" \notin Faults
  BY <1>2 DEF HolderInv, AtStep, Executing
<1> QED
  BY <1>1, <1>2 DEF Protected

\* A worker begins to import only in StartProcessing, alone.
LEMMA OneExecutionStep ==
  ASSUME Protected, SafeInv, OneExecution, [Next]_vars PROVE OneExecution'
<1> USE NamesAssumption
    DEF OneExecution, Executing, apiVars, rowVars, queueVars, workerVars, cleanVars
<1>0. TypeOK /\ WorkerInv
  BY DEF SafeInv, BaseInv, Typed
<1>1. ASSUME NEW w \in Worker, NEW j \in Request, Deliver(w, j) PROVE OneExecution'
  BY <1>1, <1>0 DEF Deliver, TypeOK
<1>2. ASSUME NEW w \in Worker, AcquireLock(w) PROVE OneExecution'
  BY <1>2, <1>0 DEF AcquireLock, AtStep, GoTo, LockIsFree, TypeOK
<1>3. ASSUME NEW w \in Worker, AcquireRefused(w) PROVE OneExecution'
  BY <1>3, <1>0 DEF AcquireRefused, AtStep, GoTo, LockIsFree, TypeOK
<1>4. ASSUME NEW w \in Worker, StartProcessing(w) PROVE OneExecution'
  BY <1>4, <1>0, StartsAlone DEF StartProcessing, AtStep, GoTo, MayStart, MarkProcessing, TypeOK,
     WorkerInv
<1>5. ASSUME NEW w \in Worker, StartRefused(w) PROVE OneExecution'
  BY <1>5, <1>0 DEF StartRefused, AtStep, GoTo, MayStart, MarkProcessing, TypeOK
<1>6. ASSUME NEW w \in Worker, StartError(w) PROVE OneExecution'
  BY <1>6, <1>0 DEF StartError, AtStep, GoTo, MayStart, MarkProcessing, TypeOK
<1>7. ASSUME NEW w \in Worker, ProcessBatch(w) PROVE OneExecution'
  BY <1>7, <1>0 DEF ProcessBatch, AtStep, GoTo, MoreBatches, TypeOK
<1>8. ASSUME NEW w \in Worker, UpdateJobProgress(w) PROVE OneExecution'
  BY <1>8, <1>0 DEF UpdateJobProgress, AtStep, GoTo, TypeOK
<1>9. ASSUME NEW w \in Worker, ProcessingFails(w) PROVE OneExecution'
  BY <1>9, <1>0 DEF ProcessingFails, GoTo, TypeOK
<1>10. ASSUME NEW w \in Worker, ProcessingEnds(w) PROVE OneExecution'
  BY <1>10, <1>0 DEF ProcessingEnds, AtStep, GoTo, FileIsRead, TypeOK
<1>11. ASSUME NEW w \in Worker, FinalizeCompleted(w) PROVE OneExecution'
  BY <1>11, <1>0 DEF FinalizeCompleted, AtStep, GoTo, MayFinalize, WriteCompleted, LeaveProcessing,
     TypeOK
<1>12. ASSUME NEW w \in Worker, FinalizeError(w) PROVE OneExecution'
  BY <1>12, <1>0 DEF FinalizeError, AtStep, GoTo, MayFinalize, WriteCompleted, LeaveProcessing,
     TypeOK
<1>13. ASSUME NEW w \in Worker, FinalizeFailed(w) PROVE OneExecution'
  BY <1>13, <1>0 DEF FinalizeFailed, AtStep, GoTo, MayFinalize, LeaveProcessing, TypeOK
<1>14. ASSUME NEW w \in Worker, ReleaseLock(w) PROVE OneExecution'
  BY <1>14, <1>0 DEF ReleaseLock, AtStep, GoTo, TypeOK
<1>15. ASSUME NEW w \in Worker, Settle(w) PROVE OneExecution'
  BY <1>15, <1>0 DEF Settle, TypeOK
<1>16. ASSUME NEW w \in Worker, WorkerCrashes(w) PROVE OneExecution'
  BY <1>16, <1>0 DEF WorkerCrashes, GoTo, TypeOK
<1>17. ASSUME NEW r \in Request,
        FindByIdempotencyKey(r) \/ CreateRow(r) \/ CreateConflict(r) \/ UploadFile(r) \/
           SaveFileUrl(r) \/ Enqueue(r) \/ RequestFails(r)
     PROVE OneExecution'
  BY <1>17 DEF FindByIdempotencyKey, JobsWithKeyOf, CreateRow, CreateConflict, UploadFile,
     SaveFileUrl, Enqueue, RequestFails
<1>18. ASSUME NEW j \in Request,
        Backoff(j) \/ RedeliverAbandoned(j) \/ RedeliverStalled(j) \/ LockExpires(j) \/
           LockLapses(j) \/ RowAges(j)
     PROVE OneExecution'
  BY <1>18 DEF Backoff, RedeliverAbandoned, Abandoned, TakeAway, Working, RedeliverStalled,
     LockExpires, LockLapses, RowAges
<1>19. ASSUME NEW c \in Cleaner,
        CleanupBegins(c) \/ FindStaleProcessing(c) \/ FindStaleLocks(c) \/ CleanupEnds(c) \/
           CleanerCrashes(c)
     PROVE OneExecution'
  BY <1>19 DEF CleanupBegins, FindStaleProcessing, StaleProcessing, FindStaleLocks, StaleLock,
     CleanupEnds, ReleaseCleanupLock, CleanerCrashes
<1>20. ASSUME NEW c \in Cleaner, NEW j \in Request, HandleStaleJob(c, j) PROVE OneExecution'
  BY <1>20 DEF HandleStaleJob, TakeFound, LeaveProcessing
<1>21. ASSUME NEW c \in Cleaner, NEW j \in Request, HandleError(c, j) PROVE OneExecution'
  BY <1>21 DEF HandleError, TakeFound
<1>22. CASE CleanupLockExpires \/ UNCHANGED vars
  BY <1>22 DEF CleanupLockExpires, vars
<1> QED
  BY <1>1, <1>2, <1>3, <1>4, <1>5, <1>6, <1>7, <1>8, <1>9, <1>10, <1>11, <1>12, <1>13, <1>14, <1>15,
     <1>16, <1>17, <1>18, <1>19, <1>20, <1>21, <1>22 DEF Next, RequestStep, WorkerStep, QueueStep,
     CleanerStep, HandleSome

\* Only the worker of a job completes it, and written batches stay written.
LEMMA RunInvStep ==
  ASSUME Protected, SafeInv, OneExecution, RunInv, [Next]_vars PROVE RunInv'
<1> USE NamesAssumption, BoundsAssumption
    DEF RunInv, apiVars, rowVars, queueVars, workerVars, cleanVars
<1>0. TypeOK /\ WorkerInv /\ RequestInv
  BY DEF SafeInv, BaseInv, Typed
<1>1. ASSUME NEW r \in Request, CreateRow(r) PROVE RunInv'
  BY <1>1, <1>0 DEF CreateRow, TypeOK, WorkerInv
<1>2. ASSUME NEW r \in Request, SaveFileUrl(r) PROVE RunInv'
  BY <1>2, <1>0 DEF SaveFileUrl, TypeOK, WorkerInv
<1>3. ASSUME NEW w \in Worker, NEW j \in Request, Deliver(w, j) PROVE RunInv'
  BY <1>3, <1>0 DEF Deliver, TypeOK, WorkerInv
<1>4. ASSUME NEW w \in Worker, AcquireLock(w) PROVE RunInv'
  BY <1>4, <1>0 DEF AcquireLock, AtStep, GoTo, LockIsFree, TypeOK, WorkerInv
<1>5. ASSUME NEW w \in Worker, AcquireRefused(w) PROVE RunInv'
  BY <1>5, <1>0 DEF AcquireRefused, AtStep, GoTo, LockIsFree, TypeOK, WorkerInv
<1>6. ASSUME NEW w \in Worker, StartProcessing(w) PROVE RunInv'
  BY <1>6, <1>0 DEF StartProcessing, AtStep, GoTo, MayStart, MarkProcessing, TypeOK, WorkerInv
<1>7. ASSUME NEW w \in Worker, StartRefused(w) PROVE RunInv'
  BY <1>7, <1>0 DEF StartRefused, AtStep, GoTo, MayStart, MarkProcessing, TypeOK, WorkerInv
<1>8. ASSUME NEW w \in Worker, StartError(w) PROVE RunInv'
  BY <1>8, <1>0 DEF StartError, AtStep, GoTo, MayStart, MarkProcessing, TypeOK, WorkerInv
<1>9. ASSUME NEW w \in Worker, ProcessBatch(w) PROVE RunInv'
  BY <1>9, <1>0 DEF ProcessBatch, AtStep, GoTo, MoreBatches, TypeOK, WorkerInv
<1>10. ASSUME NEW w \in Worker, UpdateJobProgress(w) PROVE RunInv'
  BY <1>10, <1>0 DEF UpdateJobProgress, AtStep, GoTo, TypeOK, WorkerInv
<1>11. ASSUME NEW w \in Worker, ProcessingFails(w) PROVE RunInv'
  BY <1>11, <1>0 DEF ProcessingFails, GoTo, TypeOK, WorkerInv
<1>12. ASSUME NEW w \in Worker, ProcessingEnds(w) PROVE RunInv'
  BY <1>12, <1>0 DEF ProcessingEnds, AtStep, GoTo, FileIsRead, TypeOK, WorkerInv
<1>13. ASSUME NEW w \in Worker, FinalizeCompleted(w) PROVE RunInv'
  BY <1>13, <1>0 DEF FinalizeCompleted, AtStep, GoTo, MayFinalize, WriteCompleted, LeaveProcessing,
     TypeOK, WorkerInv, OneExecution, Executing
<1>14. ASSUME NEW w \in Worker, FinalizeError(w) PROVE RunInv'
  BY <1>14, <1>0 DEF FinalizeError, AtStep, GoTo, MayFinalize, WriteCompleted, LeaveProcessing,
     TypeOK, WorkerInv, OneExecution, Executing
<1>15. ASSUME NEW w \in Worker, FinalizeFailed(w) PROVE RunInv'
  BY <1>15, <1>0 DEF FinalizeFailed, AtStep, GoTo, MayFinalize, LeaveProcessing, TypeOK, WorkerInv
<1>16. ASSUME NEW w \in Worker, ReleaseLock(w) PROVE RunInv'
  BY <1>16, <1>0 DEF ReleaseLock, AtStep, GoTo, TypeOK, WorkerInv
<1>17. ASSUME NEW w \in Worker, Settle(w) PROVE RunInv'
  BY <1>17, <1>0 DEF Settle, TypeOK, WorkerInv
<1>18. ASSUME NEW w \in Worker, WorkerCrashes(w) PROVE RunInv'
  BY <1>18, <1>0 DEF WorkerCrashes, GoTo, TypeOK, WorkerInv
<1>19. ASSUME NEW c \in Cleaner, NEW j \in Request, HandleStaleJob(c, j) PROVE RunInv'
  BY <1>19, <1>0 DEF HandleStaleJob, TakeFound, LeaveProcessing, TypeOK, WorkerInv
<1>20. ASSUME NEW r \in Request,
        FindByIdempotencyKey(r) \/ CreateConflict(r) \/ UploadFile(r) \/ Enqueue(r) \/
           RequestFails(r)
     PROVE RunInv'
  BY <1>20 DEF FindByIdempotencyKey, JobsWithKeyOf, CreateConflict, UploadFile, Enqueue,
     RequestFails
<1>21. ASSUME NEW j \in Request,
        Backoff(j) \/ RedeliverAbandoned(j) \/ RedeliverStalled(j) \/ LockExpires(j) \/
           LockLapses(j) \/ RowAges(j)
     PROVE RunInv'
  BY <1>21 DEF Backoff, RedeliverAbandoned, Abandoned, TakeAway, Working, RedeliverStalled,
     LockExpires, LockLapses, RowAges
<1>22. ASSUME NEW c \in Cleaner,
        CleanupBegins(c) \/ FindStaleProcessing(c) \/ FindStaleLocks(c) \/ CleanupEnds(c) \/
           CleanerCrashes(c)
     PROVE RunInv'
  BY <1>22 DEF CleanupBegins, FindStaleProcessing, StaleProcessing, FindStaleLocks, StaleLock,
     CleanupEnds, ReleaseCleanupLock, CleanerCrashes
<1>23. ASSUME NEW c \in Cleaner, NEW j \in Request, HandleError(c, j) PROVE RunInv'
  BY <1>23 DEF HandleError, TakeFound
<1>24. CASE CleanupLockExpires \/ UNCHANGED vars
  BY <1>24 DEF CleanupLockExpires, vars
<1> QED
  BY <1>1, <1>2, <1>3, <1>4, <1>5, <1>6, <1>7, <1>8, <1>9, <1>10, <1>11, <1>12, <1>13, <1>14, <1>15,
     <1>16, <1>17, <1>18, <1>19, <1>20, <1>21, <1>22, <1>23, <1>24 DEF Next, RequestStep,
     WorkerStep, QueueStep, CleanerStep, HandleSome

\* A COMPLETED row is written once, whole, and not touched by the worker again.
LEMMA CompletedStep ==
  ASSUME SafeInv, RunInv, CompletedIsWhole, [Next]_vars PROVE CompletedIsWhole'
<1> USE NamesAssumption, BoundsAssumption
    DEF CompletedIsWhole, apiVars, rowVars, queueVars, workerVars, cleanVars
<1>0. TypeOK /\ WorkerInv /\ RequestInv
  BY DEF SafeInv, BaseInv, Typed
<1>1. ASSUME NEW r \in Request, CreateRow(r) PROVE CompletedIsWhole'
  BY <1>1, <1>0 DEF CreateRow, TypeOK, WorkerInv
<1>2. ASSUME NEW r \in Request, SaveFileUrl(r) PROVE CompletedIsWhole'
  BY <1>2, <1>0 DEF SaveFileUrl, TypeOK, WorkerInv
<1>3. ASSUME NEW w \in Worker, StartProcessing(w) PROVE CompletedIsWhole'
  BY <1>3, <1>0 DEF StartProcessing, AtStep, GoTo, MayStart, MarkProcessing, TypeOK, WorkerInv
<1>4. ASSUME NEW w \in Worker, StartRefused(w) PROVE CompletedIsWhole'
  BY <1>4, <1>0 DEF StartRefused, AtStep, GoTo, MayStart, MarkProcessing, TypeOK, WorkerInv
<1>5. ASSUME NEW w \in Worker, StartError(w) PROVE CompletedIsWhole'
  BY <1>5, <1>0 DEF StartError, AtStep, GoTo, MayStart, MarkProcessing, TypeOK, WorkerInv
<1>6. ASSUME NEW w \in Worker, ProcessBatch(w) PROVE CompletedIsWhole'
  BY <1>6, <1>0 DEF ProcessBatch, AtStep, GoTo, MoreBatches, TypeOK, WorkerInv
<1>7. ASSUME NEW w \in Worker, UpdateJobProgress(w) PROVE CompletedIsWhole'
  BY <1>7, <1>0 DEF UpdateJobProgress, AtStep, GoTo, TypeOK, WorkerInv, RunInv
<1>8. ASSUME NEW w \in Worker, FinalizeCompleted(w) PROVE CompletedIsWhole'
  BY <1>8, <1>0 DEF FinalizeCompleted, AtStep, GoTo, MayFinalize, WriteCompleted, LeaveProcessing,
     TypeOK, WorkerInv, RunInv
<1>9. ASSUME NEW w \in Worker, FinalizeError(w) PROVE CompletedIsWhole'
  BY <1>9, <1>0 DEF FinalizeError, AtStep, GoTo, MayFinalize, WriteCompleted, LeaveProcessing,
     TypeOK, WorkerInv, RunInv
<1>10. ASSUME NEW w \in Worker, FinalizeFailed(w) PROVE CompletedIsWhole'
  BY <1>10, <1>0 DEF FinalizeFailed, AtStep, GoTo, MayFinalize, LeaveProcessing, TypeOK, WorkerInv
<1>11. ASSUME NEW c \in Cleaner, NEW j \in Request, HandleStaleJob(c, j) PROVE CompletedIsWhole'
  BY <1>11, <1>0 DEF HandleStaleJob, TakeFound, LeaveProcessing, TypeOK, WorkerInv
<1>12. ASSUME NEW r \in Request,
        FindByIdempotencyKey(r) \/ CreateConflict(r) \/ UploadFile(r) \/ Enqueue(r) \/
           RequestFails(r)
     PROVE CompletedIsWhole'
  BY <1>12 DEF FindByIdempotencyKey, JobsWithKeyOf, CreateConflict, UploadFile, Enqueue,
     RequestFails
<1>13. ASSUME NEW j \in Request,
        Backoff(j) \/ RedeliverAbandoned(j) \/ RedeliverStalled(j) \/ LockExpires(j) \/
           LockLapses(j) \/ RowAges(j)
     PROVE CompletedIsWhole'
  BY <1>13 DEF Backoff, RedeliverAbandoned, Abandoned, TakeAway, Working, RedeliverStalled,
     LockExpires, LockLapses, RowAges
<1>14. ASSUME NEW w \in Worker,
        AcquireLock(w) \/ AcquireRefused(w) \/ ProcessingFails(w) \/ ProcessingEnds(w) \/
           ReleaseLock(w) \/ Settle(w) \/ WorkerCrashes(w)
     PROVE CompletedIsWhole'
  BY <1>14 DEF AcquireLock, AtStep, GoTo, LockIsFree, AcquireRefused, ProcessingFails,
     ProcessingEnds, FileIsRead, ReleaseLock, Settle, WorkerCrashes
<1>15. ASSUME NEW c \in Cleaner,
        CleanupBegins(c) \/ FindStaleProcessing(c) \/ FindStaleLocks(c) \/ CleanupEnds(c) \/
           CleanerCrashes(c)
     PROVE CompletedIsWhole'
  BY <1>15 DEF CleanupBegins, FindStaleProcessing, StaleProcessing, FindStaleLocks, StaleLock,
     CleanupEnds, ReleaseCleanupLock, CleanerCrashes
<1>16. ASSUME NEW w \in Worker, NEW j \in Request, Deliver(w, j) PROVE CompletedIsWhole'
  BY <1>16 DEF Deliver
<1>17. ASSUME NEW c \in Cleaner, NEW j \in Request, HandleError(c, j) PROVE CompletedIsWhole'
  BY <1>17 DEF HandleError, TakeFound
<1>18. CASE CleanupLockExpires \/ UNCHANGED vars
  BY <1>18 DEF CleanupLockExpires, vars
<1> QED
  BY <1>1, <1>2, <1>3, <1>4, <1>5, <1>6, <1>7, <1>8, <1>9, <1>10, <1>11, <1>12, <1>13, <1>14, <1>15,
     <1>16, <1>17, <1>18 DEF Next, RequestStep, WorkerStep, QueueStep, CleanerStep, HandleSome

\* The invariant behind the next two theorems.
LEMMA ExecInvariant == ASSUME Protected PROVE Spec => []ExecInv
<1>1. Init => ExecInv
  <2>1. Init => BaseInv
    BY NamesAssumption, BoundsAssumption
    DEF Init, BaseInv, Typed, TypeOK, QueueInv, WorkerInv, RequestInv, FoundInv, LockColumns, Early,
        JobTokens, CleanupTokens
  <2> QED
    BY <2>1 DEF Init, ExecInv, SafeInv, FreshInv, HolderInv, RunInv, OneExecution, Executing,
       CompletedIsWhole
<1>2. ExecInv /\ [Next]_vars => ExecInv'
  BY SafeInvStep, OneExecutionStep, RunInvStep, CompletedStep DEF ExecInv
<1> QED
  BY <1>1, <1>2, PTL DEF Spec

\* No two workers import one file at a time, whatever the queue repeats and whoever dies:
\* without restarts even if locks lapse, with restarts as long as no lock lapses.
THEOREM OneExecutionTheorem == ASSUME Protected PROVE Spec => []OneExecution
<1>1. ExecInv => OneExecution
  BY DEF ExecInv
<1> QED
  BY <1>1, ExecInvariant, PTL

\* Under the same condition a COMPLETED job has written and reports every batch.
THEOREM CompletedTheorem == ASSUME Protected PROVE Spec => []CompletedIsWhole
<1>1. ExecInv => CompletedIsWhole
  BY DEF ExecInv
<1> QED
  BY <1>1, ExecInvariant, PTL

-----------------------------------------------------------------------------
\* Without restarts the one worker of a job has written all that was written.
CountInv ==
  /\ NoBatchTwice
  /\ \A w \in Worker : wpc[w] \in {"run", "progress", "complete", "fail"} => written[wjob[w]] = done[w]

\* A batch is counted by its worker as it is written, and no other worker writes.
LEMMA CountInvStep ==
  ASSUME ~RestartStaleJobs, SafeInv, OneExecution, CountInv, [Next]_vars PROVE CountInv'
<1> USE NamesAssumption, BoundsAssumption
    DEF CountInv, NoBatchTwice, apiVars, rowVars, queueVars, workerVars, cleanVars
<1>0. TypeOK /\ WorkerInv /\ FreshInv
  BY DEF SafeInv, BaseInv, Typed
<1>1. ASSUME NEW w \in Worker, NEW j \in Request, Deliver(w, j) PROVE CountInv'
  BY <1>1, <1>0 DEF Deliver, TypeOK, WorkerInv
<1>2. ASSUME NEW w \in Worker, AcquireLock(w) PROVE CountInv'
  BY <1>2, <1>0 DEF AcquireLock, AtStep, GoTo, LockIsFree, TypeOK, WorkerInv
<1>3. ASSUME NEW w \in Worker, AcquireRefused(w) PROVE CountInv'
  BY <1>3, <1>0 DEF AcquireRefused, AtStep, GoTo, LockIsFree, TypeOK, WorkerInv
<1>4. ASSUME NEW w \in Worker, StartProcessing(w) PROVE CountInv'
  BY <1>4, <1>0 DEF StartProcessing, AtStep, GoTo, MayStart, MarkProcessing, TypeOK, WorkerInv,
     FreshInv
<1>5. ASSUME NEW w \in Worker, StartRefused(w) PROVE CountInv'
  BY <1>5, <1>0 DEF StartRefused, AtStep, GoTo, MayStart, MarkProcessing, TypeOK, WorkerInv
<1>6. ASSUME NEW w \in Worker, StartError(w) PROVE CountInv'
  BY <1>6, <1>0 DEF StartError, AtStep, GoTo, MayStart, MarkProcessing, TypeOK, WorkerInv
<1>7. ASSUME NEW w \in Worker, ProcessBatch(w) PROVE CountInv'
  BY <1>7, <1>0 DEF ProcessBatch, AtStep, GoTo, MoreBatches, TypeOK, WorkerInv, OneExecution,
     Executing
<1>8. ASSUME NEW w \in Worker, UpdateJobProgress(w) PROVE CountInv'
  BY <1>8, <1>0 DEF UpdateJobProgress, AtStep, GoTo, TypeOK, WorkerInv
<1>9. ASSUME NEW w \in Worker, ProcessingFails(w) PROVE CountInv'
  BY <1>9, <1>0 DEF ProcessingFails, GoTo, TypeOK, WorkerInv
<1>10. ASSUME NEW w \in Worker, ProcessingEnds(w) PROVE CountInv'
  BY <1>10, <1>0 DEF ProcessingEnds, AtStep, GoTo, FileIsRead, TypeOK, WorkerInv
<1>11. ASSUME NEW w \in Worker, FinalizeCompleted(w) PROVE CountInv'
  BY <1>11, <1>0 DEF FinalizeCompleted, AtStep, GoTo, MayFinalize, WriteCompleted, LeaveProcessing,
     TypeOK, WorkerInv
<1>12. ASSUME NEW w \in Worker, FinalizeError(w) PROVE CountInv'
  BY <1>12, <1>0 DEF FinalizeError, AtStep, GoTo, MayFinalize, WriteCompleted, LeaveProcessing,
     TypeOK, WorkerInv
<1>13. ASSUME NEW w \in Worker, FinalizeFailed(w) PROVE CountInv'
  BY <1>13, <1>0 DEF FinalizeFailed, AtStep, GoTo, MayFinalize, LeaveProcessing, TypeOK, WorkerInv
<1>14. ASSUME NEW w \in Worker, ReleaseLock(w) PROVE CountInv'
  BY <1>14, <1>0 DEF ReleaseLock, AtStep, GoTo, TypeOK, WorkerInv
<1>15. ASSUME NEW w \in Worker, Settle(w) PROVE CountInv'
  BY <1>15, <1>0 DEF Settle, TypeOK, WorkerInv
<1>16. ASSUME NEW w \in Worker, WorkerCrashes(w) PROVE CountInv'
  BY <1>16, <1>0 DEF WorkerCrashes, GoTo, TypeOK, WorkerInv
<1>17. ASSUME NEW r \in Request,
        FindByIdempotencyKey(r) \/ CreateRow(r) \/ CreateConflict(r) \/ UploadFile(r) \/
           SaveFileUrl(r) \/ Enqueue(r) \/ RequestFails(r)
     PROVE CountInv'
  BY <1>17 DEF FindByIdempotencyKey, JobsWithKeyOf, CreateRow, CreateConflict, UploadFile,
     SaveFileUrl, Enqueue, RequestFails
<1>18. ASSUME NEW j \in Request,
        Backoff(j) \/ RedeliverAbandoned(j) \/ RedeliverStalled(j) \/ LockExpires(j) \/
           LockLapses(j) \/ RowAges(j)
     PROVE CountInv'
  BY <1>18 DEF Backoff, RedeliverAbandoned, Abandoned, TakeAway, Working, RedeliverStalled,
     LockExpires, LockLapses, RowAges
<1>19. ASSUME NEW c \in Cleaner,
        CleanupBegins(c) \/ FindStaleProcessing(c) \/ FindStaleLocks(c) \/ CleanupEnds(c) \/
           CleanerCrashes(c)
     PROVE CountInv'
  BY <1>19 DEF CleanupBegins, FindStaleProcessing, StaleProcessing, FindStaleLocks, StaleLock,
     CleanupEnds, ReleaseCleanupLock, CleanerCrashes
<1>20. ASSUME NEW c \in Cleaner, NEW j \in Request, HandleStaleJob(c, j) PROVE CountInv'
  BY <1>20 DEF HandleStaleJob, TakeFound, LeaveProcessing
<1>21. ASSUME NEW c \in Cleaner, NEW j \in Request, HandleError(c, j) PROVE CountInv'
  BY <1>21 DEF HandleError, TakeFound
<1>22. CASE CleanupLockExpires \/ UNCHANGED vars
  BY <1>22 DEF CleanupLockExpires, vars
<1> QED
  BY <1>1, <1>2, <1>3, <1>4, <1>5, <1>6, <1>7, <1>8, <1>9, <1>10, <1>11, <1>12, <1>13, <1>14, <1>15,
     <1>16, <1>17, <1>18, <1>19, <1>20, <1>21, <1>22 DEF Next, RequestStep, WorkerStep, QueueStep,
     CleanerStep, HandleSome

\* Without restarts no batch is written twice, whatever the queue repeats.
THEOREM NoBatchTwiceTheorem == ASSUME ~RestartStaleJobs PROVE Spec => []NoBatchTwice
<1>1. Init => CountInv
  BY BoundsAssumption DEF Init, CountInv, NoBatchTwice
<1>2. ExecInv /\ CountInv /\ [Next]_vars => CountInv'
  BY CountInvStep DEF ExecInv
<1>3. CountInv => NoBatchTwice
  BY DEF CountInv
<1>4. Spec => []ExecInv
  BY ExecInvariant DEF Protected
<1> QED
  BY <1>1, <1>2, <1>3, <1>4, PTL DEF Spec

-----------------------------------------------------------------------------
\* Without restarts and overlong imports the cleanup meets only jobs nobody works on.
Deserted(j) == \A w \in Worker : ~Executing(w, j)

ClientInv ==
  /\ \A j \in Request : status[j] = "PROCESSING" /\ age[j] > 0 => Deserted(j)
  /\ \A c \in Cleaner : \A f \in found[c] : status[f[1]] \in {"PROCESSING", "FAILED"} /\ Deserted(f[1])
  /\ \A w \in Worker : wpc[w] \in {"run", "progress", "complete"} => status[wjob[w]] = "PROCESSING"

Punctual == ~RestartStaleJobs /\ "slow" \notin Faults

\* A row ages, is found and is failed only after its worker has gone.
LEMMA ClientInvStep ==
  ASSUME Punctual, SafeInv, OneExecution, ClientInv, [Next]_vars PROVE ClientInv'
<1> USE NamesAssumption, BoundsAssumption
    DEF ClientInv, Deserted, Executing, apiVars, rowVars, queueVars, workerVars, cleanVars
<1>0. TypeOK /\ WorkerInv /\ RequestInv /\ LockColumns /\ FoundInv
  BY DEF SafeInv, BaseInv, Typed
<1>1. ASSUME NEW r \in Request, CreateRow(r) PROVE ClientInv'
  BY <1>1, <1>0 DEF CreateRow, TypeOK, WorkerInv, RequestInv, FoundInv, Early
<1>2. ASSUME NEW r \in Request, SaveFileUrl(r) PROVE ClientInv'
  BY <1>2, <1>0 DEF SaveFileUrl, TypeOK, WorkerInv, RequestInv, FoundInv, Early
<1>3. ASSUME NEW w \in Worker, NEW j \in Request, Deliver(w, j) PROVE ClientInv'
  BY <1>3, <1>0 DEF Deliver, TypeOK, WorkerInv
<1>4. ASSUME NEW j \in Request, RowAges(j) PROVE ClientInv'
  BY <1>4, <1>0 DEF RowAges, TypeOK, WorkerInv, Punctual
<1>5. ASSUME NEW w \in Worker, AcquireLock(w) PROVE ClientInv'
  BY <1>5, <1>0 DEF AcquireLock, AtStep, GoTo, LockIsFree, TypeOK, WorkerInv
<1>6. ASSUME NEW w \in Worker, AcquireRefused(w) PROVE ClientInv'
  BY <1>6, <1>0 DEF AcquireRefused, AtStep, GoTo, LockIsFree, TypeOK, WorkerInv
<1>7. ASSUME NEW w \in Worker, StartProcessing(w) PROVE ClientInv'
  BY <1>7, <1>0 DEF StartProcessing, AtStep, GoTo, MayStart, MarkProcessing, TypeOK, WorkerInv
<1>8. ASSUME NEW w \in Worker, StartRefused(w) PROVE ClientInv'
  <2>1. CASE UNCHANGED rowVars
    BY <1>8, <1>0, <2>1 DEF StartRefused, AtStep, GoTo, TypeOK, WorkerInv
  <2>2. CASE MayStart(wjob[w]) /\ MarkProcessing(wjob[w])
    BY <1>8, <1>0, <2>2 DEF StartRefused, AtStep, GoTo, MayStart, MarkProcessing, TypeOK, WorkerInv
  <2> QED
    BY <1>8, <2>1, <2>2 DEF StartRefused
<1>9. ASSUME NEW w \in Worker, StartError(w) PROVE ClientInv'
  <2>1. CASE UNCHANGED rowVars
    BY <1>9, <1>0, <2>1 DEF StartError, AtStep, GoTo, TypeOK, WorkerInv
  <2>2. CASE MayStart(wjob[w]) /\ MarkProcessing(wjob[w])
    BY <1>9, <1>0, <2>2 DEF StartError, AtStep, GoTo, MayStart, MarkProcessing, TypeOK, WorkerInv
  <2> QED
    BY <1>9, <2>1, <2>2 DEF StartError
<1>10. ASSUME NEW w \in Worker, ProcessBatch(w) PROVE ClientInv'
  BY <1>10, <1>0 DEF ProcessBatch, AtStep, GoTo, MoreBatches, TypeOK, WorkerInv
<1>11. ASSUME NEW w \in Worker, UpdateJobProgress(w) PROVE ClientInv'
  BY <1>11, <1>0 DEF UpdateJobProgress, AtStep, GoTo, TypeOK, WorkerInv
<1>12. ASSUME NEW w \in Worker, ProcessingFails(w) PROVE ClientInv'
  BY <1>12, <1>0 DEF ProcessingFails, GoTo, TypeOK, WorkerInv
<1>13. ASSUME NEW w \in Worker, ProcessingEnds(w) PROVE ClientInv'
  BY <1>13, <1>0 DEF ProcessingEnds, AtStep, GoTo, FileIsRead, TypeOK, WorkerInv
<1>14. ASSUME NEW w \in Worker, FinalizeCompleted(w) PROVE ClientInv'
  BY <1>14, <1>0 DEF FinalizeCompleted, AtStep, GoTo, MayFinalize, WriteCompleted, LeaveProcessing,
     TypeOK, WorkerInv, OneExecution
<1>15. ASSUME NEW w \in Worker, FinalizeError(w) PROVE ClientInv'
  BY <1>15, <1>0 DEF FinalizeError, AtStep, GoTo, MayFinalize, WriteCompleted, LeaveProcessing,
     TypeOK, WorkerInv, OneExecution
<1>16. ASSUME NEW w \in Worker, FinalizeFailed(w) PROVE ClientInv'
  BY <1>16, <1>0 DEF FinalizeFailed, AtStep, GoTo, MayFinalize, LeaveProcessing, TypeOK, WorkerInv,
     OneExecution
<1>17. ASSUME NEW w \in Worker, ReleaseLock(w) PROVE ClientInv'
  BY <1>17, <1>0 DEF ReleaseLock, AtStep, GoTo, TypeOK, WorkerInv
<1>18. ASSUME NEW w \in Worker, Settle(w) PROVE ClientInv'
  BY <1>18, <1>0 DEF Settle, TypeOK, WorkerInv
<1>19. ASSUME NEW w \in Worker, WorkerCrashes(w) PROVE ClientInv'
  BY <1>19, <1>0 DEF WorkerCrashes, GoTo, TypeOK, WorkerInv
<1>20. ASSUME NEW c \in Cleaner, FindStaleProcessing(c) PROVE ClientInv'
  BY <1>20, <1>0 DEF FindStaleProcessing, StaleProcessing, TypeOK, LockColumns
<1>21. ASSUME NEW c \in Cleaner, FindStaleLocks(c) PROVE ClientInv'
  BY <1>21, <1>0 DEF FindStaleLocks, StaleLock, TypeOK, LockColumns
<1>22. ASSUME NEW c \in Cleaner, CleanupEnds(c) \/ CleanerCrashes(c) PROVE ClientInv'
  <2>1. UNCHANGED <<status, age, wpc, wjob>>
    BY <1>22 DEF CleanupEnds, CleanerCrashes
  <2>2. found' = [found EXCEPT ![c] = {}]
    BY <1>22 DEF CleanupEnds, CleanerCrashes
  <2>3. \A d \in Cleaner : found'[d] \subseteq found[d]
    BY <1>0, <2>2 DEF TypeOK
  <2> QED
    BY <2>1, <2>3
<1>23. ASSUME NEW c \in Cleaner, NEW j \in Request, HandleStaleJob(c, j) PROVE ClientInv'
  BY <1>23, <1>0 DEF HandleStaleJob, TakeFound, LeaveProcessing, TypeOK, ResetsToPending, Punctual
<1>24. ASSUME NEW c \in Cleaner, NEW j \in Request, HandleError(c, j) PROVE ClientInv'
  BY <1>24, <1>0 DEF HandleError, TakeFound, TypeOK, WorkerInv
<1>25. ASSUME NEW r \in Request,
        FindByIdempotencyKey(r) \/ CreateConflict(r) \/ UploadFile(r) \/ Enqueue(r) \/
           RequestFails(r)
     PROVE ClientInv'
  BY <1>25 DEF FindByIdempotencyKey, JobsWithKeyOf, CreateConflict, UploadFile, Enqueue,
     RequestFails
<1>26. ASSUME NEW j \in Request,
        Backoff(j) \/ RedeliverAbandoned(j) \/ RedeliverStalled(j) \/ LockExpires(j) \/
           LockLapses(j)
     PROVE ClientInv'
  BY <1>26 DEF Backoff, RedeliverAbandoned, Abandoned, TakeAway, Working, RedeliverStalled,
     LockExpires, LockLapses
<1>27. ASSUME NEW c \in Cleaner,
        CleanupBegins(c)
     PROVE ClientInv'
  BY <1>27 DEF CleanupBegins
<1>28. CASE CleanupLockExpires \/ UNCHANGED vars
  BY <1>28 DEF CleanupLockExpires, vars
<1> QED
  BY <1>1, <1>2, <1>3, <1>4, <1>5, <1>6, <1>7, <1>8, <1>9, <1>10, <1>11, <1>12, <1>13, <1>14, <1>15,
     <1>16, <1>17, <1>18, <1>19, <1>20, <1>21, <1>22, <1>23, <1>24, <1>25, <1>26, <1>27, <1>28 DEF 
     Next, RequestStep, WorkerStep, QueueStep, CleanerStep, HandleSome

\* Without restarts the cleanup knows only jobs that are claimed or finished for good.
StartedInv ==
  \A c \in Cleaner : \A f \in found[c] : status[f[1]] \notin {"none", "PENDING"}

\* It finds rows that carry a lock, and no claimed job becomes unclaimed.
LEMMA StartedInvStep ==
  ASSUME ~RestartStaleJobs, SafeInv, StartedInv, [Next]_vars PROVE StartedInv'
<1> USE NamesAssumption
    DEF StartedInv, Early, apiVars, rowVars, queueVars, workerVars, cleanVars
<1>0. TypeOK /\ RequestInv /\ FoundInv /\ LockColumns
  BY DEF SafeInv, BaseInv, Typed
<1>1. ASSUME NEW r \in Request, FindByIdempotencyKey(r) PROVE StartedInv'
  BY <1>1 DEF FindByIdempotencyKey, JobsWithKeyOf
<1>2. ASSUME NEW r \in Request, CreateRow(r) PROVE StartedInv'
  BY <1>2, <1>0 DEF CreateRow, TypeOK, RequestInv, FoundInv
<1>3. ASSUME NEW r \in Request, CreateConflict(r) PROVE StartedInv'
  BY <1>3 DEF CreateConflict
<1>4. ASSUME NEW r \in Request, UploadFile(r) PROVE StartedInv'
  BY <1>4 DEF UploadFile
<1>5. ASSUME NEW r \in Request, SaveFileUrl(r) PROVE StartedInv'
  BY <1>5, <1>0 DEF SaveFileUrl, TypeOK, RequestInv, FoundInv
<1>6. ASSUME NEW r \in Request, Enqueue(r) PROVE StartedInv'
  BY <1>6 DEF Enqueue
<1>7. ASSUME NEW r \in Request, RequestFails(r) PROVE StartedInv'
  BY <1>7 DEF RequestFails
<1>8. ASSUME NEW w \in Worker, StartProcessing(w) PROVE StartedInv'
  BY <1>8, <1>0 DEF StartProcessing, AtStep, GoTo, MayStart, MarkProcessing, TypeOK
<1>9. ASSUME NEW w \in Worker, StartRefused(w) PROVE StartedInv'
  BY <1>9, <1>0 DEF StartRefused, AtStep, GoTo, MayStart, MarkProcessing, TypeOK
<1>10. ASSUME NEW w \in Worker, StartError(w) PROVE StartedInv'
  BY <1>10, <1>0 DEF StartError, AtStep, GoTo, MayStart, MarkProcessing, TypeOK
<1>11. ASSUME NEW w \in Worker, FinalizeCompleted(w) PROVE StartedInv'
  BY <1>11, <1>0 DEF FinalizeCompleted, AtStep, GoTo, MayFinalize, WriteCompleted, LeaveProcessing, TypeOK
<1>12. ASSUME NEW w \in Worker, FinalizeError(w) PROVE StartedInv'
  BY <1>12, <1>0 DEF FinalizeError, AtStep, GoTo, MayFinalize, WriteCompleted, LeaveProcessing, TypeOK
<1>13. ASSUME NEW w \in Worker, FinalizeFailed(w) PROVE StartedInv'
  BY <1>13, <1>0 DEF FinalizeFailed, AtStep, GoTo, MayFinalize, LeaveProcessing, TypeOK
<1>14. ASSUME NEW c \in Cleaner, FindStaleProcessing(c) PROVE StartedInv'
  BY <1>14, <1>0 DEF FindStaleProcessing, StaleProcessing, TypeOK, LockColumns
<1>15. ASSUME NEW c \in Cleaner, FindStaleLocks(c) PROVE StartedInv'
  BY <1>15, <1>0 DEF FindStaleLocks, StaleLock, TypeOK, LockColumns
<1>16. ASSUME NEW c \in Cleaner, CleanupEnds(c) \/ CleanerCrashes(c) PROVE StartedInv'
  BY <1>16, <1>0 DEF CleanupEnds, ReleaseCleanupLock, CleanerCrashes, TypeOK
<1>17. ASSUME NEW c \in Cleaner, NEW j \in Request, HandleStaleJob(c, j) PROVE StartedInv'
  BY <1>17, <1>0 DEF HandleStaleJob, TakeFound, LeaveProcessing, ResetsToPending, TypeOK
<1>18. ASSUME NEW c \in Cleaner, NEW j \in Request, HandleError(c, j) PROVE StartedInv'
  BY <1>18, <1>0 DEF HandleError, TakeFound, TypeOK
<1>19. ASSUME NEW j \in Request,
        Backoff(j) \/ RedeliverAbandoned(j) \/ RedeliverStalled(j) \/ LockExpires(j) \/
           LockLapses(j) \/ RowAges(j)
     PROVE StartedInv'
  BY <1>19 DEF Backoff, RedeliverAbandoned, Abandoned, TakeAway, Working, RedeliverStalled,
     LockExpires, LockLapses, RowAges
<1>20. ASSUME NEW w \in Worker,
        AcquireLock(w) \/ AcquireRefused(w) \/ ProcessBatch(w) \/ UpdateJobProgress(w) \/
           ProcessingFails(w) \/ ProcessingEnds(w) \/ ReleaseLock(w) \/ Settle(w) \/
           WorkerCrashes(w)
     PROVE StartedInv'
  BY <1>20 DEF AcquireLock, AtStep, GoTo, LockIsFree, AcquireRefused, ProcessBatch, MoreBatches,
     UpdateJobProgress, ProcessingFails, ProcessingEnds, FileIsRead, ReleaseLock, Settle,
     WorkerCrashes
<1>21. ASSUME NEW c \in Cleaner,
        CleanupBegins(c)
     PROVE StartedInv'
  BY <1>21 DEF CleanupBegins
<1>22. ASSUME NEW w \in Worker, NEW j \in Request, Deliver(w, j) PROVE StartedInv'
  BY <1>22 DEF Deliver
<1>23. CASE CleanupLockExpires \/ UNCHANGED vars
  BY <1>23 DEF CleanupLockExpires, vars
<1> QED
  BY <1>1, <1>2, <1>3, <1>4, <1>5, <1>6, <1>7, <1>8, <1>9, <1>10, <1>11, <1>12, <1>13, <1>14, <1>15,
     <1>16, <1>17, <1>18, <1>19, <1>20, <1>21, <1>22, <1>23 DEF Next, RequestStep, WorkerStep,
     QueueStep, CleanerStep, HandleSome

\* Every step is a step of JobLifecycle or leaves the status and the batches alone.
LEMMA LifecycleStep ==
  ASSUME ~RestartStaleJobs, ExecInv, CountInv, StartedInv, "slow" \notin Faults => ClientInv,
         [Next]_vars
  PROVE  [Lifecycle!Next]_(Lifecycle!vars)
<1> USE NamesAssumption, BoundsAssumption
    DEF Lifecycle!vars, apiVars, rowVars, queueVars, workerVars, cleanVars
<1>0. TypeOK /\ WorkerInv /\ RequestInv /\ FreshInv /\ RunInv
  BY DEF ExecInv, SafeInv, BaseInv, Typed
<1>1. ASSUME NEW r \in Request, CreateRow(r)
      PROVE  [Lifecycle!Next]_(Lifecycle!vars)
  BY <1>1, <1>0 DEF CreateRow, TypeOK, RequestInv, Lifecycle!Next, Lifecycle!Accept,
     Lifecycle!Become
<1>2. ASSUME NEW r \in Request, SaveFileUrl(r)
      PROVE  [Lifecycle!Next]_(Lifecycle!vars)
  BY <1>2, <1>0 DEF SaveFileUrl, TypeOK, RequestInv
<1>3. ASSUME NEW w \in Worker, StartProcessing(w)
      PROVE  [Lifecycle!Next]_(Lifecycle!vars)
  <2>1. wjob[w] \in Request
    BY <1>3, <1>0 DEF StartProcessing, AtStep, TypeOK, WorkerInv
  <2>2. Lifecycle!Claim(wjob[w])
    BY <1>3, <1>0, <2>1
    DEF StartProcessing, MayStart, MarkProcessing, TypeOK, Lifecycle!Claim, Lifecycle!Become
  <2> QED
    BY <2>1, <2>2 DEF Lifecycle!Next
<1>4. ASSUME NEW w \in Worker, StartRefused(w)
      PROVE  [Lifecycle!Next]_(Lifecycle!vars)
  BY <1>4, <1>0 DEF StartRefused, AtStep, GoTo, MayStart, MarkProcessing, TypeOK, WorkerInv,
     Lifecycle!Next, Lifecycle!Become, Lifecycle!Claim
<1>5. ASSUME NEW w \in Worker, StartError(w)
      PROVE  [Lifecycle!Next]_(Lifecycle!vars)
  BY <1>5, <1>0 DEF StartError, AtStep, GoTo, MayStart, MarkProcessing, TypeOK, WorkerInv,
     Lifecycle!Next, Lifecycle!Become, Lifecycle!Claim
<1>6. ASSUME NEW w \in Worker, ProcessBatch(w)
      PROVE  [Lifecycle!Next]_(Lifecycle!vars)
  <2>1. wjob[w] \in Request
    BY <1>6, <1>0 DEF ProcessBatch, AtStep, TypeOK, WorkerInv
  <2>2. written[wjob[w]] = done[w] /\ done[w] < Batches
    BY <1>6, <1>0 DEF ProcessBatch, AtStep, MoreBatches, CountInv
  <2>3. status[wjob[w]] \in {"PROCESSING", "FAILED"}
    BY <1>6, <1>0, <2>1 DEF ProcessBatch, AtStep, TypeOK, JobStatus, FreshInv, Executing, RunInv
  <2>4. Lifecycle!InHand(wjob[w])
    BY <1>6, <2>3 DEF ProcessBatch, AtStep, ClientInv, Lifecycle!InHand
  <2>5. Lifecycle!Write(wjob[w])
    BY <1>6, <1>0, <2>1, <2>2, <2>4 DEF ProcessBatch, Lifecycle!Write
  <2> QED
    BY <2>1, <2>5 DEF Lifecycle!Next
<1>7. ASSUME NEW w \in Worker, FinalizeCompleted(w)
      PROVE  [Lifecycle!Next]_(Lifecycle!vars)
  BY <1>7, <1>0 DEF FinalizeCompleted, AtStep, GoTo, MayFinalize, WriteCompleted, LeaveProcessing,
     TypeOK, WorkerInv, CountInv, Lifecycle!Next, Lifecycle!Complete, Lifecycle!Become
<1>8. ASSUME NEW w \in Worker, FinalizeError(w)
      PROVE  [Lifecycle!Next]_(Lifecycle!vars)
  BY <1>8, <1>0 DEF FinalizeError, AtStep, GoTo, MayFinalize, WriteCompleted, LeaveProcessing,
     TypeOK, WorkerInv, CountInv, Lifecycle!Next, Lifecycle!Complete, Lifecycle!Become
<1>9. ASSUME NEW w \in Worker, FinalizeFailed(w)
      PROVE  [Lifecycle!Next]_(Lifecycle!vars)
  BY <1>9, <1>0 DEF FinalizeFailed, AtStep, GoTo, MayFinalize, LeaveProcessing, TypeOK, WorkerInv,
     Lifecycle!Next, Lifecycle!Become, Lifecycle!GiveUp
<1>10. ASSUME NEW c \in Cleaner, NEW j \in Request, HandleStaleJob(c, j)
      PROVE  [Lifecycle!Next]_(Lifecycle!vars)
  <2>1. PICK s \in JobStatus : TakeFound(c, j, s) /\ LeaveProcessing(j, "FAILED")
    BY <1>10 DEF HandleStaleJob, ResetsToPending
  <2>2. status[j] \in {"PROCESSING", "COMPLETED", "FAILED"}
    BY <1>0, <2>1 DEF TakeFound, StartedInv, TypeOK, JobStatus
  <2>3. CASE status[j] = "PROCESSING"
    <3>1. Lifecycle!GiveUp(j)
      BY <1>0, <2>1, <2>3 DEF TakeFound, LeaveProcessing, TypeOK, Lifecycle!GiveUp, Lifecycle!Become
    <3> QED
      BY <3>1 DEF Lifecycle!Next
  <2>4. CASE status[j] = "FAILED"
    BY <1>0, <2>1, <2>4 DEF TakeFound, LeaveProcessing, TypeOK
  <2>5. CASE status[j] = "COMPLETED"
    <3>1. "slow" \in Faults
      BY <2>1, <2>5 DEF TakeFound, ClientInv
    <3>2. Lifecycle!Doubt(j)
      BY <1>0, <2>1, <2>5, <3>1
      DEF TakeFound, LeaveProcessing, TypeOK, Lifecycle!Doubt, Lifecycle!Become
    <3> QED
      BY <3>2 DEF Lifecycle!Next
  <2> QED
    BY <2>2, <2>3, <2>4, <2>5
<1>11. ASSUME NEW r \in Request,
        FindByIdempotencyKey(r) \/ CreateConflict(r) \/ UploadFile(r) \/ Enqueue(r) \/
           RequestFails(r)
    
      PROVE  [Lifecycle!Next]_(Lifecycle!vars)
  BY <1>11 DEF FindByIdempotencyKey, JobsWithKeyOf, CreateConflict, UploadFile, Enqueue,
     RequestFails
<1>12. ASSUME NEW j \in Request,
        Backoff(j) \/ RedeliverAbandoned(j) \/ RedeliverStalled(j) \/ LockExpires(j) \/
           LockLapses(j) \/ RowAges(j)
    
      PROVE  [Lifecycle!Next]_(Lifecycle!vars)
  BY <1>12 DEF Backoff, RedeliverAbandoned, Abandoned, TakeAway, Working, RedeliverStalled,
     LockExpires, LockLapses, RowAges
<1>13. ASSUME NEW w \in Worker,
        AcquireLock(w) \/ AcquireRefused(w) \/ UpdateJobProgress(w) \/ ProcessingFails(w) \/
           ProcessingEnds(w) \/ ReleaseLock(w) \/ Settle(w) \/ WorkerCrashes(w)
    
      PROVE  [Lifecycle!Next]_(Lifecycle!vars)
  BY <1>13 DEF AcquireLock, AtStep, GoTo, LockIsFree, AcquireRefused, UpdateJobProgress,
     ProcessingFails, ProcessingEnds, FileIsRead, ReleaseLock, Settle, WorkerCrashes
<1>14. ASSUME NEW c \in Cleaner,
        CleanupBegins(c) \/ FindStaleProcessing(c) \/ FindStaleLocks(c) \/ CleanupEnds(c) \/
           CleanerCrashes(c)
    
      PROVE  [Lifecycle!Next]_(Lifecycle!vars)
  BY <1>14 DEF CleanupBegins, FindStaleProcessing, StaleProcessing, FindStaleLocks, StaleLock,
     CleanupEnds, ReleaseCleanupLock, CleanerCrashes
<1>15. ASSUME NEW w \in Worker, NEW j \in Request, Deliver(w, j)
      PROVE  [Lifecycle!Next]_(Lifecycle!vars)
  BY <1>15 DEF Deliver
<1>16. ASSUME NEW c \in Cleaner, NEW j \in Request, HandleError(c, j)
      PROVE  [Lifecycle!Next]_(Lifecycle!vars)
  BY <1>16 DEF HandleError, TakeFound
<1>17. CASE CleanupLockExpires \/ UNCHANGED vars
  BY <1>17 DEF CleanupLockExpires, vars
<1> QED
  BY <1>1, <1>2, <1>3, <1>4, <1>5, <1>6, <1>7, <1>8, <1>9, <1>10, <1>11, <1>12, <1>13, <1>14, <1>15,
     <1>16, <1>17 DEF Next, RequestStep, WorkerStep, QueueStep, CleanerStep, HandleSome

\* What clients see of a job follows JobLifecycle, whatever crashes, lapses, stalls,
\* drags on or fails, if nothing is restarted.
THEOREM LifecycleTheorem == ASSUME ~RestartStaleJobs PROVE Spec => ImplementsLifecycle
<1> DEFINE OnTime == "slow" \notin Faults => ClientInv
<1>1. Init => Lifecycle!Init
  BY DEF Init, Lifecycle!Init
<1>2. Init => OnTime /\ StartedInv /\ CountInv
  BY BoundsAssumption
  DEF Init, ClientInv, Deserted, Executing, StartedInv, CountInv, NoBatchTwice
<1>3. ExecInv /\ OnTime /\ [Next]_vars => OnTime'
  BY ClientInvStep DEF ExecInv, Punctual
<1>4. ExecInv /\ StartedInv /\ [Next]_vars => StartedInv'
  BY StartedInvStep DEF ExecInv
<1>5. ExecInv /\ CountInv /\ [Next]_vars => CountInv'
  BY CountInvStep DEF ExecInv
<1>6. ExecInv /\ OnTime /\ StartedInv /\ CountInv /\ [Next]_vars => [Lifecycle!Next]_(Lifecycle!vars)
  BY LifecycleStep
<1>7. Spec => []ExecInv
  BY ExecInvariant DEF Protected
<1> HIDE DEF OnTime
<1> QED
  BY <1>1, <1>2, <1>3, <1>4, <1>5, <1>6, <1>7, PTL DEF Spec, ImplementsLifecycle, Lifecycle!Spec

-----------------------------------------------------------------------------
(* The lock of each job is used as LockService lets it *)

\* A worker's token is at the key only while the worker is inside the try block.
TokenInv == \A j \in Request : \A w \in Worker : lock[j] = w => Holding(w, j)

\* Steps that touch neither the keys nor the workers.
Aside == UNCHANGED <<lock, wpc, wjob>>

LEMMA StepsAside ==
  ASSUME \/ \E r \in Request : RequestStep(r)
         \/ \E j \in Request : Backoff(j) \/ RedeliverAbandoned(j) \/ RedeliverStalled(j) \/ RowAges(j)
         \/ \E c \in Cleaner : CleanerStep(c) \/ CleanerCrashes(c)
         \/ CleanupLockExpires \/ UNCHANGED vars
  PROVE  Aside
<1> USE DEF Aside, workerVars
<1>1. CASE \E r \in Request : RequestStep(r)
  BY <1>1 DEF RequestStep, FindByIdempotencyKey, CreateRow, CreateConflict, UploadFile, SaveFileUrl,
     Enqueue, RequestFails
<1>2. CASE \E j \in Request : Backoff(j) \/ RedeliverAbandoned(j) \/ RedeliverStalled(j) \/ RowAges(j)
  BY <1>2 DEF Backoff, RedeliverAbandoned, RedeliverStalled, TakeAway, RowAges
<1>3. CASE \E c \in Cleaner : CleanerStep(c) \/ CleanerCrashes(c)
  BY <1>3 DEF CleanerStep, CleanupBegins, FindStaleProcessing, FindStaleLocks, HandleSome,
     HandleStaleJob, HandleError, TakeFound, CleanupEnds, CleanerCrashes
<1>4. CASE CleanupLockExpires \/ UNCHANGED vars
  BY <1>4 DEF CleanupLockExpires, vars
<1> QED
  BY <1>1, <1>2, <1>3, <1>4

\* Steps of a worker that holds the lock before and after.
Inside == {"transition", "run", "progress", "complete", "fail", "release"}

InsideStep(w) ==
  /\ wpc[w] \in Inside /\ UNCHANGED <<lock, wjob>>
  /\ \E step \in Inside : wpc' = [wpc EXCEPT ![w] = step]

LEMMA StepsInside ==
  ASSUME NEW w \in Worker,
         \/ StartProcessing(w) \/ StartRefused(w) \/ StartError(w)
         \/ ProcessBatch(w) \/ UpdateJobProgress(w) \/ ProcessingFails(w) \/ ProcessingEnds(w)
         \/ FinalizeCompleted(w) \/ FinalizeError(w) \/ FinalizeFailed(w)
  PROVE  InsideStep(w)
BY DEF InsideStep, Inside, StartProcessing, StartRefused, StartError, ProcessBatch,
   UpdateJobProgress, ProcessingFails, ProcessingEnds, FinalizeCompleted, FinalizeError,
   FinalizeFailed, AtStep, GoTo

\* A key gets a worker's token when the worker enters, and loses it when it leaves.
LEMMA TokenInvStep == ASSUME BaseInv, TokenInv, [Next]_vars PROVE TokenInv'
<1> USE NamesAssumption DEF TokenInv, Holding
<1>0. TypeOK /\ WorkerInv
  BY DEF BaseInv, Typed
<1>1. ASSUME NEW w \in Worker, NEW j \in Request, Deliver(w, j) PROVE TokenInv'
  BY <1>0, <1>1 DEF Deliver, TypeOK
<1>2. ASSUME NEW w \in Worker, AcquireLock(w) PROVE TokenInv'
  BY <1>0, <1>2 DEF AcquireLock, AtStep, GoTo, LockIsFree, TypeOK
<1>3. ASSUME NEW w \in Worker, AcquireRefused(w) PROVE TokenInv'
  BY <1>0, <1>3 DEF AcquireRefused, AtStep, GoTo, TypeOK
<1>4. ASSUME NEW w \in Worker, InsideStep(w) PROVE TokenInv'
  BY <1>0, <1>4 DEF InsideStep, Inside, TypeOK
<1>5. ASSUME NEW w \in Worker, ReleaseLock(w) PROVE TokenInv'
  BY SMTT(30), <1>0, <1>5 DEF ReleaseLock, AtStep, GoTo, TypeOK, WorkerInv
<1>6. ASSUME NEW w \in Worker, Settle(w) PROVE TokenInv'
  BY <1>0, <1>6 DEF Settle, TypeOK
<1>7. ASSUME NEW w \in Worker, WorkerCrashes(w) PROVE TokenInv'
  BY <1>0, <1>7 DEF WorkerCrashes, GoTo, TypeOK, WorkerInv
<1>8. ASSUME NEW j \in Request, LockExpires(j) \/ LockLapses(j) PROVE TokenInv'
  BY <1>0, <1>8 DEF LockExpires, LockLapses, workerVars, TypeOK
<1>9. ASSUME Aside PROVE TokenInv'
  BY <1>9 DEF Aside
<1> QED
  BY <1>1, <1>2, <1>3, <1>4, <1>5, <1>6, <1>7, <1>8, <1>9, StepsInside, StepsAside
  DEF Next, WorkerStep, QueueStep

\* Every step is one of the lock service at the key of a job, or does nothing there.
LEMMA LockStep ==
  ASSUME BaseInv, TokenInv, [Next]_vars, NEW j \in Request
  PROVE  [Lock(j)!Next]_(Lock(j)!vars)
<1> USE NamesAssumption DEF Holding, Lock!vars
<1>0. TypeOK /\ WorkerInv
  BY DEF BaseInv, Typed
<1> DEFINE Held == {w \in Worker : Holding(w, j)}
<1>1. ASSUME NEW w \in Worker, NEW k \in Request, Deliver(w, k)
      PROVE  [Lock(j)!Next]_(Lock(j)!vars)
  <2>1. Held' = Held
    BY <1>0, <1>1 DEF Deliver, TypeOK
  <2> QED
    BY <1>1, <2>1 DEF Deliver
<1>2. ASSUME NEW w \in Worker, AcquireLock(w)
      PROVE  [Lock(j)!Next]_(Lock(j)!vars)
  <2>1. CASE wjob[w] = j
    <3>1. Held' = Held \cup {w} /\ w \notin Held
      BY <1>0, <1>2, <2>1 DEF AcquireLock, AtStep, GoTo, TypeOK
    <3>2. Lock(j)!Acquire(w)
      BY <1>0, <1>2, <2>1, <3>1 DEF AcquireLock, LockIsFree, TypeOK, Lock!Acquire
    <3> QED
      BY <3>2 DEF Lock!Next
  <2>2. CASE wjob[w] # j
    <3>1. Held' = Held
      BY <1>0, <1>2, <2>2 DEF AcquireLock, AtStep, GoTo, TypeOK
    <3> QED
      BY <1>0, <1>2, <2>2, <3>1 DEF AcquireLock, TypeOK
  <2> QED
    BY <2>1, <2>2
<1>3. ASSUME NEW w \in Worker, AcquireRefused(w)
      PROVE  [Lock(j)!Next]_(Lock(j)!vars)
  <2>1. Held' = Held
    BY <1>0, <1>3 DEF AcquireRefused, AtStep, GoTo, TypeOK
  <2>2. CASE lock'[j] = lock[j]
    BY <2>1, <2>2
  <2>3. CASE lock'[j] # lock[j]
    <3>1. lock[j] = NoWorker /\ lock'[j] = Orphan
      BY <1>0, <1>3, <2>3 DEF AcquireRefused, LockIsFree, TypeOK
    <3> QED
      BY <2>1, <3>1 DEF Lock!Next, Lock!Leak
  <2> QED
    BY <2>2, <2>3
<1>4. ASSUME NEW w \in Worker, InsideStep(w)
      PROVE  [Lock(j)!Next]_(Lock(j)!vars)
  <2>1. Held' = Held
    BY <1>0, <1>4 DEF InsideStep, Inside, TypeOK
  <2> QED
    BY <1>4, <2>1 DEF InsideStep
<1>5. ASSUME NEW w \in Worker, ReleaseLock(w) \/ WorkerCrashes(w)
      PROVE  [Lock(j)!Next]_(Lock(j)!vars)
  <2>1. CASE w \in Held
    <3>1. Held' = Held \ {w} /\ wjob[w] = j
      BY <1>0, <1>5, <2>1 DEF ReleaseLock, WorkerCrashes, AtStep, GoTo, TypeOK
    <3>2. lock'[j] \in IF lock[j] = w THEN {NoWorker, Orphan} ELSE {lock[j]}
      BY <1>0, <1>5, <3>1 DEF ReleaseLock, WorkerCrashes, TypeOK
    <3>3. Lock(j)!Leave({w})
      BY <3>1, <3>2 DEF Lock!Leave
    <3> QED
      BY <2>1, <3>3 DEF Lock!Next
  <2>2. CASE w \notin Held
    <3>1. Held' = Held
      BY <1>0, <1>5, <2>2 DEF ReleaseLock, WorkerCrashes, AtStep, GoTo, TypeOK, WorkerInv
    <3>2. lock'[j] = lock[j]
      BY <1>0, <1>5, <2>2 DEF ReleaseLock, WorkerCrashes, AtStep, TypeOK, WorkerInv, TokenInv
    <3> QED
      BY <3>1, <3>2
  <2> QED
    BY <2>1, <2>2
<1>6. ASSUME NEW w \in Worker, Settle(w)
      PROVE  [Lock(j)!Next]_(Lock(j)!vars)
  <2>1. Held' = Held
    BY <1>0, <1>6 DEF Settle, TypeOK
  <2> QED
    BY <1>6, <2>1 DEF Settle
<1>7. ASSUME NEW k \in Request, LockExpires(k) \/ LockLapses(k)
      PROVE  [Lock(j)!Next]_(Lock(j)!vars)
  <2>1. Held' = Held
    BY <1>7 DEF LockExpires, LockLapses, workerVars
  <2>2. CASE lock'[j] = lock[j]
    BY <2>1, <2>2
  <2>3. CASE LockExpires(k) /\ lock'[j] # lock[j]
    <3>1. lock[j] = Orphan /\ lock'[j] = NoWorker
      BY <1>0, <2>3 DEF LockExpires, TypeOK
    <3> QED
      BY <2>1, <3>1 DEF Lock!Next, Lock!Expire
  <2>4. CASE LockLapses(k) /\ lock'[j] # lock[j]
    <3>1. PICK w \in Worker : lock[j] = w
      BY <1>0, <2>4 DEF LockLapses, TypeOK
    <3>2. lock'[j] = NoWorker /\ "lapse" \in Faults
      BY <1>0, <2>4 DEF LockLapses, TypeOK
    <3>3. Lock(j)!Lapse(w)
      BY <2>1, <3>1, <3>2 DEF Lock!Lapse, Lock!MayLapse
    <3> QED
      BY <3>3 DEF Lock!Next
  <2> QED
    BY <1>7, <2>2, <2>3, <2>4
<1>8. ASSUME Aside PROVE [Lock(j)!Next]_(Lock(j)!vars)
  BY <1>8 DEF Aside
<1> QED
  BY <1>1, <1>2, <1>3, <1>4, <1>5, <1>6, <1>7, <1>8, StepsInside, StepsAside
  DEF Next, WorkerStep, QueueStep

\* The lock of every job is a lock of LockService, whatever fails and whatever the
\* cleanup restarts: no step here frees, takes or keeps a key in a way that the
\* interface, which DistributedLock implements, does not know.
THEOREM LockTheorem == Spec => LocksKept
<1>1. SUFFICES ASSUME NEW j \in Request PROVE Spec => Lock(j)!Spec
  BY DEF LocksKept
<1>2. Init => Lock(j)!Init /\ TokenInv
  BY NamesAssumption DEF Init, Lock!Init, Holding, TokenInv
<1>3. BaseInv /\ TokenInv /\ [Next]_vars => TokenInv'
  BY TokenInvStep
<1>4. BaseInv /\ TokenInv /\ [Next]_vars => [Lock(j)!Next]_(Lock(j)!vars)
  BY LockStep
<1> QED
  BY <1>2, <1>3, <1>4, BaseInvariant, PTL DEF Spec, Lock!Spec

-----------------------------------------------------------------------------
(* A PROCESSING job is on its way to an end: the steps behind ProcessingIsTemporary *)

\* Steps a delivery has left at most.
Left(w) ==
  CASE wpc[w] = "acquire"    -> 2 * Batches + 7
    [] wpc[w] = "transition" -> 2 * Batches + 6
    [] wpc[w] = "progress"   -> 2 * (Batches - done[w]) + 6
    [] wpc[w] = "run"        -> 2 * (Batches - done[w]) + 5
    [] wpc[w] = "complete"   -> 4
    [] wpc[w] = "fail"       -> 3
    [] wpc[w] = "release"    -> 2
    [] wpc[w] = "settle"     -> 1
    [] OTHER                 -> 0

\* Every step of a worker is one of them, and no step of others is but its crash.
StepsCount ==
  [][\A w \in Worker :
       /\ WorkerStep(w) => Left(w)' < Left(w)
       /\ wpc[w] # "idle" => Left(w)' <= Left(w)]_vars

\* A PROCESSING row that no worker is busy with only gets older until it leaves the
\* status, and then it is FAILED, or PENDING if the cleanup restarts jobs.
DesertedAges ==
  [][\A j \in Request : status[j] = "PROCESSING" /\ (\A w \in Worker : ~Executing(w, j)) =>
       \/ status'[j] = "FAILED" \/ (RestartStaleJobs /\ status'[j] = "PENDING")
       \/ /\ status'[j] = "PROCESSING" /\ age[j] <= age'[j]
          /\ \A w \in Worker : ~Executing(w, j)']_vars

LEMMA LeftIsNat == ASSUME TypeOK, NEW w \in Worker PROVE Left(w) \in Nat
BY BoundsAssumption DEF TypeOK, Left

\* A step of a worker takes its delivery nearer to the end and leaves others alone.
LEMMA LeftStep ==
  ASSUME Typed, Typed', [Next]_vars, NEW w \in Worker
  PROVE  /\ WorkerStep(w) => Left(w)' < Left(w)
         /\ wpc[w] # "idle" => Left(w)' <= Left(w)
<1> USE BoundsAssumption, NamesAssumption DEF Typed, TypeOK
<1>1. WorkerStep(w) => Left(w)' < Left(w)
  <2>1. ASSUME AcquireLock(w) \/ AcquireRefused(w) PROVE Left(w)' < Left(w)
    BY <2>1 DEF AcquireLock, AcquireRefused, AtStep, GoTo, Left
  <2>2. ASSUME StartProcessing(w) \/ StartRefused(w) \/ StartError(w) PROVE Left(w)' < Left(w)
    <3>1. done[w] = 0 /\ wpc[w] = "transition" /\ done'[w] = done[w]
          /\ wpc'[w] \in {"run", "release"}
      BY <2>2 DEF StartProcessing, StartRefused, StartError, AtStep, GoTo, WorkerInv
    <3> QED
      BY <3>1 DEF Left
  <2>3. ASSUME ProcessBatch(w) PROVE Left(w)' < Left(w)
    <3>1. wpc[w] = "run" /\ wpc'[w] \in {"run", "progress"} /\ done'[w] = done[w] + 1
      BY <2>3 DEF ProcessBatch, AtStep, GoTo
    <3> QED
      BY <3>1 DEF Left
  <2>4. ASSUME UpdateJobProgress(w) PROVE Left(w)' < Left(w)
    <3>1. wpc[w] = "progress" /\ wpc'[w] = "run" /\ done'[w] = done[w]
      BY <2>4 DEF UpdateJobProgress, AtStep, GoTo
    <3> QED
      BY <3>1 DEF Left
  <2>5. ASSUME ProcessingFails(w) \/ ProcessingEnds(w) PROVE Left(w)' < Left(w)
    <3>1. wpc[w] \in {"run", "progress"} /\ wpc'[w] \in {"complete", "fail"}
      BY <2>5 DEF ProcessingFails, ProcessingEnds, AtStep, GoTo
    <3> QED
      BY <3>1 DEF Left
  <2>6. ASSUME FinalizeCompleted(w) \/ FinalizeError(w) \/ FinalizeFailed(w)
        PROVE  Left(w)' < Left(w)
    BY <2>6 DEF FinalizeCompleted, FinalizeError, FinalizeFailed, AtStep, GoTo, Left
  <2>7. ASSUME ReleaseLock(w) \/ Settle(w) PROVE Left(w)' < Left(w)
    BY <2>7 DEF ReleaseLock, Settle, AtStep, GoTo, Left
  <2> QED
    BY <2>1, <2>2, <2>3, <2>4, <2>5, <2>6, <2>7 DEF WorkerStep
<1>2. ASSUME wpc[w] # "idle", ~WorkerStep(w) PROVE Left(w)' <= Left(w)
  <2>1. Left(w) \in Nat
    BY LeftIsNat
  <2>2. CASE UNCHANGED <<wpc[w], done[w]>>
    BY <2>1, <2>2 DEF Left
  <2>3. CASE WorkerCrashes(w)
    <3>1. wpc'[w] = "idle"
      BY <2>3 DEF WorkerCrashes, GoTo
    <3> QED
      BY <2>1, <3>1 DEF Left
  <2>4. ASSUME NEW v \in Worker \ {w}, WorkerStep(v) \/ WorkerCrashes(v)
        PROVE  UNCHANGED <<wpc[w], done[w]>>
    BY <2>4 DEF WorkerStep, AcquireLock, AcquireRefused, StartProcessing, StartRefused, StartError,
       ProcessBatch, UpdateJobProgress, ProcessingFails, ProcessingEnds, FinalizeCompleted,
       FinalizeError, FinalizeFailed, ReleaseLock, Settle, WorkerCrashes, GoTo
  <2>5. ASSUME NEW v \in Worker, NEW j \in Request, Deliver(v, j)
        PROVE  UNCHANGED <<wpc[w], done[w]>>
    BY <1>2, <2>5 DEF Deliver
  <2>6. ASSUME NEW r \in Request, RequestStep(r) PROVE UNCHANGED <<wpc[w], done[w]>>
    BY <2>6 DEF RequestStep, FindByIdempotencyKey, CreateRow, CreateConflict, UploadFile,
       SaveFileUrl, Enqueue, RequestFails, workerVars
  <2>7. ASSUME NEW j \in Request, Backoff(j) \/ RedeliverAbandoned(j) \/ RedeliverStalled(j)
               \/ LockExpires(j) \/ LockLapses(j) \/ RowAges(j)
        PROVE  UNCHANGED <<wpc[w], done[w]>>
    BY <2>7 DEF Backoff, RedeliverAbandoned, RedeliverStalled, TakeAway, LockExpires, LockLapses,
       RowAges, workerVars
  <2>8. ASSUME NEW c \in Cleaner, CleanerStep(c) \/ CleanerCrashes(c)
        PROVE  UNCHANGED <<wpc[w], done[w]>>
    BY <2>8 DEF CleanerStep, CleanupBegins, FindStaleProcessing, FindStaleLocks, HandleSome,
       HandleStaleJob, HandleError, TakeFound, CleanupEnds, CleanerCrashes, workerVars
  <2>9. ASSUME CleanupLockExpires \/ UNCHANGED vars PROVE UNCHANGED <<wpc[w], done[w]>>
    BY <2>9 DEF CleanupLockExpires, vars, workerVars
  <2> QED
    BY <1>2, <2>2, <2>3, <2>4, <2>5, <2>6, <2>7, <2>8, <2>9 DEF Next, QueueStep
<1>3. Left(w) \in Nat /\ Left(w)' \in Nat
  BY DEF Left
<1> QED
  BY <1>1, <1>2, <1>3

\* A delivery ends after at most 2 * Batches + 7 steps of its worker, whatever the other
\* parts do: no failed step, progress update or lost COMMIT makes it start over.
THEOREM StepsTheorem ==
  Spec => [](\A w \in Worker : Left(w) \in 0..(2 * Batches + 7)) /\ StepsCount
<1>1. BaseInv => \A w \in Worker : Left(w) \in 0..(2 * Batches + 7)
  BY BoundsAssumption DEF BaseInv, Typed, TypeOK, Left
<1>2. BaseInv /\ BaseInv' /\ [Next]_vars
        => [\A w \in Worker :
              /\ WorkerStep(w) => Left(w)' < Left(w)
              /\ wpc[w] # "idle" => Left(w)' <= Left(w)]_vars
  BY LeftStep DEF BaseInv
<1> QED
  BY <1>1, <1>2, BaseInvariant, PTL DEF Spec, StepsCount

LEMMA DesertedStep ==
  ASSUME BaseInv, [Next]_vars, NEW j \in Request, status[j] = "PROCESSING", Deserted(j)
  PROVE  \/ status'[j] = "FAILED" \/ (RestartStaleJobs /\ status'[j] = "PENDING")
         \/ status'[j] = "PROCESSING" /\ age[j] <= age'[j] /\ Deserted(j)'
<1> USE NamesAssumption
    DEF Deserted, Executing, apiVars, rowVars, queueVars, workerVars, cleanVars
<1>0. TypeOK /\ WorkerInv /\ RequestInv
  BY DEF BaseInv, Typed
<1> DEFINE Stays == status'[j] = "PROCESSING" /\ age[j] <= age'[j] /\ Deserted(j)'
           Goal == \/ status'[j] = "FAILED" \/ (RestartStaleJobs /\ status'[j] = "PENDING")
                   \/ Stays
<1>1. ASSUME NEW r \in Request, RequestStep(r) PROVE Goal
  BY <1>0, <1>1 DEF RequestStep, FindByIdempotencyKey, CreateRow, CreateConflict, UploadFile,
     SaveFileUrl, Enqueue, RequestFails, TypeOK, RequestInv
<1>2. ASSUME NEW w \in Worker, NEW k \in Request, Deliver(w, k) PROVE Goal
  BY <1>0, <1>2 DEF Deliver, TypeOK
<1>3. ASSUME NEW w \in Worker, AcquireLock(w) \/ AcquireRefused(w) \/ ReleaseLock(w) \/ Settle(w)
             \/ WorkerCrashes(w)
      PROVE  Goal
  BY <1>0, <1>3 DEF AcquireLock, AcquireRefused, ReleaseLock, Settle, WorkerCrashes, AtStep, GoTo,
     TypeOK
<1>4. ASSUME NEW w \in Worker, StartProcessing(w) \/ StartRefused(w) \/ StartError(w) PROVE Goal
  <2>1. wjob[w] \in Request /\ UNCHANGED wjob
    BY <1>0, <1>4 DEF StartProcessing, StartRefused, StartError, AtStep, TypeOK, WorkerInv
  <2>2. CASE wjob[w] = j
    <3>1. UNCHANGED rowVars /\ wpc'[w] = "release" /\ \A v \in Worker \ {w} : wpc'[v] = wpc[v]
      BY <1>0, <1>4, <2>2 DEF StartProcessing, StartRefused, StartError, AtStep, GoTo, MayStart, TypeOK
    <3> QED
      BY <1>0, <2>1, <3>1 DEF TypeOK
  <2>3. CASE wjob[w] # j
    <3>1. status'[j] = status[j] /\ age'[j] = age[j]
      BY <1>0, <1>4, <2>3 DEF StartProcessing, StartRefused, StartError, MarkProcessing, TypeOK
    <3>2. \A v \in Worker \ {w} : wpc'[v] = wpc[v]
      BY <1>0, <1>4 DEF StartProcessing, StartRefused, StartError, GoTo, TypeOK
    <3> QED
      BY <1>0, <2>1, <2>3, <3>1, <3>2 DEF TypeOK
  <2> QED
    BY <2>2, <2>3
<1>5. ASSUME NEW w \in Worker,
             \/ ProcessBatch(w) \/ UpdateJobProgress(w) \/ ProcessingFails(w) \/ ProcessingEnds(w)
             \/ FinalizeCompleted(w) \/ FinalizeError(w) \/ FinalizeFailed(w)
      PROVE  Goal
  <2>1. wjob[w] # j /\ UNCHANGED wjob
    BY <1>5 DEF ProcessBatch, UpdateJobProgress, ProcessingFails, ProcessingEnds,
       FinalizeCompleted, FinalizeError, FinalizeFailed, AtStep
  <2>2. status'[j] = status[j] /\ age'[j] = age[j]
    BY <1>0, <1>5, <2>1 DEF ProcessBatch, UpdateJobProgress, ProcessingFails, ProcessingEnds,
       FinalizeCompleted, FinalizeError, FinalizeFailed, WriteCompleted, LeaveProcessing, TypeOK
  <2>3. \A v \in Worker \ {w} : wpc'[v] = wpc[v]
    BY <1>0, <1>5 DEF ProcessBatch, UpdateJobProgress, ProcessingFails, ProcessingEnds,
       FinalizeCompleted, FinalizeError, FinalizeFailed, GoTo, TypeOK
  <2> QED
    BY <1>0, <2>1, <2>2, <2>3 DEF TypeOK
<1>6. ASSUME NEW k \in Request, Backoff(k) \/ RedeliverAbandoned(k) \/ RedeliverStalled(k)
             \/ LockExpires(k) \/ LockLapses(k)
      PROVE  Goal
  BY <1>0, <1>6 DEF Backoff, RedeliverAbandoned, RedeliverStalled, TakeAway, LockExpires,
     LockLapses, TypeOK
<1>7. ASSUME NEW k \in Request, RowAges(k) PROVE Goal
  BY <1>0, <1>7 DEF RowAges, TypeOK
<1>8. ASSUME NEW c \in Cleaner, NEW k \in Request, HandleStaleJob(c, k) PROVE Goal
  <2>1. PICK s \in JobStatus :
          TakeFound(c, k, s) /\ LeaveProcessing(k, IF ResetsToPending(s) THEN "PENDING" ELSE "FAILED")
    BY <1>8 DEF HandleStaleJob
  <2>2. CASE k = j
    BY <1>0, <2>1, <2>2 DEF LeaveProcessing, ResetsToPending, TypeOK
  <2>3. CASE k # j
    BY SMTT(30), <1>0, <2>1, <2>3 DEF TakeFound, LeaveProcessing, TypeOK
  <2> QED
    BY <2>2, <2>3
<1>9. ASSUME NEW c \in Cleaner,
             \/ CleanupBegins(c) \/ FindStaleProcessing(c) \/ FindStaleLocks(c) \/ CleanupEnds(c)
             \/ CleanerCrashes(c) \/ \E k \in Request : HandleError(c, k)
      PROVE  Goal
  <2>1. UNCHANGED <<status, age, wpc, wjob>>
    <3>1. CASE CleanupBegins(c)
      BY <3>1 DEF CleanupBegins
    <3>2. CASE FindStaleProcessing(c) \/ FindStaleLocks(c)
      BY <3>2 DEF FindStaleProcessing, FindStaleLocks
    <3>3. CASE CleanupEnds(c) \/ CleanerCrashes(c)
      BY <3>3 DEF CleanupEnds, CleanerCrashes
    <3>4. CASE \E k \in Request : HandleError(c, k)
      BY <3>4 DEF HandleError, TakeFound
    <3> QED
      BY <1>9, <3>1, <3>2, <3>3, <3>4
  <2> QED
    BY <1>0, <2>1 DEF TypeOK
<1>10. CASE CleanupLockExpires \/ UNCHANGED vars
  BY <1>0, <1>10 DEF CleanupLockExpires, vars, TypeOK
<1> QED
  BY <1>1, <1>2, <1>3, <1>4, <1>5, <1>6, <1>7, <1>8, <1>9, <1>10
  DEF Next, WorkerStep, QueueStep, CleanerStep, HandleSome

\* Nothing takes up a PROCESSING job that its worker has left or holds the clock of the
\* cleanup back: repeated deliveries and late progress updates do not delay its end.
THEOREM DesertedTheorem == Spec => DesertedAges
<1>1. BaseInv /\ [Next]_vars
        => [\A j \in Request : status[j] = "PROCESSING" /\ (\A w \in Worker : ~Executing(w, j)) =>
              \/ status'[j] = "FAILED" \/ (RestartStaleJobs /\ status'[j] = "PENDING")
              \/ /\ status'[j] = "PROCESSING" /\ age[j] <= age'[j]
                 /\ \A w \in Worker : ~Executing(w, j)']_vars
  BY DesertedStep DEF Deserted
<1> QED
  BY <1>1, BaseInvariant, PTL DEF Spec, DesertedAges
=============================================================================
