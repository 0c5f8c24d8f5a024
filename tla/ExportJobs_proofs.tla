------------------------- MODULE ExportJobs_proofs -------------------------
(***************************************************************************)
(* Proofs about ExportJobs for any workers, rows, creation times, page     *)
(* size, deliveries and faults.                                            *)
(***************************************************************************)
EXTENDS ExportJobsRefinement, FiniteSetTheorems, SequenceTheorems, TLAPS

USE DEF tableVars

Counting(w) == pc[w] \in {"count", "save"}
Streaming(w) == pc[w] \in {"stream", "complete"}
Writing(w) == Counting(w) \/ Streaming(w)

-----------------------------------------------------------------------------
(* The parts of the inductive invariant *)

\* Entities that will be saved have lock columns that go with their status.
EntityInv ==
  /\ \A w \in Worker : Counting(w) => entity[w].status = "PROCESSING" /\ entity[w].by # NoWorker
  /\ polled # NoRead => polled.status = "COMPLETED" /\ polled.by = NoWorker

\* Before its request nobody knows of the job.
RequestInv ==
  queued = "before" =>
    /\ job.status = "none" /\ polled = NoRead /\ found = NoRead
    /\ \A w \in Worker : ~Executing(w)

\* A job that was never started has no traces of a run.
FreshInv ==
  job.status \in {"none", "PENDING"} =>
    /\ job.lines = <<>> /\ polled = NoRead /\ found = NoRead /\ left = NotCounted
    /\ \A w \in Worker : ~Executing(w) /\ base[w] = {}

\* While a file is written the job has none, and a client that read a finished job has
\* read the file it still has.
FileInv ==
  /\ \A w \in Worker : Writing(w) =>
       job.lines = <<>> /\ polled = NoRead /\ job.status # "COMPLETED"
  /\ \A w \in Worker : Counting(w) => entity[w].lines = <<>>
  /\ polled # NoRead => polled.lines = job.lines /\ polled.total = job.total

\* What was counted, and by whom; as many counted rows have gone as have left at most.
CountInv ==
  \A w \in Worker :
    /\ Executing(w) \/ base[w] # {} => \A v \in Worker \ {w} : base[v] = {}
    /\ pc[w] = "count" => base[w] = {} /\ left = NotCounted
    /\ Counting(w) => file[w] = <<>>
    /\ pc[w] = "save" \/ Streaming(w) =>
         /\ left \in Nat /\ Cardinality(base[w] \ selected) <= left
         /\ entity[w].total = Cardinality(base[w])
    /\ Streaming(w) => job.total = entity[w].total

\* The place of a row in the order of creation.
RankIn(time, r, S) == Cardinality({x \in S : time[x] <= time[r]})
Rank(r, S) == RankIn(created, r, S)

In(r, s) == \E n \in DOMAIN s : s[n] = r

\* Rows that may still be written: they stand behind the end of the file.
Ahead(w, r) == r \in selected /\ Rank(r, selected) > Len(file[w])

\* Counted rows that no file has and no page will have, and those no file has.
Missed(w) == {r \in base[w] : ~In(r, file[w]) /\ ~Ahead(w, r)}
Lost(w) == {r \in base[w] : ~In(r, file[w])}

\* Two rows may have had the same time only if the history says so.
TiedInv == ~tied => Untied

\* Wherever rows come, none is missed for it, and a row that leaves costs one at most.
CoverInv ==
  \A w \in Worker :
    /\ pc[w] \in {"save", "stream"} /\ ~tied => Cardinality(Missed(w)) <= left
    /\ pc[w] = "complete" => Len(file[w]) + left >= Cardinality(base[w])
    /\ pc[w] = "complete" /\ ~tied => Cardinality(Lost(w)) <= left

\* As long as what is selected is what was counted the file is a beginning of it.
PrefixInv ==
  \A w \in Worker : Streaming(w) /\ left = 0 /\ selected = base[w] =>
    /\ Len(file[w]) <= Cardinality(selected)
    /\ ~tied => \A n \in DOMAIN file[w] :
                 file[w][n] \in selected /\ Rank(file[w][n], selected) = n

\* The same of the file of a finished job.
Whole ==
  /\ Len(job.lines) + left >= job.total
  /\ ~tied => \A w \in Worker : Cardinality({r \in base[w] : ~In(r, job.lines)}) <= left

Exact ==
  left = 0 /\ Cardinality(selected) = job.total =>
    Len(job.lines) = job.total /\ (~tied => job.lines \in Orders(selected))

DoneInv == job.status = "COMPLETED" \/ polled # NoRead => left \in Nat /\ Whole /\ Exact

-----------------------------------------------------------------------------
(* Types *)

LEMMA RowsFinite == ASSUME NEW S \in SUBSET Row
                    PROVE  IsFiniteSet(S) /\ Cardinality(S) \in 0..Cardinality(Row)
  BY RowsAssumption, FS_Subset, FS_CardinalityType

\* A page is made of rows.
LEMMA PageType ==
  ASSUME TypeOK, NEW w \in Worker, NEW order \in Orders(selected)
  PROVE  /\ order \in Seq(Row) /\ Len(order) = Cardinality(selected)
         /\ Page(w, order) \in Seq(Row)
<1>1. Cardinality(selected) \in Nat
  BY RowsFinite DEF TypeOK
<1>2. order \in [1..Cardinality(selected) -> Row]
  BY DEF Orders, TypeOK
<1>3. order \in Seq(Row) /\ Len(order) = Cardinality(selected)
  BY <1>1, <1>2
<1>4. Len(file[w]) \in Nat
  BY DEF TypeOK
<1> DEFINE end == Offset(w) + PageSize
           last == IF end < Len(order) THEN end ELSE Len(order)
<1>5. Offset(w) + 1 \in Int /\ Offset(w) + 1 >= 1 /\ last \in Int /\ last <= Len(order)
  BY <1>1, <1>3, <1>4, BoundsAssumption DEF Offset
<1>6. \A n \in (Offset(w) + 1)..last : order[n] \in Row
  BY <1>1, <1>2, <1>3, <1>5
<1>7. SubSeq(order, Offset(w) + 1, last) \in Seq(Row)
  BY <1>5, <1>6, SubSeqProperties
<1> QED
  BY <1>3, <1>7 DEF Page

\* What leaving PROCESSING does to a row, field by field.
LEMMA ReleasedType ==
  ASSUME NEW j \in ExportJob, NEW s \in JobStatus
  PROVE  /\ Released(j, s) \in ExportJob
         /\ Released(j, s).status = s /\ Released(j, s).by = NoWorker
         /\ Released(j, s).total = j.total /\ Released(j, s).lines = j.lines
<1> DEFINE k == [j EXCEPT !.status = s]
<1>3. k = [status |-> s, by |-> j.by, total |-> j.total,
           exported |-> j.exported, lines |-> j.lines, url |-> j.url]
  BY DEF ExportJob
<1>4. Released(j, s) = [k EXCEPT !.by = NoWorker]
  BY DEF Released
<1> HIDE DEF k
<1>1. Released(j, s) = [status |-> s, by |-> NoWorker, total |-> j.total,
                        exported |-> j.exported, lines |-> j.lines, url |-> j.url]
  BY <1>3, <1>4
<1>2. j.total \in 0..Cardinality(Row) /\ j.exported \in Nat /\ j.lines \in Seq(Row)
      /\ j.url \in {"none", "fresh", "old"}
  BY DEF ExportJob
<1> QED
  BY <1>1, <1>2 DEF ExportJob

LEMMA CompletedType ==
  ASSUME TypeOK, NEW w \in Worker
  PROVE  /\ Completed(w) \in ExportJob
         /\ Completed(w).status = "COMPLETED" /\ Completed(w).by = NoWorker
         /\ Completed(w).total = job.total /\ Completed(w).lines = file[w]
<1> DEFINE j == Released(job, "COMPLETED")
<1>1. j \in ExportJob /\ j.status = "COMPLETED" /\ j.by = NoWorker /\ j.total = job.total
  BY ReleasedType DEF TypeOK, JobStatus, Terminal
<1> HIDE DEF j
<1>2. Completed(w) = [j EXCEPT !.exported = entity[w].total, !.lines = file[w], !.url = "fresh"]
  BY DEF Completed, j
<1>3. Completed(w) = [status |-> j.status, by |-> j.by, total |-> j.total,
                      exported |-> entity[w].total, lines |-> file[w], url |-> "fresh"]
  BY <1>1, <1>2 DEF ExportJob
<1>4. entity[w].total \in Nat /\ file[w] \in Seq(Row)
  <2>1. entity[w].total \in 0..Cardinality(Row)
    BY DEF TypeOK, ExportJob
  <2>2. Cardinality(Row) \in Nat
    BY RowsFinite
  <2> QED
    BY <2>1, <2>2 DEF TypeOK
<1> QED
  BY <1>1, <1>3, <1>4 DEF ExportJob

LEMMA TypeStep == ASSUME TypeOK, [Next]_vars PROVE TypeOK'
<1> USE NamesAssumption, BoundsAssumption
    DEF TypeOK, ExportJob, JobStatus, Terminal, GoTo, runVars
<1>1. ASSUME CreateExport PROVE TypeOK'
  <2>1. job' \in ExportJob
    BY <1>1 DEF CreateExport
  <2>2. queued' = "created" /\ UNCHANGED <<tableVars, deliveries, lock, pc, runVars, aged, late, polled, found>>
    BY <1>1 DEF CreateExport
  <2> QED
    BY <2>1, <2>2
<1>2. ASSUME Enqueue PROVE TypeOK'
  BY <1>2 DEF Enqueue
<1>3. ASSUME TableChanges PROVE TypeOK'
  <2>1. UNCHANGED <<job, queued, deliveries, lock, pc, runVars, aged, late, polled, found>>
    BY <1>3 DEF TableChanges, Enter, Leave, Edit
  <2>2. created' \in [Row -> Nat] /\ selected' \in SUBSET Row /\ tied' \in BOOLEAN
    <3>1. PICK r \in Row : Leave(r) \/ \E t \in Times : Enter(r, t)
      BY <1>3 DEF TableChanges
    <3>2. CASE Leave(r)
      BY <3>2 DEF Leave
    <3>3. ASSUME NEW t \in Times, Enter(r, t)
          PROVE  created' \in [Row -> Nat] /\ selected' \in SUBSET Row /\ tied' \in BOOLEAN
      <4>1. t \in Nat /\ created' = [created EXCEPT ![r] = t] /\ selected' = selected \cup {r}
        BY <3>3, RowsAssumption DEF Enter
      <4>2. tied' \in BOOLEAN
        BY <3>3 DEF Enter
      <4> QED
        BY <4>1, <4>2
    <3> QED
      BY <3>1, <3>2, <3>3
  <2>3. left' \in {NotCounted} \cup 0..MaxLeaves
    BY <1>3 DEF TableChanges, Enter, Leave, NotCounted
  <2> QED
    BY <2>1, <2>2, <2>3
<1>4. ASSUME NEW w \in Worker, Deliver(w) PROVE TypeOK'
  BY <1>4 DEF Deliver
<1>5. ASSUME NEW w \in Worker, AcquireLock(w) PROVE TypeOK'
  BY <1>5 DEF AcquireLock
<1>6. ASSUME NEW w \in Worker, AcquireRefused(w) PROVE TypeOK'
  BY <1>6 DEF AcquireRefused
<1>7. ASSUME NEW w \in Worker, StartProcessing(w) PROVE TypeOK'
  <2>1. Started(w) \in ExportJob
    BY DEF Started
  <2>2. file' \in [Worker -> Seq(Row)]
    BY <1>7 DEF StartProcessing
  <2> QED
    BY <1>7, <2>1, <2>2 DEF StartProcessing
<1>8. ASSUME NEW w \in Worker, StartRefused(w) PROVE TypeOK'
  <2>1. Started(w) \in ExportJob
    BY DEF Started
  <2>2. job' \in ExportJob /\ aged' \in [Worker -> 0..2]
    BY <1>8, <2>1 DEF StartRefused
  <2>3. pc' = [pc EXCEPT ![w] = "release"]
    BY <1>8 DEF StartRefused
  <2>4. UNCHANGED <<tableVars, queued, deliveries, lock, entity, base, file, late, polled, found>>
    BY <1>8 DEF StartRefused
  <2> QED
    BY <2>2, <2>3, <2>4
<1>9. ASSUME NEW w \in Worker, CountRecords(w) PROVE TypeOK'
  <2>1. Cardinality(selected) \in 0..Cardinality(Row)
    BY RowsFinite
  <2>2. [entity[w] EXCEPT !.total = Cardinality(selected)] \in ExportJob
    BY <2>1
  <2>3. entity' \in [Worker -> ExportJob]
    BY <1>9, <2>2 DEF CountRecords
  <2>4. base' \in [Worker -> SUBSET Row]
    BY <1>9 DEF CountRecords
  <2>5. pc' = [pc EXCEPT ![w] = "save"]
    BY <1>9 DEF CountRecords
  <2>6. UNCHANGED <<created, selected, job, queued, deliveries, lock, file, aged, late, polled, found>>
        /\ left' \in 0..MaxLeaves /\ tied' \in BOOLEAN
    BY <1>9 DEF CountRecords, Untied
  <2> QED
    BY <2>3, <2>4, <2>5, <2>6
<1>10. ASSUME NEW w \in Worker, SaveTotal(w) PROVE TypeOK'
  BY <1>10 DEF SaveTotal
<1>11. ASSUME NEW w \in Worker, FetchPage(w) PROVE TypeOK'
  <2>1. PICK order \in Orders(selected) :
          /\ file' = [file EXCEPT ![w] = @ \o Page(w, order)]
          /\ pc' = [pc EXCEPT ![w] =
               IF Len(Page(w, order)) < PageSize THEN "complete" ELSE "stream"]
    BY <1>11 DEF FetchPage
  <2>2. Page(w, order) \in Seq(Row)
    BY PageType
  <2>3. file[w] \o Page(w, order) \in Seq(Row)
    BY <2>2, ConcatProperties
  <2>4. file' \in [Worker -> Seq(Row)]
    BY <2>1, <2>3
  <2> QED
    BY <1>11, <2>1, <2>4 DEF FetchPage
<1>12. ASSUME NEW w \in Worker, ExportFails(w) PROVE TypeOK'
  BY <1>12 DEF ExportFails
<1>13. ASSUME NEW w \in Worker PROVE Completed(w) \in ExportJob
  BY <1>13, CompletedType
<1>14. ASSUME NEW w \in Worker, FinalizeCompleted(w) PROVE TypeOK'
  <2>1. job' \in ExportJob
    BY <1>13, <1>14 DEF FinalizeCompleted
  <2> QED
    BY <1>14, <2>1 DEF FinalizeCompleted
<1>15. ASSUME NEW w \in Worker, FinalizeError(w) PROVE TypeOK'
  <2>1. job' \in ExportJob
    BY <1>13, <1>15 DEF FinalizeError
  <2> QED
    BY <1>15, <2>1 DEF FinalizeError
<1>16. ASSUME NEW w \in Worker, FinalizeFailed(w) PROVE TypeOK'
  <2>1. job' \in ExportJob
    BY <1>16, ReleasedType DEF FinalizeFailed
  <2> QED
    BY <1>16, <2>1 DEF FinalizeFailed
<1>17. ASSUME NEW w \in Worker, ReleaseLock(w) PROVE TypeOK'
  BY <1>17 DEF ReleaseLock
<1>18. ASSUME NEW w \in Worker, SendProgress(w) PROVE TypeOK'
  <2>1. Len(file[w]) \in Nat
    OBVIOUS
  <2>2. late' \in SUBSET Nat
    BY <1>18, <2>1 DEF SendProgress
  <2> QED
    BY <1>18, <2>2 DEF SendProgress
<1>19. ASSUME NEW n \in late, ProgressArrives(n) PROVE TypeOK'
  <2>1. n \in Nat /\ late' \in SUBSET Nat
    BY <1>19 DEF ProgressArrives
  <2>2. job' \in ExportJob
    BY <1>19, <2>1 DEF ProgressArrives
  <2>3. UNCHANGED <<tableVars, queued, deliveries, lock, pc, runVars, aged, polled, found>>
    BY <1>19 DEF ProgressArrives
  <2> QED
    BY SMTT(30), <2>1, <2>2, <2>3
<1>20. ASSUME NEW w \in Worker, WorkerCrashes(w) PROVE TypeOK'
  BY <1>20 DEF WorkerCrashes
<1>21. ASSUME NEW w \in Worker, RunAges(w) PROVE TypeOK'
  <2>1. aged[w] \in 0..2 /\ aged[w] < 2
    BY <1>21 DEF RunAges
  <2>2. aged[w] + 1 \in 0..2
    BY <2>1
  <2>3. aged' = [aged EXCEPT ![w] = aged[w] + 1]
    BY <1>21 DEF RunAges
  <2>4. aged' \in [Worker -> 0..2]
    BY <2>2, <2>3
  <2> QED
    BY <1>21, <2>4 DEF RunAges
<1>22. ASSUME LockExpires PROVE TypeOK'
  BY <1>22 DEF LockExpires
<1>23. ASSUME PollReads PROVE TypeOK'
  BY <1>23 DEF PollReads
<1>24. ASSUME PollSaves PROVE TypeOK'
  <2>1. job' \in ExportJob
    BY <1>24 DEF PollSaves, Renewed
  <2> QED
    BY <1>24, <2>1 DEF PollSaves
<1>25. ASSUME LinkAges PROVE TypeOK'
  <2>1. job' \in ExportJob
    BY <1>25 DEF LinkAges
  <2>2. UNCHANGED <<tableVars, queued, deliveries, lock, pc, runVars, aged, late, polled, found>>
    BY <1>25 DEF LinkAges
  <2> QED
    BY <2>1, <2>2
<1>26. ASSUME FindStaleJob PROVE TypeOK'
  BY <1>26 DEF FindStaleJob, Stale
<1>27. ASSUME HandleStaleJob PROVE TypeOK'
  <2>1. job' \in ExportJob
    BY <1>27, ReleasedType DEF HandleStaleJob, HandledStatus
  <2> QED
    BY <1>27, <2>1 DEF HandleStaleJob
<1>28. CASE UNCHANGED vars
  BY <1>28 DEF vars
<1> QED
  BY <1>1, <1>2, <1>3, <1>4, <1>5, <1>6, <1>7, <1>8, <1>9, <1>10, <1>11, <1>12, <1>14, <1>15,
     <1>16, <1>17, <1>18, <1>19, <1>20, <1>21, <1>22, <1>23, <1>24, <1>25, <1>26, <1>27, <1>28
     DEF Next, WorkerStep, CleanupStep

LEMMA TypeInit == Init => TypeOK
<1>1. Cardinality(Row) \in Nat /\ <<>> \in Seq(Row)
  BY RowsFinite
<1>2. NoJob \in ExportJob
  BY <1>1 DEF NoJob, ExportJob
<1> QED
  BY <1>1, <1>2, RowsAssumption, BoundsAssumption, NamesAssumption DEF Init, TypeOK, Untied

THEOREM TypeCorrect == Spec => []TypeOK
<1>1. TypeOK /\ UNCHANGED vars => TypeOK'
  BY TypeStep
<1> QED
  BY TypeInit, TypeStep, PTL DEF Spec

-----------------------------------------------------------------------------
(* What the steps do, as far as the invariants can tell *)

SameRow == job'.status = job.status /\ job'.by = job.by /\ job'.total = job.total /\ job'.lines = job.lines

\* Nobody begins or goes on with an execution.
NobodyStarts ==
  \A w \in Worker : pc'[w] # pc[w] =>
    /\ pc'[w] \notin {"count", "save", "stream", "complete"}
    /\ pc'[w] = "fail" => Executing(w)

Quiet ==
  /\ SameRow /\ UNCHANGED <<tableVars, runVars, polled>>
  /\ found' = found \/ found' = NoRead
  /\ queued' = "before" => queued = "before"
  /\ NobodyStarts

\* The row becomes FAILED, or PENDING again.
GivesUp ==
  /\ job.status = "PROCESSING" \/ found # NoRead
  /\ job'.status = "FAILED" \/ (RestartStaleJobs /\ job'.status = "PENDING")
  /\ job'.by = NoWorker /\ job'.total = job.total /\ job'.lines = job.lines
  /\ UNCHANGED <<tableVars, queued, runVars, polled>>
  /\ NobodyStarts
  /\ \/ found # NoRead /\ found' = NoRead
     \/ job.status = "PROCESSING" /\ found' = found /\ \E w \in Worker : pc[w] = "fail" /\ ~Executing(w)'

Finishes(w) ==
  /\ pc[w] = "complete" /\ job.status = "PROCESSING"
  /\ job'.status = "COMPLETED" /\ job'.by = NoWorker
  /\ job'.total = job.total /\ job'.lines = file[w]
  /\ pc'[w] \notin {"count", "save", "stream", "complete"}
  /\ UNCHANGED <<tableVars, queued, runVars, polled, found>>
  /\ NobodyStarts

\* The answer of the transition is lost.
StartsUnseen(w) ==
  /\ job.status = "PENDING" /\ job' = Started(w)
  /\ UNCHANGED <<tableVars, queued, runVars, polled, found>>
  /\ NobodyStarts

Loud ==
  \/ CreateExport \/ PollReads \/ PollSaves \/ FindStaleJob \/ GivesUp
  \/ TableChanges
  \/ \E w \in Worker :
       StartProcessing(w) \/ StartsUnseen(w) \/ CountRecords(w) \/ SaveTotal(w) \/ FetchPage(w)
         \/ Finishes(w)

LEMMA StepKinds == ASSUME TypeOK, [Next]_vars PROVE Quiet \/ Loud
<1>0. pc \in [Worker -> {"idle", "acquire", "transition", "count", "save", "stream", "complete",
                         "fail", "release"}]
  BY DEF TypeOK
<1> USE <1>0 DEF Quiet, SameRow, NobodyStarts, Executing, GoTo, runVars
<1>1. ASSUME Enqueue PROVE Quiet
  BY <1>1 DEF Enqueue
<1>2. ASSUME NEW w \in Worker, Deliver(w) PROVE Quiet
  BY <1>2 DEF Deliver
<1>3. ASSUME NEW w \in Worker, AcquireLock(w) PROVE Quiet
  BY <1>3 DEF AcquireLock
<1>4. ASSUME NEW w \in Worker, AcquireRefused(w) PROVE Quiet
  BY <1>4 DEF AcquireRefused
<1>5. ASSUME NEW w \in Worker, StartRefused(w) PROVE Quiet \/ StartsUnseen(w)
  BY <1>5 DEF StartRefused, StartsUnseen, MayStart
<1>6. ASSUME NEW w \in Worker, ExportFails(w) PROVE Quiet
  BY <1>6 DEF ExportFails
<1>7. ASSUME NEW w \in Worker, FinalizeCompleted(w) PROVE Quiet \/ Finishes(w)
  BY <1>7, CompletedType DEF FinalizeCompleted, Finishes, MayFinalize
<1>8. ASSUME NEW w \in Worker, FinalizeError(w) PROVE Quiet \/ Finishes(w)
  BY <1>8, CompletedType DEF FinalizeError, Finishes, MayFinalize
<1>9. ASSUME NEW w \in Worker, FinalizeFailed(w) PROVE Quiet \/ GivesUp
  <2>1. job' = job \/ (job.status = "PROCESSING" /\ job' = Released(job, "FAILED"))
    BY <1>9 DEF FinalizeFailed, MayFinalize
  <2>2. /\ UNCHANGED <<tableVars, queued, runVars, polled, found>> /\ NobodyStarts
        /\ pc[w] = "fail" /\ ~Executing(w)'
    BY <1>9 DEF FinalizeFailed
  <2>3. CASE job' = job
    BY <2>2, <2>3
  <2>4. CASE job.status = "PROCESSING" /\ job' = Released(job, "FAILED")
    <3>1. job \in ExportJob /\ "FAILED" \in JobStatus
      BY DEF TypeOK, JobStatus, Terminal
    <3>2. job'.status = "FAILED" /\ job'.by = NoWorker /\ job'.total = job.total
          /\ job'.lines = job.lines
      BY <2>4, <3>1, ReleasedType
    <3> QED
      BY <2>2, <2>4, <3>2 DEF GivesUp
  <2> QED
    BY <2>1, <2>3, <2>4
<1>10. ASSUME NEW w \in Worker, ReleaseLock(w) PROVE Quiet
  BY <1>10 DEF ReleaseLock
<1>11. ASSUME NEW w \in Worker, SendProgress(w) PROVE Quiet
  BY <1>11 DEF SendProgress
<1>12. ASSUME NEW n \in late, ProgressArrives(n) PROVE Quiet
  BY <1>12 DEF ProgressArrives, TypeOK, ExportJob
<1>13. ASSUME NEW w \in Worker, WorkerCrashes(w) PROVE Quiet
  BY <1>13 DEF WorkerCrashes
<1>14. ASSUME NEW w \in Worker, RunAges(w) PROVE Quiet
  BY <1>14 DEF RunAges
<1>15. ASSUME LockExpires PROVE Quiet
  BY <1>15 DEF LockExpires
<1>16. ASSUME LinkAges PROVE Quiet
  BY <1>16 DEF LinkAges, TypeOK, ExportJob
<1>17. ASSUME HandleStaleJob PROVE Quiet \/ GivesUp
  <2>1. HandledStatus = "FAILED" \/ (RestartStaleJobs /\ HandledStatus = "PENDING")
    BY DEF HandledStatus
  <2>2. job' = job \/ job' = Released(job, HandledStatus)
    BY <1>17 DEF HandleStaleJob
  <2>3. UNCHANGED <<tableVars, queued, runVars, polled, pc>> /\ found' = NoRead /\ found # NoRead
    BY <1>17 DEF HandleStaleJob
  <2>4. CASE job' = job
    BY <2>3, <2>4
  <2>5. CASE job' = Released(job, HandledStatus)
    <3>1. job \in ExportJob /\ HandledStatus \in JobStatus
      BY <2>1 DEF TypeOK, JobStatus, Terminal
    <3>2. job'.status = HandledStatus /\ job'.by = NoWorker /\ job'.total = job.total
          /\ job'.lines = job.lines
      BY <2>5, <3>1, ReleasedType
    <3> QED
      BY <2>1, <2>3, <3>2 DEF GivesUp
  <2> QED
    BY <2>2, <2>4, <2>5
<1>18. CASE UNCHANGED vars
  BY <1>18 DEF vars
<1> HIDE DEF Quiet
<1> QED
  BY <1>1, <1>2, <1>3, <1>4, <1>5, <1>6, <1>7, <1>8, <1>9, <1>10, <1>11, <1>12, <1>13, <1>14,
     <1>15, <1>16, <1>17, <1>18 DEF Next, WorkerStep, CleanupStep, Loud

-----------------------------------------------------------------------------
(* The lock columns *)

LEMMA StartedRow ==
  ASSUME TypeOK, NEW w \in Worker
  PROVE  /\ Started(w).status = "PROCESSING" /\ Started(w).by = w
         /\ Started(w).total = job.total /\ Started(w).lines = job.lines
  BY DEF Started, TypeOK, ExportJob

LEMMA PolledRow ==
  ASSUME TypeOK, PollSaves
  PROVE  \/ SameRow
         \/ /\ job'.status = polled.status /\ job'.by = polled.by
            /\ job'.total = polled.total /\ job'.lines = polled.lines
  BY DEF PollSaves, Renewed, SameRow, TypeOK, ExportJob

RowInv == RequestInv /\ LockColumns /\ EntityInv

LEMMA LockStep ==
  ASSUME TypeOK, RowInv, [Next]_vars
  PROVE  RowInv'
<1>0. pc \in [Worker -> {"idle", "acquire", "transition", "count", "save", "stream", "complete",
                         "fail", "release"}]
      /\ entity \in [Worker -> ExportJob] /\ NoWorker \notin Worker
  BY NamesAssumption DEF TypeOK
<1> USE <1>0 DEF RowInv, RequestInv, LockColumns, EntityInv, Executing, Counting, GoTo, runVars
<1>1. ASSUME Quiet PROVE RowInv'
  BY <1>1 DEF Quiet, SameRow, NobodyStarts
<1>2. ASSUME CreateExport PROVE RowInv'
  <2>1. job'.status = "PENDING" /\ job'.by = job.by
    BY <1>2 DEF CreateExport, TypeOK, ExportJob
  <2> QED
    BY <1>2, <2>1 DEF CreateExport
<1>3. ASSUME PollReads PROVE RowInv'
  BY <1>3 DEF PollReads
<1>4. ASSUME PollSaves PROVE RowInv'
  BY <1>4, PolledRow DEF PollSaves, SameRow
<1>5. ASSUME FindStaleJob PROVE RowInv'
  BY <1>5 DEF FindStaleJob, Stale
<1>6. ASSUME GivesUp PROVE RowInv'
  BY <1>6 DEF GivesUp, NobodyStarts
<1>7. ASSUME TableChanges PROVE RowInv'
  BY <1>7 DEF TableChanges, Enter, Leave, Edit
<1>8. ASSUME NEW w \in Worker, StartProcessing(w) PROVE RowInv'
  BY <1>8, StartedRow DEF StartProcessing, MayStart
<1>9. ASSUME NEW w \in Worker, StartsUnseen(w) PROVE RowInv'
  BY <1>9, StartedRow DEF StartsUnseen, NobodyStarts
<1>10. ASSUME NEW w \in Worker, CountRecords(w) PROVE RowInv'
  <2>1. entity'[w].status = entity[w].status /\ entity'[w].by = entity[w].by
        /\ \A v \in Worker \ {w} : entity'[v] = entity[v]
    BY <1>10 DEF CountRecords, ExportJob
  <2> QED
    BY <1>10, <2>1 DEF CountRecords
<1>11. ASSUME NEW w \in Worker, SaveTotal(w) PROVE RowInv'
  BY <1>11 DEF SaveTotal
<1>12. ASSUME NEW w \in Worker, FetchPage(w) PROVE RowInv'
  BY <1>12 DEF FetchPage
<1>13. ASSUME NEW w \in Worker, Finishes(w) PROVE RowInv'
  BY <1>13 DEF Finishes, NobodyStarts
<1> QED
  BY <1>1, <1>2, <1>3, <1>4, <1>5, <1>6, <1>7, <1>8, <1>9, <1>10, <1>11, <1>12, <1>13, StepKinds
     DEF Loud

LEMMA LockInit == Init => RowInv
  BY NamesAssumption DEF Init, NoJob, RowInv, RequestInv, LockColumns, EntityInv, Executing,
                            Counting

\* LockColumns: whatever is saved late, and with or without restarts, the lock columns
\* of a job are set exactly while it is PROCESSING.
THEOREM LockColumnsTheorem == Spec => []LockColumns
<1> DEFINE Inv == TypeOK /\ RowInv
<1>1. Init => Inv
  BY TypeInit, LockInit
<1>2. Inv /\ [Next]_vars => Inv'
  BY TypeStep, LockStep
<1>3. Inv => LockColumns
  BY DEF RowInv
<1> QED
  BY <1>1, <1>2, <1>3, PTL DEF Spec

-----------------------------------------------------------------------------
(* One execution, and one file *)

RunInv == OneExecution /\ FreshInv /\ FileInv

LEMMA RunStep ==
  ASSUME TypeOK, RowInv, RunInv, ~RestartStaleJobs, [Next]_vars
  PROVE  RunInv'
<1>0. pc \in [Worker -> {"idle", "acquire", "transition", "count", "save", "stream", "complete",
                         "fail", "release"}]
      /\ entity \in [Worker -> ExportJob]
  BY DEF TypeOK
<1> USE <1>0 DEF RunInv, RowInv, RequestInv, OneExecution, FreshInv, FileInv, Writing, Counting, Streaming, Executing,
                 GoTo, runVars
<1>1. ASSUME Quiet PROVE RunInv'
  BY <1>1 DEF Quiet, SameRow, NobodyStarts
<1>2. ASSUME CreateExport PROVE RunInv'
  <2>1. job'.status = "PENDING" /\ job'.lines = job.lines /\ job.status = "none"
    BY <1>2 DEF CreateExport, TypeOK, ExportJob
  <2> QED
    BY <1>2, <2>1 DEF CreateExport
<1>3. ASSUME PollReads PROVE RunInv'
  BY <1>3 DEF PollReads
<1>4. ASSUME PollSaves PROVE RunInv'
  BY <1>4, PolledRow DEF PollSaves, SameRow, EntityInv
<1>5. ASSUME FindStaleJob PROVE RunInv'
  BY <1>5 DEF FindStaleJob, Stale, LockColumns
<1>6. ASSUME GivesUp PROVE RunInv'
  BY <1>6 DEF GivesUp, NobodyStarts
<1>7. ASSUME TableChanges PROVE RunInv'
  <2>1. UNCHANGED <<job, queued, pc, runVars, polled, found>>
    BY <1>7 DEF TableChanges, Enter, Leave, Edit
  <2>2. \E w \in Worker : pc[w] \in {"save", "stream"}
    BY <1>7 DEF TableChanges, Enter, Leave, Edit
  <2> QED
    BY <2>1, <2>2
<1>8. ASSUME NEW w \in Worker, StartProcessing(w) PROVE RunInv'
  BY <1>8, StartedRow DEF StartProcessing, MayStart
<1>9. ASSUME NEW w \in Worker, StartsUnseen(w) PROVE RunInv'
  BY <1>9, StartedRow DEF StartsUnseen, NobodyStarts
<1>10. ASSUME NEW w \in Worker, CountRecords(w) PROVE RunInv'
  <2>1. entity'[w].lines = entity[w].lines
        /\ \A v \in Worker \ {w} : entity'[v] = entity[v]
    BY <1>10 DEF CountRecords, ExportJob
  <2> QED
    BY <1>10, <2>1 DEF CountRecords
<1>11. ASSUME NEW w \in Worker, SaveTotal(w) PROVE RunInv'
  BY <1>11 DEF SaveTotal, EntityInv
<1>12. ASSUME NEW w \in Worker, FetchPage(w) PROVE RunInv'
  BY <1>12 DEF FetchPage
<1>13. ASSUME NEW w \in Worker, Finishes(w) PROVE RunInv'
  BY <1>13 DEF Finishes, NobodyStarts
<1> QED
  BY <1>1, <1>2, <1>3, <1>4, <1>5, <1>6, <1>7, <1>8, <1>9, <1>10, <1>11, <1>12, <1>13, StepKinds
     DEF Loud

LEMMA RunInit == Init => RunInv
  BY DEF Init, NoJob, RunInv, OneExecution, FreshInv, FileInv, Writing, Counting, Streaming,
         Executing

Protocol == TypeOK /\ RowInv /\ RunInv

LEMMA ProtocolHolds == ASSUME ~RestartStaleJobs PROVE Spec => []Protocol
<1>1. Init => Protocol
  BY TypeInit, LockInit, RunInit DEF Protocol
<1>2. Protocol /\ [Next]_vars => Protocol'
  BY TypeStep, LockStep, RunStep DEF Protocol
<1> QED
  BY <1>1, <1>2, PTL DEF Spec

\* FileIsKept: the entities that are saved late were read by the one run before it had
\* a file, or by a client after.
THEOREM FileIsKeptTheorem == ASSUME ~RestartStaleJobs PROVE Spec => FileIsKept
<1>1. Protocol /\ [Next]_vars => [job.lines # <<>> => job'.lines = job.lines]_vars
  <2> SUFFICES ASSUME Protocol, [Next]_vars PROVE job.lines # <<>> => job'.lines = job.lines
    OBVIOUS
  <2> USE DEF Protocol, RunInv, FileInv, Writing, Counting, Streaming
  <2>1. CASE Quiet
    BY <2>1 DEF Quiet, SameRow
  <2>2. CASE CreateExport
    BY <2>2 DEF CreateExport, TypeOK, ExportJob
  <2>3. CASE PollReads
    BY <2>3 DEF PollReads
  <2>4. CASE PollSaves
    BY <2>4, PolledRow DEF PollSaves, SameRow
  <2>5. CASE FindStaleJob
    BY <2>5 DEF FindStaleJob
  <2>6. CASE GivesUp
    BY <2>6 DEF GivesUp
  <2>7. ASSUME TableChanges PROVE job'.lines = job.lines
    BY <2>7 DEF TableChanges, Enter, Leave, Edit
  <2>8. ASSUME NEW w \in Worker, StartProcessing(w) \/ StartsUnseen(w) PROVE job'.lines = job.lines
    BY <2>8, StartedRow DEF StartProcessing, StartsUnseen
  <2>9. ASSUME NEW w \in Worker, CountRecords(w) \/ FetchPage(w) PROVE job'.lines = job.lines
    BY <2>9 DEF CountRecords, FetchPage
  <2>10. ASSUME NEW w \in Worker, SaveTotal(w) \/ Finishes(w) PROVE job.lines = <<>>
    BY <2>10 DEF SaveTotal, Finishes
  <2> QED
    BY <2>1, <2>2, <2>3, <2>4, <2>5, <2>6, <2>7, <2>8, <2>9, <2>10, StepKinds DEF Loud
<1> QED
  BY <1>1, ProtocolHolds, PTL DEF Spec, FileIsKept

-----------------------------------------------------------------------------
(* Places in the order of creation *)

\* Rows up to r, r included, and their number.
Upto(r, S) == {x \in S : created[x] <= created[r]}

LEMMA UptoFinite ==
  ASSUME NEW S \in SUBSET Row, NEW r
  PROVE  /\ Upto(r, S) \in SUBSET S /\ Rank(r, S) = Cardinality(Upto(r, S))
         /\ IsFiniteSet(S) /\ IsFiniteSet(Upto(r, S)) /\ Rank(r, S) \in Nat
         /\ Cardinality(S) \in Nat /\ Rank(r, S) <= Cardinality(S)
<1>1. Upto(r, S) \in SUBSET S
  BY DEF Upto
<1>2. Rank(r, S) = Cardinality(Upto(r, S))
  BY DEF Rank, RankIn, Upto
<1>3. IsFiniteSet(S) /\ Cardinality(S) \in Nat
  BY RowsAssumption, FS_Subset, FS_CardinalityType
<1> QED
  BY <1>1, <1>2, <1>3, FS_Subset, FS_CardinalityType

\* A row of S has a place from 1 on, and older rows come first.
LEMMA RankBounds ==
  ASSUME created \in [Row -> Nat], NEW S \in SUBSET Row, NEW r \in S, NEW q \in S
  PROVE  /\ Rank(r, S) \in 1..Cardinality(S)
         /\ created[r] < created[q] => Rank(r, S) < Rank(q, S)
<1>1. created[r] \in Nat /\ created[q] \in Nat /\ \A x \in S : created[x] \in Nat
  OBVIOUS
<1>2. r \in Upto(r, S)
  BY <1>1 DEF Upto
<1>3. Cardinality(Upto(r, S)) # 0
  BY <1>2, UptoFinite, FS_EmptySet
<1>4. ASSUME created[r] < created[q] PROVE Rank(r, S) < Rank(q, S)
  <2>1. q \notin Upto(r, S) /\ Upto(r, S) \cup {q} \in SUBSET Upto(q, S)
    BY <1>1, <1>4 DEF Upto
  <2>2. Cardinality(Upto(r, S) \cup {q}) = Cardinality(Upto(r, S)) + 1
    BY <2>1, UptoFinite, FS_AddElement
  <2>3. Cardinality(Upto(r, S) \cup {q}) <= Cardinality(Upto(q, S))
    BY <2>1, UptoFinite, FS_Subset
  <2> QED
    BY <2>2, <2>3, UptoFinite
<1> QED
  BY <1>3, <1>4, UptoFinite

\* The place of a row never falls when rows come.
LEMMA RankGrows ==
  ASSUME NEW S \in SUBSET Row, NEW T \in SUBSET Row, S \subseteq T, NEW old, NEW new,
         \A x \in S : new[x] = old[x], NEW r \in S
  PROVE  RankIn(old, r, S) <= RankIn(new, r, T) /\ RankIn(old, r, S) \in Nat /\ RankIn(new, r, T) \in Nat
<1> DEFINE before == {x \in S : old[x] <= old[r]}
           after == {x \in T : new[x] <= new[r]}
<1>1. before \in SUBSET after /\ after \in SUBSET T
  OBVIOUS
<1>2. IsFiniteSet(T)
  BY RowsAssumption, FS_Subset
<1> HIDE DEF before, after
<1>3. Cardinality(before) <= Cardinality(after) /\ Cardinality(before) \in Nat /\ Cardinality(after) \in Nat
  BY <1>1, <1>2, FS_Subset, FS_CardinalityType
<1> QED
  BY <1>3 DEF RankIn, before, after

\* A row that leaves takes one row, at most, from those that stand behind a place o:
\* itself, or the one that moves up to o.
LEMMA LeaveCosts ==
  ASSUME created \in [Row -> Nat], selected \in SUBSET Row, Untied, NEW x \in selected, NEW o \in Nat
  PROVE  \E y \in selected : \A r \in selected :
           Rank(r, selected) > o => r = y \/ (r # x /\ Rank(r, selected \ {x}) > o)
<1> DEFINE S == selected \ {x}
<1>1. S \in SUBSET Row /\ \A r \in selected : created[r] \in Nat
  OBVIOUS
<1>2. ASSUME NEW r \in selected
      PROVE  /\ Rank(r, S) >= Rank(r, selected) - 1
             /\ Rank(r, S) \in Nat /\ Rank(r, selected) \in Nat
             /\ created[r] < created[x] => Rank(r, S) = Rank(r, selected)
  <2>1. Upto(r, S) = Upto(r, selected) \ {x}
    BY DEF Upto
  <2>2. created[r] < created[x] => x \notin Upto(r, selected)
    BY <1>1 DEF Upto
  <2> HIDE DEF S
  <2>3. /\ Rank(r, S) = Cardinality(Upto(r, S)) /\ Rank(r, S) \in Nat
        /\ Rank(r, selected) = Cardinality(Upto(r, selected)) /\ Rank(r, selected) \in Nat
        /\ IsFiniteSet(Upto(r, selected))
    BY <1>1, UptoFinite
  <2>4. Cardinality(Upto(r, selected) \ {x}) \in
          {Cardinality(Upto(r, selected)), Cardinality(Upto(r, selected)) - 1}
    BY <2>3, FS_RemoveElement
  <2>5. created[r] < created[x] => Upto(r, selected) \ {x} = Upto(r, selected)
    BY <2>2
  <2> QED
    BY <2>1, <2>3, <2>4, <2>5
<1>3. \A r, q \in selected : r # q => created[r] < created[q] \/ created[q] < created[r]
  BY <1>1 DEF Untied
<1>4. \A r, q \in selected : created[r] < created[q] => Rank(r, selected) < Rank(q, selected)
  BY RankBounds
<1> HIDE DEF S
<1>5. CASE Rank(x, selected) > o
  <2>1. ASSUME NEW r \in selected, Rank(r, selected) > o, r # x PROVE Rank(r, S) > o
    <3>1. CASE created[r] < created[x]
      BY <1>2, <2>1, <3>1
    <3>2. CASE created[x] < created[r]
      BY <1>2, <1>4, <1>5, <3>2
    <3> QED
      BY <1>3, <2>1, <3>1, <3>2
  <2> QED
    BY <2>1 DEF S
<1>6. CASE ~(Rank(x, selected) > o)
  <2>1. ASSUME NEW r \in selected, Rank(r, selected) > o, Rank(r, selected) # o + 1
        PROVE  r # x /\ Rank(r, S) > o
    BY <1>2, <1>6, <2>1
  <2>2. CASE \E y \in selected : Rank(y, selected) = o + 1
    <3>1. PICK y \in selected : Rank(y, selected) = o + 1
      BY <2>2
    <3>2. \A r \in selected : Rank(r, selected) = o + 1 => r = y
      BY <1>2, <1>3, <1>4, <3>1
    <3> QED
      BY <2>1, <3>2 DEF S
  <2>3. CASE ~\E y \in selected : Rank(y, selected) = o + 1
    BY <2>1, <2>3 DEF S
  <2> QED
    BY <2>2, <2>3
<1> QED
  BY <1>5, <1>6

\* ORDER BY lists every row once.
LEMMA OrderIsOnto ==
  ASSUME TypeOK, NEW S \in SUBSET Row, NEW order \in Orders(S)
  PROVE  \A r \in S : \E n \in 1..Cardinality(S) : order[n] = r
<1> DEFINE size == Cardinality(S)
<1>1. IsFiniteSet(S) /\ size \in Nat
  <2>1. Cardinality(Row) \in Nat
    BY RowsFinite
  <2> QED
    BY <2>1, RowsFinite
<1>2. IsFiniteSet(1..size) /\ Cardinality(1..size) = size
  BY <1>1, FS_Interval
<1>3. order \in [1..size -> S] /\ \A m, n \in 1..size : m < n => order[m] # order[n]
  BY DEF Orders
<1> HIDE DEF size
<1>4. \A m, n \in 1..size : order[m] = order[n] => m = n
  BY <1>1, <1>3
<1>5. order \in Injection(1..size, S)
  BY <1>3, <1>4 DEF Injection, IsInjective
<1>6. order \in Surjection(1..size, S)
  BY <1>1, <1>2, <1>5, FS_Injection DEF size
<1> QED
  BY <1>6 DEF Surjection, size

\* If creation times differ the n-th row has the place n.
LEMMA OrderRank ==
  ASSUME TypeOK, Untied, NEW order \in Orders(selected), NEW n \in 1..Cardinality(selected)
  PROVE  Rank(order[n], selected) = n
<1> DEFINE size == Cardinality(selected)
           upto == {x \in selected : created[x] <= created[order[n]]}
           first == [m \in 1..n |-> order[m]]
<1>1. size \in Nat /\ n \in 1..size /\ created \in [Row -> Nat] /\ selected \in SUBSET Row
  <2>1. Cardinality(Row) \in Nat
    BY RowsFinite
  <2> QED
    BY <2>1, RowsFinite, RowsAssumption DEF TypeOK
<1>2. /\ order \in [1..size -> selected]
      /\ \A k, m \in 1..size : k < m => order[k] # order[m] /\ created[order[k]] <= created[order[m]]
  BY DEF Orders
<1>3. \A m \in 1..n : m \in 1..size /\ order[m] \in upto
  <2> TAKE m \in 1..n
  <2>1. m \in 1..size
    BY <1>1
  <2>2. order[m] \in selected /\ created[order[m]] \in Nat
    BY <1>1, <1>2, <2>1
  <2>3. created[order[m]] <= created[order[n]]
    BY <1>1, <1>2, <2>1, <2>2
  <2> QED
    BY <2>1, <2>2, <2>3
<1>4. \A x \in upto : \E m \in 1..n : order[m] = x
  <2> TAKE x \in upto
  <2>1. PICK m \in 1..size : order[m] = x
    BY <1>1, OrderIsOnto
  <2>2. CASE m <= n
    BY <1>1, <2>1, <2>2
  <2>3. CASE m > n
    <3>1. created[order[n]] <= created[x] /\ order[n] # x
      BY <1>1, <1>2, <2>1, <2>3
    <3>2. created[x] <= created[order[n]] /\ x \in Row /\ order[n] \in Row
      BY <1>1, <1>2
    <3>3. created[x] = created[order[n]]
      BY <1>1, <3>1, <3>2
    <3>4. order[n] \in selected /\ x \in selected
      BY <1>1, <1>2
    <3> QED
      BY <3>1, <3>3, <3>4 DEF Untied
  <2> QED
    BY <1>1, <2>1, <2>2, <2>3
<1> HIDE DEF upto, size
<1>5. first \in [1..n -> upto] /\ \A k, m \in 1..n : first[k] = first[m] => k = m
  <2>1. \A k, m \in 1..n : order[k] = order[m] => k = m
    BY <1>1, <1>2, <1>3
  <2> QED
    BY <1>3, <2>1
<1>6. \A x \in upto : \E m \in 1..n : first[m] = x
  BY <1>4
<1> HIDE DEF first
<1>7. first \in Bijection(1..n, upto)
  BY <1>5, <1>6 DEF Bijection, Injection, Surjection, IsInjective
<1>8. Cardinality(upto) = n
  BY <1>1, <1>7, FS_CountingElements DEF ExistsBijection
<1> QED
  BY <1>8 DEF Rank, RankIn, upto

-----------------------------------------------------------------------------
(* Pages *)

\* What a query makes of the file: it goes on with the rows of the order, and only a page
\* that is not full takes it to the end of the table.
LongerBy(w, order, longer) ==
  /\ longer \in Seq(Row) /\ Len(longer) >= Len(file[w])
  /\ \A n \in 1..Len(file[w]) : longer[n] = file[w][n]
  /\ \A n \in (Len(file[w]) + 1)..Len(longer) : n <= Cardinality(selected) /\ longer[n] = order[n]
  /\ Len(longer) > Len(file[w]) => Len(longer) <= Cardinality(selected)
  /\ Len(Page(w, order)) < PageSize => Len(longer) >= Cardinality(selected)

LEMMA PageRows ==
  ASSUME TypeOK, NEW w \in Worker, NEW order \in Orders(selected)
  PROVE  LongerBy(w, order, file[w] \o Page(w, order))
<1> DEFINE longer == file[w] \o Page(w, order)
           size == Cardinality(selected)
           begin == Len(file[w])
           page == Page(w, order)
           last == IF begin + PageSize < size THEN begin + PageSize ELSE size
<1>1. begin \in Nat /\ size \in Nat /\ PageSize \in Nat /\ file[w] \in Seq(Row)
  <2>1. Cardinality(Row) \in Nat
    BY RowsFinite
  <2> QED
    BY <2>1, RowsFinite, BoundsAssumption DEF TypeOK
<1>2. order \in Seq(Row) /\ Len(order) = size /\ page \in Seq(Row)
  BY PageType
<1>3. page = SubSeq(order, begin + 1, last)
  BY <1>2 DEF Page, Offset
<1>4. \A n \in (begin + 1)..last : order[n] \in Row
  BY <1>1, <1>2
<1>5. last \in Int /\ begin + 1 \in Int /\ last <= size
  BY <1>1
<1> HIDE DEF size, begin, last, page
<1>6. /\ Len(page) = IF begin + 1 <= last THEN last - begin ELSE 0
      /\ \A n \in 1..(last - begin) : page[n] = order[begin + n]
  <2>1. /\ Len(page) = IF begin + 1 <= last THEN last - (begin + 1) + 1 ELSE 0
        /\ \A n \in 1..(last - (begin + 1) + 1) : page[n] = order[begin + 1 + n - 1]
    BY <1>3, <1>4, <1>5, SubSeqProperties
  <2> QED
    BY <1>1, <1>5, <2>1
<1>7. /\ longer \in Seq(Row) /\ Len(longer) = begin + Len(page)
      /\ \A n \in 1..(begin + Len(page)) :
           longer[n] = IF n <= begin THEN file[w][n] ELSE page[n - begin]
  BY <1>1, <1>2, ConcatProperties DEF begin, page
<1> HIDE DEF longer
<1>8. \A n \in 1..begin : longer[n] = file[w][n]
  <2> TAKE n \in 1..begin
  <2>1. n \in 1..(begin + Len(page)) /\ n <= begin
    BY <1>1, <1>5, <1>6
  <2> QED
    BY <1>7, <2>1
<1>9. ASSUME NEW n \in (begin + 1)..Len(longer) PROVE n <= size /\ longer[n] = order[n]
  <2>1. n - begin \in 1..(last - begin) /\ n > begin /\ n \in 1..(begin + Len(page)) /\ n <= last
    BY <1>1, <1>5, <1>6, <1>7, <1>9
  <2>2. longer[n] = page[n - begin]
    BY <1>1, <1>7, <2>1
  <2>3. page[n - begin] = order[begin + (n - begin)]
    BY <1>6, <2>1
  <2>4. begin + (n - begin) = n
    BY <1>1, <2>1
  <2> QED
    BY <1>1, <1>5, <2>1, <2>2, <2>3, <2>4
<1>10. /\ Len(longer) >= begin
       /\ Len(longer) > begin => Len(longer) <= size
       /\ Len(page) < PageSize => Len(longer) >= size
  BY <1>1, <1>5, <1>6, <1>7 DEF last
<1> QED
  BY <1>7, <1>8, <1>9, <1>10 DEF LongerBy, begin, size, page, longer

PageInv == TiedInv /\ CountInv /\ CoverInv /\ PrefixInv /\ DoneInv

Running == Protocol /\ ~RestartStaleJobs

\* Steps that leave the table and what is counted alone.
LEMMA TableKept ==
  ASSUME [Next]_vars, TypeOK
  PROVE  UNCHANGED tableVars \/ TableChanges \/ \E w \in Worker : CountRecords(w)
  BY StepKinds DEF Quiet, Loud, CreateExport, PollReads, PollSaves, FindStaleJob, GivesUp,
     StartProcessing, StartsUnseen, SaveTotal, FetchPage, Finishes

\* A row that comes or leaves, while the one run that executes is between its count and
\* its last page.
LEMMA TableSteps ==
  ASSUME TypeOK, TableChanges
  PROVE  /\ UNCHANGED <<job, queued, pc, runVars, polled, found>>
         /\ \E w \in Worker : pc[w] \in {"save", "stream"}
         /\ created' \in [Row -> Nat] /\ selected' \in SUBSET Row
         /\ (~tied' => ~tied)
         /\ \E r \in Row :
              \/ /\ r \notin selected /\ selected' = selected \cup {r} /\ left' = left
                 /\ \A x \in selected : created'[x] = created[x]
                 /\ \E t \in Nat : created' = [created EXCEPT ![r] = t]
                 /\ tied' = (tied \/ ~Untied')
              \/ /\ r \in selected /\ selected' = selected \ {r} /\ left' = left + 1
                 /\ UNCHANGED <<created, tied>>
<1> USE DEF TypeOK
<1>1. PICK r \in Row : Leave(r) \/ \E t \in Times : Enter(r, t)
  BY DEF TableChanges
<1>2. UNCHANGED <<job, queued, pc, runVars, polled, found>> /\ \E w \in Worker : pc[w] \in {"save", "stream"}
  BY <1>1 DEF Leave, Enter, Edit
<1>3. CASE Leave(r)
  <2>1. /\ r \in selected /\ selected' = selected \ {r} /\ left' = left + 1
        /\ UNCHANGED <<created, tied>>
    BY <1>3 DEF Leave
  <2>2. created' \in [Row -> Nat] /\ selected' \in SUBSET Row
    BY <2>1
  <2> QED
    BY <1>2, <2>1, <2>2
<1>4. ASSUME NEW t \in Times, Enter(r, t)
      PROVE  /\ r \notin selected /\ selected' = selected \cup {r} /\ left' = left
             /\ created' = [created EXCEPT ![r] = t] /\ t \in Nat
             /\ tied' = (tied \/ ~Untied')
  BY <1>4, RowsAssumption DEF Enter
<1>5. CASE \E t \in Times : Enter(r, t)
  <2>1. PICK t \in Nat :
          /\ r \notin selected /\ selected' = selected \cup {r} /\ left' = left
          /\ created' = [created EXCEPT ![r] = t]
          /\ tied' = (tied \/ ~Untied')
    BY <1>4, <1>5
  <2>2. /\ created' \in [Row -> Nat] /\ selected' \in SUBSET Row
        /\ \A x \in selected : created'[x] = created[x]
    BY <2>1
  <2>3. ~tied' => ~tied
    BY <2>1
  <2> QED
    BY <1>2, <2>1, <2>2, <2>3
<1> QED
  BY <1>1, <1>3, <1>5

\* One element more at most.
LEMMA OneMore ==
  ASSUME NEW S, IsFiniteSet(S), NEW y, NEW T, T \subseteq S \cup {y}
  PROVE  IsFiniteSet(T) /\ Cardinality(T) \in Nat /\ Cardinality(T) <= Cardinality(S) + 1
<1>1. IsFiniteSet(S \cup {y}) /\ Cardinality(S \cup {y}) \in {Cardinality(S), Cardinality(S) + 1}
  BY FS_AddElement
<1>2. Cardinality(S) \in Nat
  BY FS_CardinalityType
<1>3. IsFiniteSet(T) /\ Cardinality(T) <= Cardinality(S \cup {y}) /\ Cardinality(T) \in Nat
  BY <1>1, FS_Subset, FS_CardinalityType
<1> QED
  BY <1>1, <1>2, <1>3

LEMMA TiedStep == ASSUME TypeOK, TiedInv, [Next]_vars PROVE TiedInv'
<1> USE DEF TiedInv
<1>1. CASE UNCHANGED tableVars
  BY <1>1 DEF Untied
<1>2. CASE TableChanges
  <2>1. CASE \E r \in Row : selected' = selected \ {r} /\ UNCHANGED <<created, tied>>
    BY <2>1 DEF Untied
  <2>2. CASE tied' = (tied \/ ~Untied')
    BY <2>2
  <2> QED
    BY <1>2, <2>1, <2>2, TableSteps
<1>3. ASSUME NEW w \in Worker, CountRecords(w) PROVE TiedInv'
  <2>1. tied' = ~Untied /\ created' = created /\ selected' = selected
    BY <1>3 DEF CountRecords
  <2>2. Untied' <=> Untied
    BY <2>1 DEF Untied
  <2> QED
    BY <2>1, <2>2
<1> QED
  BY <1>1, <1>2, <1>3, TableKept

LEMMA CountStep == ASSUME Running, CountInv, [Next]_vars PROVE CountInv'
<1>0. /\ pc \in [Worker -> {"idle", "acquire", "transition", "count", "save", "stream", "complete",
                            "fail", "release"}]
      /\ entity \in [Worker -> ExportJob] /\ base \in [Worker -> SUBSET Row]
      /\ file \in [Worker -> Seq(Row)] /\ TypeOK
  BY DEF Running, Protocol, TypeOK
<1> USE <1>0 DEF CountInv, Writing, Counting, Streaming, Executing, GoTo, runVars
<1>1. ASSUME Quiet PROVE CountInv'
  BY <1>1 DEF Quiet, SameRow, NobodyStarts
<1>2. ASSUME CreateExport PROVE CountInv'
  BY <1>2 DEF CreateExport, Running, Protocol, RowInv, RequestInv
<1>3. ASSUME PollReads PROVE CountInv'
  BY <1>3 DEF PollReads
<1>4. ASSUME PollSaves PROVE CountInv'
  <2>1. job'.total = job.total
    BY <1>4, PolledRow DEF PollSaves, SameRow, Running, Protocol, RunInv, FileInv
  <2> QED
    BY <1>4, <2>1 DEF PollSaves
<1>5. ASSUME FindStaleJob PROVE CountInv'
  BY <1>5 DEF FindStaleJob
<1>6. ASSUME GivesUp PROVE CountInv'
  BY <1>6 DEF GivesUp, NobodyStarts
<1>7. CASE TableChanges
  <2>1. UNCHANGED <<job, pc, entity, base, file>>
    BY <1>7, TableSteps
  <2>2. PICK v \in Worker : pc[v] \in {"save", "stream"}
    BY <1>7, TableSteps
  <2>3. ASSUME NEW w \in Worker, pc[w] = "save" \/ Streaming(w)
        PROVE  left' \in Nat /\ Cardinality(base[w] \ selected') <= left'
    <3>1. PICK r \in Row : \/ selected' = selected \cup {r} /\ left' = left
                           \/ selected' = selected \ {r} /\ left' = left + 1
      BY <1>7, TableSteps
    <3> DEFINE gone == base[w] \ selected
               gone2 == base[w] \ selected'
    <3>2. IsFiniteSet(gone) /\ IsFiniteSet(gone2) /\ Cardinality(gone) \in Nat /\ Cardinality(gone2) \in Nat
      <4>1. gone \in SUBSET Row /\ gone2 \in SUBSET Row
        OBVIOUS
      <4> HIDE DEF gone, gone2
      <4> QED
        BY <4>1, RowsAssumption, FS_Subset, FS_CardinalityType
    <3>3. left \in Nat /\ Cardinality(gone) <= left
      BY <2>3
    <3>4. CASE selected' = selected \cup {r} /\ left' = left
      <4>1. gone2 \in SUBSET gone
        BY <3>4
      <4> HIDE DEF gone, gone2
      <4>2. Cardinality(gone2) <= Cardinality(gone)
        BY <3>2, <4>1, FS_Subset
      <4> QED
        BY <3>2, <3>3, <3>4, <4>2 DEF gone2
    <3>5. CASE selected' = selected \ {r} /\ left' = left + 1
      <4>1. gone2 \in SUBSET (gone \cup {r})
        BY <3>5
      <4> HIDE DEF gone, gone2
      <4>2. Cardinality(gone2) <= Cardinality(gone) + 1
        BY <3>2, <4>1, OneMore
      <4> QED
        BY <3>2, <3>3, <3>5, <4>2 DEF gone2
    <3> QED
      BY <3>1, <3>4, <3>5
  <2>4. \A w \in Worker : pc[w] # "count"
    BY <2>2 DEF Running, Protocol, RunInv, OneExecution
  <2> QED
    BY <2>1, <2>3, <2>4
<1>8. ASSUME NEW w \in Worker, StartProcessing(w) PROVE CountInv'
  <2>1. (\A v \in Worker : base[v] = {} /\ ~Executing(v)) /\ left = NotCounted
    BY <1>8 DEF StartProcessing, MayStart, Running, Protocol, RunInv, FreshInv
  <2> QED
    BY <1>8, <2>1 DEF StartProcessing
<1>9. ASSUME NEW w \in Worker, StartsUnseen(w) PROVE CountInv'
  <2>1. job'.total = job.total /\ UNCHANGED <<tableVars, entity, base, file>> /\ NobodyStarts
    BY <1>9, StartedRow DEF StartsUnseen
  <2>2. \A v \in Worker : /\ Executing(v)' => Executing(v)
                          /\ pc'[v] \in {"count", "save", "stream", "complete"} => pc'[v] = pc[v]
    BY <2>1 DEF NobodyStarts
  <2> QED
    BY <2>1, <2>2
<1>10. ASSUME NEW w \in Worker, CountRecords(w) PROVE CountInv'
  <2>1. /\ pc[w] = "count" /\ pc' = [pc EXCEPT ![w] = "save"]
        /\ base' = [base EXCEPT ![w] = selected]
        /\ entity' = [entity EXCEPT ![w].total = Cardinality(selected)]
        /\ UNCHANGED <<selected, job, file>> /\ left' = 0
    BY <1>10 DEF CountRecords
  <2>2. entity'[w].total = Cardinality(selected)
    BY <2>1 DEF ExportJob
  <2>3. \A v \in Worker \ {w} : ~Executing(v)
    BY <2>1 DEF Running, Protocol, RunInv, OneExecution
  <2>4. Cardinality(selected \ selected) = 0
    <3>1. selected \ selected = {}
      OBVIOUS
    <3> QED
      BY <3>1, FS_EmptySet
  <2>5. \A v \in Worker \ {w} : base[v] = {} /\ base'[v] = {} /\ pc'[v] = pc[v]
    BY <2>1
  <2>6. base'[w] = selected /\ pc'[w] = "save" /\ file'[w] = <<>>
    BY <2>1
  <2> QED
    BY <2>1, <2>2, <2>3, <2>4, <2>5, <2>6
<1>11. ASSUME NEW w \in Worker, SaveTotal(w) PROVE CountInv'
  <2>1. \A v \in Worker \ {w} : ~Executing(v)
    BY <1>11 DEF SaveTotal, Running, Protocol, RunInv, OneExecution
  <2> QED
    BY <1>11, <2>1 DEF SaveTotal
<1>12. ASSUME NEW w \in Worker, FetchPage(w) PROVE CountInv'
  BY <1>12 DEF FetchPage
<1>13. ASSUME NEW w \in Worker, Finishes(w) PROVE CountInv'
  BY <1>13 DEF Finishes, NobodyStarts
<1> QED
  BY <1>1, <1>2, <1>3, <1>4, <1>5, <1>6, <1>7, <1>8, <1>9, <1>10, <1>11, <1>12, <1>13, StepKinds
     DEF Loud

\* What was counted is still selected if nothing has left.
LEMMA NoneLeft ==
  ASSUME TypeOK, CountInv, left = 0, NEW w \in Worker, pc[w] = "save" \/ Streaming(w)
  PROVE  base[w] \subseteq selected
<1> DEFINE gone == base[w] \ selected
<1>1. gone \in SUBSET Row
  BY DEF TypeOK
<1>2. Cardinality(gone) <= 0
  BY DEF CountInv
<1> HIDE DEF gone
<1>3. gone = {}
  BY <1>1, <1>2, RowsAssumption, FS_Subset, FS_CardinalityType, FS_EmptySet
<1> QED
  BY <1>3 DEF gone

\* The rows missed and lost are sets of rows that were counted.
LEMMA MissedFinite ==
  ASSUME TypeOK, NEW w \in Worker
  PROVE  /\ IsFiniteSet(base[w]) /\ IsFiniteSet(Missed(w)) /\ IsFiniteSet(Lost(w))
         /\ Cardinality(Missed(w)) \in Nat /\ Cardinality(Lost(w)) \in Nat
<1>1. base[w] \in SUBSET Row /\ Missed(w) \in SUBSET Row /\ Lost(w) \in SUBSET Row
  BY DEF TypeOK, Missed, Lost
<1> QED
  BY <1>1, RowsAssumption, FS_Subset, FS_CardinalityType

\* A row that comes makes no run miss another.
LEMMA EnterMisses ==
  ASSUME TypeOK, NEW w \in Worker, NEW S \in SUBSET Row, NEW time \in [Row -> Nat],
         selected \subseteq S, \A x \in selected : time[x] = created[x]
  PROVE  {r \in base[w] : ~In(r, file[w]) /\ ~(r \in S /\ RankIn(time, r, S) > Len(file[w]))} \subseteq Missed(w)
<1>1. selected \in SUBSET Row /\ Len(file[w]) \in Nat
  BY DEF TypeOK
<1>2. ASSUME NEW r \in selected, Rank(r, selected) > Len(file[w])
      PROVE  r \in S /\ RankIn(time, r, S) > Len(file[w])
  BY <1>1, <1>2, RankGrows DEF Rank
<1> QED
  BY <1>2 DEF Missed, Ahead

\* The invariants of the file only look at these variables.
LEMMA FileStep ==
  ASSUME Running, TiedInv, CountInv, CoverInv, PrefixInv, [Next]_vars
  PROVE  CoverInv' /\ PrefixInv'
<1>0. /\ pc \in [Worker -> {"idle", "acquire", "transition", "count", "save", "stream", "complete",
                            "fail", "release"}]
      /\ base \in [Worker -> SUBSET Row] /\ file \in [Worker -> Seq(Row)] /\ TypeOK
      /\ selected \in SUBSET Row /\ created \in [Row -> Nat]
  BY DEF Running, Protocol, TypeOK
<1> USE <1>0 DEF CoverInv, PrefixInv, Counting, Streaming, GoTo, runVars, Rank, Missed, Lost, Ahead
<1>1. ASSUME UNCHANGED <<tableVars, runVars>>, NobodyStarts PROVE CoverInv' /\ PrefixInv'
  BY <1>1 DEF NobodyStarts
<1>2. ASSUME UNCHANGED <<tableVars, runVars, pc>> PROVE CoverInv' /\ PrefixInv'
  BY <1>2
<1>3. CASE TableChanges
  <2>1. /\ UNCHANGED <<pc, base, file>> /\ created' \in [Row -> Nat] /\ selected' \in SUBSET Row
        /\ ~tied' => ~tied
    BY <1>3, TableSteps DEF runVars
  <2>2. ASSUME NEW w \in Worker PROVE Len(file[w]) \in Nat /\ Cardinality(base[w]) \in Nat
    <3>1. base[w] \in SUBSET Row
      OBVIOUS
    <3> QED
      BY <3>1, RowsAssumption, FS_Subset, FS_CardinalityType
  <2>3. PICK q \in Row :
          \/ /\ q \notin selected /\ selected' = selected \cup {q} /\ left' = left
             /\ \A x \in selected : created'[x] = created[x]
          \/ /\ q \in selected /\ selected' = selected \ {q} /\ left' = left + 1
             /\ UNCHANGED <<created, tied>>
    BY <1>3, TableSteps
  <2> HIDE DEF Missed, Lost, Ahead, Rank
  <2>4. CASE q \notin selected /\ selected' = selected \cup {q} /\ left' = left
             /\ \A x \in selected : created'[x] = created[x]
    <3>1. ASSUME NEW w \in Worker, pc[w] \in {"save", "stream"}, ~tied
          PROVE  Cardinality(Missed(w)') <= left
      <4>1. Missed(w)' \subseteq Missed(w)
        <5>1. {r \in base[w] : ~In(r, file[w]) /\ ~(r \in selected' /\ RankIn(created', r, selected') > Len(file[w]))}
                \subseteq Missed(w)
          BY <2>1, <2>4, EnterMisses
        <5> QED
          BY <2>1, <5>1 DEF Missed, Ahead, Rank
      <4>2. Cardinality(Missed(w)') <= Cardinality(Missed(w)) /\ Cardinality(Missed(w)') \in Nat
        BY <4>1, MissedFinite, FS_Subset, FS_CardinalityType
      <4>3. left \in Nat /\ Cardinality(Missed(w)) <= left
        BY <3>1 DEF CountInv
      <4> QED
        BY <4>2, <4>3, MissedFinite
    <3>2. \A w \in Worker : Lost(w)' = Lost(w)
      BY <2>1 DEF Lost
    <3>3. CoverInv'
      BY <2>1, <2>4, <3>1, <3>2
    <3>4. ASSUME NEW w \in Worker, Streaming(w), left = 0 PROVE selected' # base[w]
      BY <2>4, <3>4, NoneLeft
    <3>5. PrefixInv'
      BY <2>1, <2>4, <3>4
    <3> QED
      BY <3>3, <3>5
  <2>5. CASE q \in selected /\ selected' = selected \ {q} /\ left' = left + 1 /\ UNCHANGED <<created, tied>>
    <3>1. ASSUME NEW w \in Worker, pc[w] \in {"save", "stream"}, ~tied
          PROVE  Cardinality(Missed(w)') <= left + 1
      <4>1. PICK y \in selected : \A r \in selected :
              Rank(r, selected) > Len(file[w])
                => r = y \/ (r # q /\ Rank(r, selected \ {q}) > Len(file[w]))
        BY <2>2, <2>5, <3>1, LeaveCosts DEF TiedInv
      <4>2. \A r : Rank(r, selected \ {q}) = RankIn(created', r, selected')
        BY <2>5 DEF Rank
      <4>3. Missed(w)' = {r \in base[w] : ~In(r, file[w])
                            /\ ~(r \in selected' /\ RankIn(created', r, selected') > Len(file[w]))}
        BY <2>1 DEF Missed, Ahead, Rank
      <4>4. Missed(w)' \subseteq Missed(w) \cup {y}
        BY <2>5, <4>1, <4>2, <4>3 DEF Missed, Ahead
      <4>5. Cardinality(Missed(w)') <= Cardinality(Missed(w)) + 1 /\ Cardinality(Missed(w)') \in Nat
        BY <4>4, MissedFinite, OneMore
      <4>6. left \in Nat /\ Cardinality(Missed(w)) <= left
        BY <3>1 DEF CountInv
      <4> QED
        BY <4>5, <4>6, MissedFinite
    <3>2. \A w \in Worker : Lost(w)' = Lost(w) /\ Cardinality(Lost(w)) \in Nat
      BY <2>1, MissedFinite DEF Lost
    <3>3. \A w \in Worker : pc[w] \in {"save", "stream", "complete"} => left \in Nat
      BY DEF CountInv
    <3>4. CoverInv'
      BY <2>1, <2>2, <2>5, <3>1, <3>2, <3>3
    <3>5. PrefixInv'
      BY <2>1, <2>5, <3>3
    <3> QED
      BY <3>4, <3>5
  <2> QED
    BY <2>3, <2>4, <2>5
<1>4. ASSUME NEW w \in Worker, StartProcessing(w) PROVE CoverInv' /\ PrefixInv'
  BY <1>4 DEF StartProcessing, MayStart, Running, Protocol, RunInv, FreshInv, Executing
<1>5. ASSUME NEW w \in Worker, CountRecords(w) PROVE CoverInv' /\ PrefixInv'
  <2>1. /\ \A v \in Worker \ {w} : ~Executing(v)
        /\ pc[w] = "count" /\ pc' = [pc EXCEPT ![w] = "save"] /\ left' = 0
        /\ base' = [base EXCEPT ![w] = selected] /\ file' = file
        /\ created' = created /\ selected' = selected
    BY <1>5 DEF CountRecords, Running, Protocol, RunInv, OneExecution, Executing
  <2>2. file[w] = <<>>
    BY <2>1 DEF CountInv
  <2>3. \A r \in selected : RankIn(created, r, selected) > 0
    <3> TAKE r \in selected
    <3>1. Cardinality(selected) \in Nat
      BY UptoFinite
    <3>2. Rank(r, selected) \in 1..Cardinality(selected)
      BY RankBounds
    <3> QED
      BY <3>1, <3>2
  <2>4. Missed(w)' = {}
    BY <2>1, <2>2, <2>3
  <2>5. Cardinality(Missed(w)') = 0
    BY <2>4, FS_EmptySet
  <2> HIDE DEF Missed
  <2> QED
    BY <2>1, <2>5 DEF Executing
<1>6. ASSUME NEW w \in Worker, SaveTotal(w) PROVE CoverInv' /\ PrefixInv'
  <2>1. pc' = [pc EXCEPT ![w] = "stream"] /\ UNCHANGED <<tableVars, base, file>> /\ pc[w] = "save"
    BY <1>6 DEF SaveTotal
  <2>2. file[w] = <<>>
    BY <2>1 DEF CountInv
  <2>3. Cardinality(selected) \in Nat
    BY UptoFinite
  <2>4. \A v \in Worker : Missed(v)' = Missed(v) /\ Lost(v)' = Lost(v)
    BY <2>1
  <2> HIDE DEF Missed, Lost
  <2>5. CoverInv'
    BY <2>1, <2>4
  <2>6. PrefixInv'
    BY <2>1, <2>2, <2>3
  <2> QED
    BY <2>5, <2>6
<1>7. ASSUME NEW w \in Worker, FetchPage(w) PROVE CoverInv' /\ PrefixInv'
  <2> DEFINE longer == file'[w]
  <2>1. PICK order \in Orders(selected) :
          /\ longer = file[w] \o Page(w, order)
          /\ pc' = [pc EXCEPT ![w] =
               IF Len(Page(w, order)) < PageSize THEN "complete" ELSE "stream"]
          /\ \A v \in Worker \ {w} : file'[v] = file[v]
    BY <1>7 DEF FetchPage
  <2>2. pc[w] = "stream" /\ UNCHANGED <<tableVars, base>>
    BY <1>7 DEF FetchPage
  <2> HIDE DEF longer
  <2>3. LongerBy(w, order, longer)
    BY <2>1, PageRows
  <2> USE DEF LongerBy
  <2>4. Cardinality(selected) \in Nat /\ Cardinality(base[w]) \in Nat /\ left \in Nat
        /\ Cardinality(base[w]) <= Cardinality(selected) + left
    <3> DEFINE gone == base[w] \ selected
               kept == base[w] \cap selected
    <3>1. gone \in SUBSET Row /\ kept \in SUBSET selected /\ base[w] = gone \cup kept /\ gone \cap kept = {}
          /\ base[w] \in SUBSET Row
      OBVIOUS
    <3>2. Cardinality(gone) <= left /\ left \in Nat
      BY <2>2 DEF CountInv
    <3> HIDE DEF gone, kept
    <3>3. IsFiniteSet(selected) /\ IsFiniteSet(gone) /\ IsFiniteSet(kept) /\ IsFiniteSet(base[w])
          /\ Cardinality(kept) <= Cardinality(selected)
      BY <3>1, RowsAssumption, FS_Subset
    <3>4. Cardinality(base[w]) = Cardinality(gone) + Cardinality(kept)
      <4>1. Cardinality(gone \cup kept) = Cardinality(gone) + Cardinality(kept) - Cardinality(gone \cap kept)
        BY <3>3, FS_Union
      <4>2. Cardinality(gone \cap kept) = 0
        BY <3>1, FS_EmptySet
      <4>3. Cardinality(gone) \in Nat /\ Cardinality(kept) \in Nat
        BY <3>3, FS_CardinalityType
      <4> QED
        BY <3>1, <4>1, <4>2, <4>3
    <3> QED
      BY <3>2, <3>3, <3>4, FS_CardinalityType
  <2>5. Len(file[w]) \in Nat /\ Len(longer) \in Nat /\ DOMAIN longer = 1..Len(longer)
        /\ DOMAIN file[w] = 1..Len(file[w])
    BY <2>3
  <2>6. ASSUME ~tied, NEW r \in base[w], In(r, file[w]) \/ Ahead(w, r)
        PROVE  In(r, longer) \/ (r \in selected /\ Rank(r, selected) > Len(longer))
    <3>1. CASE In(r, file[w])
      BY <2>3, <2>5, <3>1 DEF In
    <3>2. CASE r \in selected /\ Rank(r, selected) > Len(file[w])
      <4>1. PICK n \in 1..Cardinality(selected) : order[n] = r
        BY <3>2, OrderIsOnto
      <4>2. Rank(r, selected) = n
        BY <2>6, <4>1, OrderRank DEF TiedInv
      <4>3. CASE n <= Len(longer)
        <5>1. n \in (Len(file[w]) + 1)..Len(longer)
          BY <2>4, <2>5, <3>2, <4>2, <4>3
        <5>2. longer[n] = r /\ n \in DOMAIN longer
          BY <2>3, <2>5, <4>1, <4>3, <5>1
        <5> QED
          BY <5>2 DEF In
      <4> QED
        BY <2>4, <2>5, <3>2, <4>1, <4>2, <4>3
    <3> QED
      BY <2>6, <3>1, <3>2
  <2> DEFINE missed == {r \in base[w] : ~In(r, longer) /\ ~(r \in selected /\ Rank(r, selected) > Len(longer))}
             lost == {r \in base[w] : ~In(r, longer)}
  <2>7. ASSUME ~tied PROVE Cardinality(missed) <= left
    <3>1. missed \subseteq Missed(w)
      BY <2>6, <2>7
    <3>2. Cardinality(Missed(w)) <= left
      BY <2>2, <2>7
    <3> HIDE DEF missed, Missed
    <3>3. Cardinality(missed) <= Cardinality(Missed(w)) /\ Cardinality(missed) \in Nat
          /\ Cardinality(Missed(w)) \in Nat
      BY <3>1, MissedFinite, FS_Subset, FS_CardinalityType
    <3> QED
      BY <2>4, <3>2, <3>3
  <2>8. Len(Page(w, order)) < PageSize =>
          Len(longer) + left >= Cardinality(base[w]) /\ lost = missed
    <3>1. \A r \in selected : Rank(r, selected) <= Cardinality(selected) /\ Rank(r, selected) \in Nat
      BY UptoFinite
    <3> QED
      BY <2>3, <2>4, <2>5, <3>1
  <2> HIDE DEF missed, lost
  <2>9. /\ Missed(w)' = missed /\ Lost(w)' = lost
        /\ \A v \in Worker \ {w} : Missed(v)' = Missed(v) /\ Lost(v)' = Lost(v) /\ file'[v] = file[v]
                                  /\ pc'[v] = pc[v]
    BY <2>1, <2>2 DEF longer, missed, lost
  <2>10. CoverInv'
    <3> HIDE DEF Missed, Lost, LongerBy
    <3>1. pc'[w] = IF Len(Page(w, order)) < PageSize THEN "complete" ELSE "stream"
      BY <2>1
    <3>2. base' = base /\ left' = left /\ tied' = tied
      BY <2>2
    <3>3. ASSUME NEW v \in Worker
          PROVE  /\ pc'[v] \in {"save", "stream"} /\ ~tied => Cardinality(Missed(v)') <= left
                 /\ pc'[v] = "complete" => Len(file'[v]) + left >= Cardinality(base[v])
                 /\ pc'[v] = "complete" /\ ~tied => Cardinality(Lost(v)') <= left
      <4>1. CASE v = w
        BY <2>7, <2>8, <2>9, <3>1, <4>1 DEF longer
      <4>2. CASE v # w
        BY <2>9, <4>2
      <4> QED
        BY <4>1, <4>2
    <3> QED
      BY <3>2, <3>3
  <2>11. ASSUME selected = base[w], left = 0, ~tied, NEW n \in DOMAIN longer
         PROVE  longer[n] \in selected /\ Rank(longer[n], selected) = n
    <3>1. CASE n <= Len(file[w])
      BY <2>2, <2>3, <2>5, <2>11, <3>1
    <3>2. CASE n > Len(file[w])
      <4>1. n <= Cardinality(selected) /\ longer[n] = order[n] /\ n \in 1..Cardinality(selected)
        BY <2>3, <2>4, <2>5, <2>11, <3>2
      <4>2. order[n] \in selected
        BY <4>1 DEF Orders
      <4> QED
        BY <2>11, <4>1, <4>2, OrderRank DEF TiedInv
    <3> QED
      BY <2>5, <2>11, <3>1, <3>2
  <2>12. ASSUME selected = base[w], left = 0
         PROVE  Len(longer) <= Cardinality(selected)
    <3>1. Len(file[w]) <= Cardinality(selected)
      BY <2>2, <2>12
    <3> QED
      BY <2>3, <2>4, <2>5, <3>1
  <2>13. \A v \in Worker \ {w} : file'[v] = file[v] /\ (Streaming(v)' <=> Streaming(v))
    BY <2>1
  <2>14. PrefixInv'
    BY <2>2, <2>11, <2>12, <2>13 DEF longer
  <2> QED
    BY <2>10, <2>14
<1> QED
  BY <1>1, <1>2, <1>3, <1>4, <1>5, <1>6, <1>7, StepKinds
     DEF Loud, Quiet, GivesUp, Finishes, StartsUnseen, CreateExport, PollReads, PollSaves, FindStaleJob

\* If what is selected is what was counted and nothing has left, the file is the table.
LEMMA FileIsTable ==
  ASSUME Running, CountInv, CoverInv, PrefixInv, NEW w \in Worker, pc[w] = "complete",
         left = 0, Cardinality(selected) = Cardinality(base[w])
  PROVE  Len(file[w]) = Cardinality(selected) /\ (~tied => file[w] \in Orders(selected))
<1> DEFINE size == Cardinality(selected)
<1>1. /\ TypeOK /\ selected \in SUBSET Row /\ file[w] \in Seq(Row) /\ created \in [Row -> Nat]
      /\ IsFiniteSet(selected) /\ size \in Nat
  <2>1. Cardinality(Row) \in Nat
    BY RowsFinite
  <2> QED
    BY <2>1, RowsFinite, RowsAssumption DEF Running, Protocol, TypeOK
<1>2. base[w] \in SUBSET selected
  BY <1>1, NoneLeft DEF Streaming
<1>3. selected = base[w]
  BY <1>1, <1>2, FS_Subset
<1>4. Len(file[w]) = size
  BY <1>1, <1>3 DEF CoverInv, PrefixInv, Streaming
<1>5. ASSUME ~tied PROVE file[w] \in Orders(selected)
  <2>1. \A n \in 1..size : file[w][n] \in selected /\ Rank(file[w][n], selected) = n
    BY <1>1, <1>3, <1>4, <1>5 DEF PrefixInv, Streaming
  <2>2. file[w] \in [1..size -> selected]
    BY <1>1, <1>4, <2>1
  <2>3. ASSUME NEW m \in 1..size, NEW n \in 1..size, m < n
        PROVE  file[w][m] # file[w][n] /\ created[file[w][m]] <= created[file[w][n]]
    <3> DEFINE x == file[w][m]
               y == file[w][n]
    <3>1. x \in Row /\ y \in Row /\ Rank(x, selected) = m /\ Rank(y, selected) = n
      BY <1>1, <2>1
    <3> HIDE DEF x, y
    <3>2. created[y] < created[x] => Rank(y, selected) < Rank(x, selected)
      BY <1>1, <2>1, RankBounds DEF x, y
    <3>3. ~(created[y] < created[x])
      BY <1>1, <2>3, <3>1, <3>2
    <3>4. created[x] <= created[y] /\ x # y
      BY <1>1, <2>3, <3>1, <3>3
    <3> QED
      BY <3>4 DEF x, y
  <2> QED
    BY <1>1, <1>4, <2>2, <2>3 DEF Orders
<1> QED
  BY <1>4, <1>5

LEMMA DoneStep == ASSUME Running, PageInv, [Next]_vars PROVE DoneInv'
<1>0. /\ TypeOK /\ selected \in SUBSET Row
      /\ FileInv /\ FreshInv /\ RequestInv /\ EntityInv /\ DoneInv
  BY DEF Running, Protocol, TypeOK, RowInv, RunInv, PageInv
<1> DEFINE Over == job.status = "COMPLETED" \/ polled # NoRead
\* The file of a job that was over stays what it is.
<1>1. ASSUME Over, UNCHANGED <<tableVars, base>>, job'.total = job.total, job'.lines = job.lines
      PROVE  DoneInv'
  <2>1. Orders(selected)' = Orders(selected)
    BY <1>1 DEF Orders
  <2>2. left \in Nat /\ Whole /\ Exact
    BY <1>0, <1>1 DEF DoneInv
  <2>3. Whole'
    BY <1>1, <2>2 DEF Whole
  <2>4. Exact'
    BY <1>1, <2>1, <2>2 DEF Exact
  <2> QED
    BY <1>1, <2>2, <2>3, <2>4 DEF DoneInv
<1>2. ASSUME ~Over' PROVE DoneInv'
  BY <1>2 DEF DoneInv
<1>3. CASE Quiet
  BY <1>1, <1>2, <1>3 DEF Quiet, SameRow, runVars
<1>4. CASE CreateExport
  <2>1. job'.status = "PENDING"
    BY <1>0, <1>4 DEF CreateExport, TypeOK, ExportJob
  <2> QED
    BY <1>0, <1>2, <1>4, <2>1 DEF CreateExport, RequestInv
<1>5. CASE PollReads
  BY <1>1, <1>5 DEF PollReads, runVars
<1>6. CASE PollSaves
  <2>1. job'.total = job.total /\ job'.lines = job.lines /\ Over
    BY <1>0, <1>6, PolledRow DEF PollSaves, SameRow, FileInv
  <2> QED
    BY <1>1, <1>6, <2>1 DEF PollSaves, runVars
<1>7. CASE FindStaleJob
  BY <1>1, <1>2, <1>7 DEF FindStaleJob, runVars
<1>8. CASE GivesUp
  <2>1. job'.status # "COMPLETED"
    BY <1>8 DEF GivesUp
  <2> QED
    BY <1>1, <1>2, <1>8, <2>1 DEF GivesUp, runVars
\* Nobody edits the table of a job that is over: its run has read the last page.
<1>9. CASE TableChanges
  <2>1. UNCHANGED <<job, polled>> /\ \E w \in Worker : Writing(w)
    BY <1>0, <1>9, TableSteps DEF Writing, Counting, Streaming
  <2> QED
    BY <1>0, <1>2, <2>1 DEF FileInv
<1>10. ASSUME NEW w \in Worker, StartProcessing(w) \/ StartsUnseen(w) PROVE DoneInv'
  <2>1. job'.status = "PROCESSING" /\ polled' = NoRead
    BY <1>0, <1>10, StartedRow DEF StartProcessing, StartsUnseen, MayStart, FreshInv
  <2> QED
    BY <1>2, <2>1
<1>11. ASSUME NEW w \in Worker, CountRecords(w) \/ FetchPage(w) \/ SaveTotal(w) PROVE DoneInv'
  <2>1. job'.status # "COMPLETED" /\ polled' = NoRead
    BY <1>0, <1>11 DEF CountRecords, FetchPage, SaveTotal, FileInv, EntityInv, Writing, Counting, Streaming
  <2> QED
    BY <1>2, <2>1
<1>12. ASSUME NEW w \in Worker, Finishes(w) PROVE DoneInv'
  <2>1. /\ pc[w] = "complete" /\ UNCHANGED <<tableVars, base>>
        /\ job'.total = job.total /\ job'.lines = file[w]
    BY <1>12 DEF Finishes, runVars
  <2>2. /\ CountInv /\ CoverInv /\ PrefixInv
        /\ Streaming(w) /\ Executing(w)
    BY <2>1 DEF PageInv, Streaming, Executing
  <2>3. job.total = Cardinality(base[w]) /\ left \in Nat
        /\ \A v \in Worker \ {w} : base[v] = {}
    BY <2>2 DEF CountInv
  <2>4. \A v \in Worker \ {w} : Cardinality({r \in base[v] : ~In(r, file[w])}) = 0
    <3> TAKE v \in Worker \ {w}
    <3>1. {r \in base[v] : ~In(r, file[w])} = {}
      BY <2>3
    <3> QED
      BY <3>1, FS_EmptySet
  <2>5. Whole'
    <3>1. Len(file[w]) + left >= job.total /\ (~tied => Cardinality(Lost(w)) <= left)
      BY <2>1, <2>2, <2>3 DEF CoverInv
    <3>2. ASSUME NEW v \in Worker, ~tied PROVE Cardinality({r \in base[v] : ~In(r, file[w])}) <= left
      <4>1. CASE v = w
        BY <3>1, <3>2, <4>1 DEF Lost
      <4>2. CASE v # w
        BY <2>3, <2>4, <4>2
      <4> QED
        BY <4>1, <4>2
    <3> QED
      BY <2>1, <3>1, <3>2 DEF Whole
  <2>6. Orders(selected)' = Orders(selected)
    BY <2>1 DEF Orders
  <2>7. Exact'
    BY <1>0, <2>1, <2>2, <2>3, <2>6, FileIsTable DEF Exact
  <2> QED
    BY <2>1, <2>3, <2>5, <2>7 DEF DoneInv
<1> QED
  BY <1>3, <1>4, <1>5, <1>6, <1>7, <1>8, <1>9, <1>10, <1>11, <1>12, <1>0, StepKinds DEF Loud

LEMMA PageInit == Init => PageInv
<1> SUFFICES ASSUME Init PROVE PageInv
  OBVIOUS
<1>1. TiedInv
  BY DEF Init, TiedInv
<1>2. (\A w \in Worker : pc[w] = "idle" /\ base[w] = {}) /\ polled = NoRead /\ job.status = "none"
  BY DEF Init, NoJob
<1>3. CountInv /\ CoverInv /\ PrefixInv /\ DoneInv
  BY <1>2 DEF CountInv, CoverInv, PrefixInv, DoneInv, Counting, Streaming, Executing
<1> QED
  BY <1>1, <1>3 DEF PageInv

LEMMA PagesHold == ASSUME ~RestartStaleJobs PROVE Spec => [](Protocol /\ PageInv)
<1>1. Init => PageInv
  BY PageInit
<1>2. Protocol /\ PageInv /\ [Next]_vars => PageInv'
  BY TiedStep, CountStep, FileStep, DoneStep DEF PageInv, Running, Protocol
<1> QED
  BY <1>1, <1>2, ProtocolHolds, PTL DEF Spec

\* FileIsWhole: paging by OFFSET costs one counted row at most for each row that left the
\* selection between the pages, and none for those that came, if creation times differ; a
\* file is short by one line at most for each that left.
THEOREM WholeTheorem == ASSUME ~RestartStaleJobs PROVE Spec => []FileIsWhole
<1>1. Protocol /\ PageInv => FileIsWhole
  <2> SUFFICES ASSUME PageInv, job.status = "COMPLETED" PROVE FileIsWhole
    BY DEF FileIsWhole
  <2>1. \A w \in Worker : {r \in base[w] : ~In(r, job.lines)}
                         = {r \in base[w] : \A n \in DOMAIN job.lines : job.lines[n] # r}
    BY DEF In
  <2> QED
    BY <2>1 DEF PageInv, DoneInv, Whole, FileIsWhole
<1> QED
  BY <1>1, PagesHold, PTL

\* FileIsExact: if the selection is what was counted and no row has left it, whatever
\* came and went before, the file is the selection, once and in order.
THEOREM ExactTheorem == ASSUME ~RestartStaleJobs PROVE Spec => []FileIsExact
<1>1. Protocol /\ PageInv => FileIsExact
  BY DEF PageInv, DoneInv, Exact, FileIsExact
<1> QED
  BY <1>1, PagesHold, PTL

-----------------------------------------------------------------------------
(* What clients may rely on: ExportJobs implements ExportLifecycle *)

\* Leaf proofs below only need to know which workers execute.
AgedInv ==
  "slow" \notin Faults =>
    /\ \A w \in Worker : Executing(w) =>
         /\ aged[w] = 0
         /\ \/ job.status = "PROCESSING" /\ job.by = w
            \/ pc[w] = "fail" /\ job.status = "COMPLETED"
    /\ \A w \in Worker : Counting(w) => entity[w].by = w
    /\ found # NoRead => job.status = "PROCESSING" /\ \A w \in Worker : ~Executing(w)
    /\ polled # NoRead => job.status = "COMPLETED"

\* As long as no row has left, a file has nothing but selected rows.
RowsInv ==
  \A w \in Worker : Streaming(w) /\ left = 0 => \A n \in DOMAIN file[w] : file[w][n] \in selected

PollInv == polled # NoRead => job.status \in Terminal

LEMMA AgedStep ==
  ASSUME TypeOK, [Next]_vars, NEW w \in Worker, Executing(w)', "slow" \notin Faults
  PROVE  aged'[w] = 0 \/ (aged'[w] = aged[w] /\ Executing(w))
<1>0. /\ pc \in [Worker -> {"idle", "acquire", "transition", "count", "save", "stream", "complete",
                            "fail", "release"}]
      /\ aged \in [Worker -> 0..2]
  BY DEF TypeOK
<1> DEFINE Goal == aged'[w] = 0 \/ (aged'[w] = aged[w] /\ Executing(w))
<1> USE <1>0 DEF Executing, GoTo
<1>1. ASSUME NEW v \in Worker, StartProcessing(v) PROVE Goal
  BY <1>1 DEF StartProcessing
<1>2. ASSUME NEW v \in Worker, StartRefused(v) PROVE Goal
  BY <1>2 DEF StartRefused
<1>3. ASSUME NEW v \in Worker, RunAges(v) PROVE Goal
  BY <1>3 DEF RunAges
<1>4. ASSUME NEW v \in Worker,
             Deliver(v) \/ AcquireLock(v) \/ AcquireRefused(v) \/ CountRecords(v) \/ SaveTotal(v)
               \/ FetchPage(v) \/ SendProgress(v)
      PROVE  Goal
  BY <1>4 DEF Deliver, AcquireLock, AcquireRefused, CountRecords, SaveTotal, FetchPage, SendProgress
<1>5. ASSUME NEW v \in Worker,
             ExportFails(v) \/ FinalizeCompleted(v) \/ FinalizeError(v) \/ FinalizeFailed(v)
               \/ ReleaseLock(v) \/ WorkerCrashes(v)
      PROVE  Goal
  BY <1>5 DEF ExportFails, FinalizeCompleted, FinalizeError, FinalizeFailed, ReleaseLock, WorkerCrashes
<1>6. CASE \/ CreateExport \/ Enqueue \/ TableChanges
           \/ \E n \in late : ProgressArrives(n)
           \/ LockExpires \/ PollReads \/ PollSaves \/ LinkAges \/ CleanupStep \/ UNCHANGED vars
  BY <1>6 DEF CreateExport, Enqueue, TableChanges, Enter, Leave, Edit, ProgressArrives, LockExpires, PollReads, PollSaves, LinkAges,
              CleanupStep, FindStaleJob, HandleStaleJob, vars
<1> QED
  BY <1>1, <1>2, <1>3, <1>4, <1>5, <1>6 DEF Next, WorkerStep

\* A step that leaves the status, or makes it what the run that executes makes it.
LEMMA OwnStep == ASSUME Running, AgedInv, PollInv, [Next]_vars PROVE AgedInv' /\ PollInv'
<1>0. /\ pc \in [Worker -> {"idle", "acquire", "transition", "count", "save", "stream", "complete",
                            "fail", "release"}]
      /\ entity \in [Worker -> ExportJob] /\ aged \in [Worker -> 0..2]
      /\ TypeOK /\ LockColumns /\ EntityInv /\ RequestInv /\ OneExecution /\ FreshInv /\ FileInv
  BY DEF Running, Protocol, TypeOK, RowInv, RunInv
<1>a. ASSUME "slow" \notin Faults, NEW w \in Worker, Executing(w)'
      PROVE  aged'[w] = 0 \/ (aged'[w] = aged[w] /\ Executing(w))
  BY <1>0, <1>a, AgedStep
<1> USE <1>0 DEF AgedInv, PollInv, Executing, Counting, GoTo, runVars, Terminal
<1> DEFINE Goal == AgedInv' /\ PollInv'
<1>1. CASE Quiet
  BY <1>1, <1>a DEF Quiet, SameRow, NobodyStarts
<1>2. CASE CreateExport
  <2>1. job'.status = "PENDING" /\ job.status = "none"
    BY <1>2 DEF CreateExport, RequestInv, TypeOK, ExportJob
  <2> QED
    BY <1>2, <2>1 DEF CreateExport, RequestInv
<1>3. CASE PollReads
  BY <1>3, <1>a DEF PollReads
<1>4. CASE PollSaves
  BY <1>4, <1>a, PolledRow DEF PollSaves, SameRow, EntityInv
<1>5. CASE FindStaleJob
  <2>1. job.status = "PROCESSING" /\ aged[job.by] # 0
    BY <1>5 DEF FindStaleJob, Stale, LockColumns
  <2> QED
    BY <1>5, <1>a, <2>1 DEF FindStaleJob
<1>6. CASE GivesUp
  <2>1. job'.status = "FAILED" /\ polled' = polled
    BY <1>6 DEF GivesUp, Running
  <2>2. ASSUME "slow" \notin Faults PROVE \A w \in Worker : ~Executing(w)'
    BY <1>6, <2>2 DEF GivesUp, NobodyStarts, OneExecution
  <2>3. ASSUME "slow" \notin Faults PROVE found' = NoRead /\ polled = NoRead
    BY <1>6, <2>3 DEF GivesUp, NobodyStarts
  <2> QED
    BY <2>1, <2>2, <2>3
<1>7. ASSUME TableChanges PROVE Goal
  BY <1>7, <1>a DEF TableChanges, Enter, Leave, Edit
<1>8. ASSUME NEW w \in Worker, StartProcessing(w) PROVE Goal
  BY <1>8, <1>a, StartedRow DEF StartProcessing, MayStart, FreshInv
<1>9. ASSUME NEW w \in Worker, StartsUnseen(w) PROVE Goal
  BY <1>9, <1>a, StartedRow DEF StartsUnseen, NobodyStarts, FreshInv
<1>10. ASSUME NEW w \in Worker, CountRecords(w) PROVE Goal
  <2>1. entity'[w].by = entity[w].by
    BY <1>10 DEF CountRecords, ExportJob
  <2> QED
    BY <1>10, <1>a, <2>1 DEF CountRecords
<1>11. ASSUME NEW w \in Worker, SaveTotal(w) PROVE Goal
  BY <1>11, <1>a DEF SaveTotal, EntityInv, OneExecution, FileInv, Writing
<1>12. ASSUME NEW w \in Worker, FetchPage(w) PROVE Goal
  BY <1>12, <1>a DEF FetchPage
<1>13. ASSUME NEW w \in Worker, Finishes(w) PROVE Goal
  BY <1>13, <1>a DEF Finishes, NobodyStarts, OneExecution
<1> QED
  BY <1>1, <1>2, <1>3, <1>4, <1>5, <1>6, <1>7, <1>8, <1>9, <1>10, <1>11, <1>12, <1>13, StepKinds
     DEF Loud

LEMMA RowsStep == ASSUME Running, PageInv, RowsInv, [Next]_vars PROVE RowsInv'
<1>0. /\ pc \in [Worker -> {"idle", "acquire", "transition", "count", "save", "stream", "complete",
                            "fail", "release"}]
      /\ file \in [Worker -> Seq(Row)] /\ base \in [Worker -> SUBSET Row] /\ TypeOK /\ CountInv
  BY DEF Running, Protocol, TypeOK, PageInv
<1> USE <1>0 DEF RowsInv, Streaming, GoTo, runVars
<1>1. CASE Quiet \/ GivesUp \/ \E w \in Worker : StartsUnseen(w) \/ Finishes(w)
  BY <1>1 DEF Quiet, GivesUp, StartsUnseen, Finishes, NobodyStarts
<1>2. CASE CreateExport \/ PollReads \/ PollSaves \/ FindStaleJob
  BY <1>2 DEF CreateExport, PollReads, PollSaves, FindStaleJob
<1>3. CASE TableChanges
  <2>1. UNCHANGED <<pc, file>>
    BY <1>3, TableSteps
  <2>2. (selected \subseteq selected' /\ left' = left) \/ left' = left + 1
    BY <1>3, TableSteps
  <2>3. \A w \in Worker : Streaming(w) => left \in Nat
    BY DEF CountInv
  <2> QED
    BY <2>1, <2>2, <2>3
<1>4. ASSUME NEW w \in Worker, StartProcessing(w) PROVE RowsInv'
  BY <1>4 DEF StartProcessing
<1>5. ASSUME NEW w \in Worker, CountRecords(w) PROVE RowsInv'
  <2>1. \A v \in Worker : ~Streaming(v)'
    BY <1>5 DEF CountRecords, Running, Protocol, RunInv, OneExecution, Executing
  <2> QED
    BY <2>1
<1>6. ASSUME NEW w \in Worker, SaveTotal(w) PROVE RowsInv'
  <2>1. file[w] = <<>>
    BY <1>6 DEF SaveTotal, CountInv, Counting
  <2> QED
    BY <1>6, <2>1 DEF SaveTotal
<1>7. ASSUME NEW w \in Worker, FetchPage(w) PROVE RowsInv'
  <2>1. PICK order \in Orders(selected) : file' = [file EXCEPT ![w] = @ \o Page(w, order)]
    BY <1>7 DEF FetchPage
  <2>2. pc[w] = "stream" /\ UNCHANGED <<tableVars, base>>
        /\ \A v \in Worker \ {w} : pc'[v] = pc[v] /\ file'[v] = file[v]
    BY <1>7 DEF FetchPage
  <2>3. LongerBy(w, order, file'[w])
    BY <2>1, PageRows
  <2>4. Cardinality(selected) \in Nat /\ selected \in SUBSET Row
    BY RowsFinite DEF TypeOK
  <2>5. ASSUME left = 0, NEW n \in DOMAIN file'[w] PROVE file'[w][n] \in selected
    <3>1. n \in 1..Len(file'[w]) /\ Len(file[w]) \in Nat /\ Len(file'[w]) \in Nat
      BY <2>3 DEF LongerBy
    <3>2. CASE n <= Len(file[w])
      <4>1. n \in 1..Len(file[w]) /\ n \in DOMAIN file[w]
        BY <3>1, <3>2
      <4> QED
        BY <2>2, <2>3, <2>5, <4>1 DEF LongerBy
    <3>3. CASE n > Len(file[w])
      <4>1. n \in (Len(file[w]) + 1)..Len(file'[w])
        BY <3>1, <3>3
      <4>2. n <= Cardinality(selected) /\ file'[w][n] = order[n]
        BY <2>3, <4>1 DEF LongerBy
      <4>3. n \in 1..Cardinality(selected) /\ order \in [1..Cardinality(selected) -> selected]
        BY <2>4, <3>1, <4>2 DEF Orders
      <4> QED
        BY <4>2, <4>3
    <3> QED
      BY <3>1, <3>2, <3>3
  <2> QED
    BY <1>7, <2>2, <2>5 DEF FetchPage
<1> QED
  BY <1>1, <1>2, <1>3, <1>4, <1>5, <1>6, <1>7, StepKinds DEF Loud

\* Together: everything that the steps of the abstract specification ask for.
Kept == Protocol /\ PageInv /\ AgedInv /\ PollInv /\ RowsInv

LEMMA KeptHolds == ASSUME ~RestartStaleJobs PROVE Spec => []Kept
<1>1. Init => AgedInv /\ PollInv /\ RowsInv
  BY DEF Init, AgedInv, PollInv, RowsInv, Executing, Counting, Streaming
<1>2. Protocol /\ PageInv /\ AgedInv /\ PollInv /\ RowsInv /\ [Next]_vars
      => AgedInv' /\ PollInv' /\ RowsInv'
  BY OwnStep, RowsStep DEF Running
<1> QED
  BY <1>1, <1>2, PagesHold, PTL DEF Spec, Kept

\* The sizes of sets are the same for both specifications.
LEMMA SameSize == ASSUME NEW S PROVE Lifecycle!Cardinality(S) = Cardinality(S)
  BY DEF Cardinality, Lifecycle!Cardinality

\* The file of a run that is about to finish is whole as ExportLifecycle understands it.
LEMMA FileFulfils ==
  ASSUME Running, Kept, NEW w \in Worker, pc[w] = "complete"
  PROVE  Lifecycle!Whole(file[w]) /\ Lifecycle!Promised
<1>1. /\ CountInv /\ CoverInv /\ PrefixInv /\ RowsInv
      /\ Streaming(w) /\ Executing(w)
  BY DEF Kept, PageInv, Streaming, Executing
<1> DEFINE promised == UNION {base[v] : v \in Worker}
<1>2. promised = base[w] /\ left \in Nat
  <2>1. left \in Nat /\ \A v \in Worker \ {w} : base[v] = {}
    BY <1>1 DEF CountInv
  <2> QED
    BY <2>1
<1>3. Len(file[w]) + left >= Cardinality(promised)
  BY <1>1, <1>2 DEF CoverInv
<1>4. left = 0 => \A n \in DOMAIN file[w] : file[w][n] \in selected
  BY <1>1 DEF RowsInv
<1>5. ~tied => Cardinality(Lifecycle!Missing(file[w])) <= left
  <2>1. Lifecycle!Missing(file[w]) = Lost(w)
    BY <1>2 DEF Lifecycle!Missing, Lost, In
  <2> QED
    BY <1>1, <2>1 DEF CoverInv
<1>6. ASSUME left = 0, selected = promised
      PROVE  Len(file[w]) = Cardinality(selected) /\ (~tied => Lifecycle!InOrder(file[w]))
  <2>1. Len(file[w]) = Cardinality(selected) /\ (~tied => file[w] \in Orders(selected))
    BY <1>1, <1>2, <1>6, FileIsTable
  <2> QED
    BY <2>1 DEF Orders, Lifecycle!InOrder
<1>7. Lifecycle!Whole(file[w])
  BY <1>3, <1>4, <1>5, <1>6, SameSize DEF Lifecycle!Whole
<1> QED
  BY <1>2, <1>7 DEF Lifecycle!Promised

LEMMA LifecycleInit == Init => Lifecycle!Init
<1> SUFFICES ASSUME Init PROVE Lifecycle!Init
  OBVIOUS
<1>1. UNION {base[w] : w \in Worker} = {}
  BY DEF Init
<1> QED
  BY <1>1 DEF Init, NoJob, NotCounted, Untied, Lifecycle!Init, Lifecycle!Distinct

\* What a client has read is as whole as it was.
LEMMA PollMissing ==
  ASSUME CountInv, DoneInv, polled # NoRead, ~tied
  PROVE  Cardinality(Lifecycle!Missing(job.lines)) <= left
<1>1. left \in Nat /\ Whole
  BY DEF DoneInv
<1>2. CASE \E w \in Worker : base[w] # {}
  <2>1. PICK w \in Worker : base[w] # {}
    BY <1>2
  <2>2. Lifecycle!Missing(job.lines) = {r \in base[w] : ~In(r, job.lines)}
    <3>1. \A v \in Worker \ {w} : base[v] = {}
      BY <2>1 DEF CountInv
    <3>2. UNION {base[v] : v \in Worker} = base[w]
      BY <3>1
    <3> QED
      BY <3>2 DEF Lifecycle!Missing, In
  <2> QED
    BY <1>1, <2>2 DEF Whole
<1>3. CASE \A w \in Worker : base[w] = {}
  <2>1. Lifecycle!Missing(job.lines) = {}
    BY <1>3 DEF Lifecycle!Missing
  <2> QED
    BY <1>1, <2>1, FS_EmptySet
<1> QED
  BY <1>2, <1>3

\* Every step of an export is one that ExportLifecycle allows, or changes nothing of it.
LEMMA LifecycleStep == ASSUME Running, Kept, [Next]_vars PROVE [Lifecycle!Next]_(Lifecycle!vars)
<1> DEFINE Goal == [Lifecycle!Next]_(Lifecycle!vars)
           promised == UNION {base[w] : w \in Worker}
<1>0. /\ pc \in [Worker -> {"idle", "acquire", "transition", "count", "save", "stream", "complete",
                            "fail", "release"}]
      /\ base \in [Worker -> SUBSET Row]
      /\ TypeOK /\ LockColumns /\ EntityInv /\ RequestInv /\ OneExecution /\ FreshInv /\ FileInv
      /\ AgedInv /\ PollInv /\ DoneInv /\ CountInv
      /\ job.status \in {"none", "PENDING", "PROCESSING", "COMPLETED", "FAILED"}
  BY DEF Running, Kept, Protocol, TypeOK, RowInv, RunInv, PageInv, ExportJob, JobStatus, Terminal
<1> USE <1>0 DEF Lifecycle!Next, Lifecycle!vars, Lifecycle!table, Lifecycle!Become, runVars
\* Nothing but the status changes.
<1>1. ASSUME base' = base PROVE promised' = promised
  BY <1>1
<1>2. CASE Quiet \/ PollReads \/ FindStaleJob
  BY <1>1, <1>2 DEF Quiet, SameRow, PollReads, FindStaleJob
<1>3. CASE CreateExport
  <2>1. job'.status = "PENDING" /\ job.status = "none" /\ job'.lines = job.lines
    BY <1>3 DEF CreateExport, RequestInv, TypeOK, ExportJob
  <2> QED
    BY <1>1, <1>3, <2>1 DEF CreateExport, Lifecycle!Accept
<1>4. CASE PollSaves
  <2>1. CASE SameRow
    BY <1>1, <1>4, <2>1 DEF PollSaves, SameRow
  <2>2. CASE ~SameRow
    <3>1. job'.status = "COMPLETED" /\ job'.lines = job.lines /\ UNCHANGED <<tableVars, base>>
          /\ polled # NoRead
      BY <1>4, <2>2, PolledRow DEF PollSaves, EntityInv, FileInv
    <3>2. job.status = "COMPLETED" \/ ("slow" \in Faults /\ job.status = "FAILED")
      BY <3>1 DEF AgedInv, PollInv, Terminal
    <3>3. ~tied => Cardinality(Lifecycle!Missing(job.lines)) <= left
      BY <3>1, PollMissing
    <3> QED
      BY <1>1, <3>1, <3>2, <3>3, SameSize DEF Lifecycle!Return
  <2> QED
    BY <2>1, <2>2
<1>5. CASE GivesUp
  <2>1. job'.status = "FAILED" /\ job'.lines = job.lines /\ UNCHANGED <<tableVars, base>>
    BY <1>5 DEF GivesUp, Running
  <2>2. \/ job.status = "PROCESSING"
        \/ "slow" \in Faults /\ job.status \in {"COMPLETED", "FAILED"}
    BY <1>5 DEF GivesUp, AgedInv, FreshInv
  <2> QED
    BY <1>1, <2>1, <2>2 DEF Lifecycle!GiveUp, Lifecycle!Doubt
<1>6. CASE TableChanges
  <2>1. UNCHANGED <<job, base>> /\ Lifecycle!Promised
    <3>1. PICK w \in Worker : pc[w] \in {"save", "stream"}
      BY <1>6, TableSteps
    <3>2. left \in Nat
      BY <3>1 DEF CountInv, Streaming
    <3> QED
      BY <1>6, <3>2, TableSteps DEF Lifecycle!Promised
  <2>2. promised' = promised
    BY <1>1, <2>1
  <2>3. PICK r \in Row :
          \/ /\ r \notin selected /\ selected' = selected \cup {r} /\ left' = left
             /\ \E t \in Nat : created' = [created EXCEPT ![r] = t]
             /\ tied' = (tied \/ ~Untied')
          \/ /\ r \in selected /\ selected' = selected \ {r} /\ left' = left + 1
             /\ UNCHANGED <<created, tied>>
    BY <1>6, TableSteps
  <2>4. CASE /\ r \notin selected /\ selected' = selected \cup {r} /\ left' = left
             /\ \E t \in Nat : created' = [created EXCEPT ![r] = t]
             /\ tied' = (tied \/ ~Untied')
    <3>1. created'[r] \in Nat /\ created' = [created EXCEPT ![r] = created'[r]]
      BY <2>4 DEF TypeOK
    <3>2. Untied' <=> Lifecycle!Distinct'
      BY DEF Untied, Lifecycle!Distinct
    <3>3. Lifecycle!Enter(r)
      BY <2>1, <2>2, <2>4, <3>1, <3>2 DEF Lifecycle!Enter, Lifecycle!Edit
    <3> QED
      BY <3>3
  <2>5. CASE r \in selected /\ selected' = selected \ {r} /\ left' = left + 1 /\ UNCHANGED <<created, tied>>
    <3>1. Lifecycle!Leave(r)
      BY <2>1, <2>2, <2>5 DEF Lifecycle!Leave, Lifecycle!Edit
    <3> QED
      BY <3>1
  <2> QED
    BY <2>3, <2>4, <2>5
<1>7. ASSUME NEW w \in Worker, StartProcessing(w) \/ StartsUnseen(w) PROVE Goal
  BY <1>1, <1>7, StartedRow DEF StartProcessing, StartsUnseen, MayStart, Lifecycle!Claim
<1>8. ASSUME NEW w \in Worker, CountRecords(w) PROVE Goal
  <2>1. /\ Executing(w) /\ Counting(w) /\ Writing(w) /\ pc[w] = "count"
        /\ base' = [base EXCEPT ![w] = selected] /\ UNCHANGED <<created, selected, job>>
        /\ left' = 0 /\ tied' = ~Untied
    BY <1>8 DEF CountRecords, Executing, Counting, Writing
  <2>2. promised = {} /\ promised' = selected /\ left = -1
    <3>1. (\A v \in Worker : base[v] = {}) /\ left = -1
      BY <2>1 DEF CountInv, NotCounted
    <3>2. base'[w] = selected /\ \A v \in Worker \ {w} : base'[v] = {}
      BY <2>1, <3>1
    <3> QED
      BY <3>1, <3>2
  <2>3. job.status = "PROCESSING" \/ ("slow" \in Faults /\ job.status = "FAILED")
    BY <2>1 DEF AgedInv, FreshInv, FileInv
  <2>4. ~Lifecycle!Promised /\ (Untied <=> Lifecycle!Distinct)
    BY <2>2 DEF Lifecycle!Promised, Untied, Lifecycle!Distinct
  <2> QED
    BY <2>1, <2>2, <2>3, <2>4 DEF Lifecycle!Count, Lifecycle!InHand
<1>9. ASSUME NEW w \in Worker, SaveTotal(w) PROVE Goal
  <2>1. /\ Executing(w) /\ Counting(w) /\ Writing(w) /\ job' = entity[w] /\ UNCHANGED <<tableVars, base>>
    BY <1>9 DEF SaveTotal, Executing, Counting, Writing
  <2>2. job'.status = "PROCESSING" /\ job.lines = <<>> /\ job'.lines = <<>>
    BY <2>1 DEF EntityInv, FileInv
  <2>3. job.status = "PROCESSING" \/ ("slow" \in Faults /\ job.status = "FAILED")
    BY <2>1, <1>9 DEF AgedInv, FreshInv, FileInv, SaveTotal
  <2> QED
    BY <1>1, <2>1, <2>2, <2>3 DEF Lifecycle!Return
<1>10. ASSUME NEW w \in Worker, FetchPage(w) PROVE Goal
  BY <1>1, <1>10 DEF FetchPage
<1>11. ASSUME NEW w \in Worker, Finishes(w) PROVE Goal
  <2>1. /\ pc[w] = "complete" /\ Writing(w) /\ job.status = "PROCESSING" /\ job'.status = "COMPLETED"
        /\ job'.lines = file[w] /\ UNCHANGED <<tableVars, base>>
    BY <1>11 DEF Finishes, Writing, Streaming
  <2>2. job.lines = <<>> /\ Lifecycle!Whole(file[w]) /\ Lifecycle!Promised
    BY <2>1, FileFulfils DEF FileInv
  <2> QED
    BY <1>1, <2>1, <2>2 DEF Lifecycle!Deliver
<1> QED
  BY <1>2, <1>3, <1>4, <1>5, <1>6, <1>7, <1>8, <1>9, <1>10, <1>11, StepKinds DEF Loud

\* ImplementsLifecycle: without restarts a client sees one document, written once and whole
\* but for one row to each that left, whatever comes, leaves, crashes or is saved late, for
\* any pages, rows and workers.
THEOREM LifecycleTheorem == ASSUME ~RestartStaleJobs PROVE Spec => ImplementsLifecycle
<1>1. Kept /\ [Next]_vars => [Lifecycle!Next]_(Lifecycle!vars)
  BY LifecycleStep DEF Running, Kept
<1> QED
  BY <1>1, LifecycleInit, KeptHolds, PTL DEF Spec, ImplementsLifecycle, Lifecycle!Spec

-----------------------------------------------------------------------------
(* The lock of the job is used as LockService lets it *)

\* A worker's token is at the key only while the worker is inside the try block.
TokenInv == \A w \in Worker : lock = w => w \in Holding

\* Steps that touch neither the key nor the workers.
Aside == UNCHANGED <<lock, pc>>

\* Steps of a worker that holds the lock before and after.
Inside == {"transition", "count", "save", "stream", "complete", "fail", "release"}

InsideStep(w) ==
  /\ pc[w] \in Inside /\ UNCHANGED lock
  /\ \E step \in Inside : GoTo(w, step)

LEMMA StepsInside ==
  ASSUME NEW w \in Worker,
         \/ StartProcessing(w) \/ StartRefused(w) \/ CountRecords(w) \/ SaveTotal(w)
         \/ FetchPage(w) \/ ExportFails(w) \/ FinalizeCompleted(w) \/ FinalizeError(w)
         \/ FinalizeFailed(w)
  PROVE  InsideStep(w)
<1> USE DEF InsideStep, Inside
<1>1. CASE StartProcessing(w) \/ StartRefused(w) \/ CountRecords(w) \/ SaveTotal(w)
  BY <1>1 DEF StartProcessing, StartRefused, CountRecords, SaveTotal
<1>2. CASE FetchPage(w)
  BY <1>2 DEF FetchPage
<1>3. CASE ExportFails(w) \/ FinalizeCompleted(w) \/ FinalizeError(w) \/ FinalizeFailed(w)
  BY <1>3 DEF ExportFails, FinalizeCompleted, FinalizeError, FinalizeFailed
<1> QED
  BY <1>1, <1>2, <1>3

LEMMA StepsAside ==
  ASSUME \/ CreateExport \/ Enqueue \/ PollReads \/ PollSaves \/ LinkAges
         \/ CleanupStep \/ UNCHANGED vars
         \/ TableChanges
         \/ \E w \in Worker : SendProgress(w) \/ RunAges(w)
         \/ \E n \in late : ProgressArrives(n)
  PROVE  Aside
BY DEF Aside, CreateExport, Enqueue, PollReads, PollSaves, LinkAges, CleanupStep, FindStaleJob,
   HandleStaleJob, vars, TableChanges, Enter, Leave, Edit, SendProgress, RunAges, ProgressArrives

\* The key gets a worker's token when the worker enters, and loses it when it leaves.
LEMMA TokenInvStep == ASSUME TypeOK, TokenInv, [Next]_vars PROVE TokenInv'
<1> USE NamesAssumption DEF TokenInv, Holding, TypeOK, GoTo
<1>1. ASSUME NEW w \in Worker, Deliver(w) PROVE TokenInv'
  BY <1>1 DEF Deliver
<1>2. ASSUME NEW w \in Worker, AcquireLock(w) \/ AcquireRefused(w) PROVE TokenInv'
  BY <1>2 DEF AcquireLock, AcquireRefused
<1>3. ASSUME NEW w \in Worker, InsideStep(w) PROVE TokenInv'
  BY <1>3 DEF InsideStep, Inside
<1>4. ASSUME NEW w \in Worker, ReleaseLock(w) \/ WorkerCrashes(w) PROVE TokenInv'
  BY <1>4 DEF ReleaseLock, WorkerCrashes
<1>5. CASE LockExpires
  BY <1>5 DEF LockExpires
<1>6. CASE Aside
  BY <1>6 DEF Aside
<1> QED
  BY <1>1, <1>2, <1>3, <1>4, <1>5, <1>6, StepsInside, StepsAside DEF Next, WorkerStep

\* Every step is one of the lock service or does nothing at the key.
LEMMA KeyStep == ASSUME TypeOK, TokenInv, [Next]_vars PROVE [Lock!Next]_(Lock!vars)
<1> USE NamesAssumption DEF Holding, TypeOK, GoTo, Lock!vars
<1>1. ASSUME NEW w \in Worker, Deliver(w) PROVE [Lock!Next]_(Lock!vars)
  <2>1. Holding' = Holding
    BY <1>1 DEF Deliver
  <2> QED
    BY <1>1, <2>1 DEF Deliver
<1>2. ASSUME NEW w \in Worker, AcquireLock(w) PROVE [Lock!Next]_(Lock!vars)
  <2>1. Holding' = Holding \cup {w} /\ w \notin Holding
    BY <1>2 DEF AcquireLock
  <2>2. Lock!Acquire(w)
    BY <1>2, <2>1 DEF AcquireLock, Lock!Acquire
  <2> QED
    BY <2>2 DEF Lock!Next
<1>3. ASSUME NEW w \in Worker, AcquireRefused(w) PROVE [Lock!Next]_(Lock!vars)
  <2>1. Holding' = Holding
    BY <1>3 DEF AcquireRefused
  <2> QED
    BY <1>3, <2>1 DEF AcquireRefused, Lock!Next, Lock!Leak
<1>4. ASSUME NEW w \in Worker, InsideStep(w) PROVE [Lock!Next]_(Lock!vars)
  <2>1. Holding' = Holding
    BY <1>4 DEF InsideStep, Inside
  <2> QED
    BY <1>4, <2>1 DEF InsideStep
<1>5. ASSUME NEW w \in Worker, ReleaseLock(w) \/ WorkerCrashes(w) PROVE [Lock!Next]_(Lock!vars)
  <2>1. lock' \in IF lock = w THEN {NoWorker, Orphan} ELSE {lock}
    BY <1>5 DEF ReleaseLock, WorkerCrashes
  <2>2. Holding' = Holding \ {w}
    BY <1>5 DEF ReleaseLock, WorkerCrashes
  <2>3. CASE w \in Holding
    <3>1. Lock!Leave({w})
      BY <2>1, <2>2 DEF Lock!Leave
    <3> QED
      BY <2>3, <3>1 DEF Lock!Next
  <2>4. CASE w \notin Holding
    BY <2>1, <2>2, <2>4 DEF TokenInv
  <2> QED
    BY <2>3, <2>4
<1>6. CASE LockExpires
  <2>1. Holding' = Holding
    BY <1>6 DEF LockExpires
  <2>2. CASE lock = Orphan
    BY <1>6, <2>1, <2>2 DEF LockExpires, Lock!Next, Lock!Expire
  <2>3. CASE lock # Orphan
    <3>1. PICK w \in Worker : lock = w
      BY <1>6, <2>3 DEF LockExpires
    <3>2. Lock!Lapse(w)
      BY <1>6, <2>1, <2>3, <3>1 DEF LockExpires, Lock!Lapse, Lock!MayLapse
    <3> QED
      BY <3>2 DEF Lock!Next
  <2> QED
    BY <2>2, <2>3
<1>7. CASE Aside
  BY <1>7 DEF Aside
<1> QED
  BY <1>1, <1>2, <1>3, <1>4, <1>5, <1>6, <1>7, StepsInside, StepsAside DEF Next, WorkerStep

\* The lock of the job is a lock of LockService, whatever fails and whatever the
\* cleanup restarts.
THEOREM LockTheorem == Spec => LockKept
<1>1. Init => Lock!Init /\ TokenInv
  BY NamesAssumption DEF Init, Lock!Init, Holding, TokenInv
<1>2. TypeOK /\ TokenInv /\ [Next]_vars => TokenInv'
  BY TokenInvStep
<1>3. TypeOK /\ TokenInv /\ [Next]_vars => [Lock!Next]_(Lock!vars)
  BY KeyStep
<1> QED
  BY <1>1, <1>2, <1>3, TypeCorrect, PTL DEF Spec, LockKept, Lock!Spec

\* From SET NX to releaseLock the key holds the token of the worker, if no lock lapses.
HolderInv == \A w \in Holding : lock = w

LEMMA HolderInvStep ==
  ASSUME "lapse" \notin Faults, TypeOK, HolderInv, [Next]_vars PROVE HolderInv'
<1> USE NamesAssumption DEF HolderInv, Holding, TypeOK, GoTo
<1>1. ASSUME NEW w \in Worker, Deliver(w) PROVE HolderInv'
  BY <1>1 DEF Deliver
<1>2. ASSUME NEW w \in Worker, AcquireLock(w) \/ AcquireRefused(w) PROVE HolderInv'
  BY <1>2 DEF AcquireLock, AcquireRefused
<1>3. ASSUME NEW w \in Worker, InsideStep(w) PROVE HolderInv'
  BY <1>3 DEF InsideStep, Inside
<1>4. ASSUME NEW w \in Worker, ReleaseLock(w) \/ WorkerCrashes(w) PROVE HolderInv'
  BY <1>4 DEF ReleaseLock, WorkerCrashes
<1>5. CASE LockExpires
  BY <1>5 DEF LockExpires
<1>6. CASE Aside
  BY <1>6 DEF Aside
<1> QED
  BY <1>1, <1>2, <1>3, <1>4, <1>5, <1>6, StepsInside, StepsAside DEF Next, WorkerStep

\* OneExecution: without restarts the transition happens once, whatever happens to the
\* Redis lock; with restarts the lock keeps two runs apart as long as it does not lapse.
THEOREM OneExecutionTheorem ==
  ASSUME ~RestartStaleJobs \/ "lapse" \notin Faults PROVE Spec => []OneExecution
<1>1. CASE ~RestartStaleJobs
  <2>1. Protocol => OneExecution
    BY DEF Protocol, RunInv
  <2> QED
    BY <1>1, <2>1, ProtocolHolds, PTL
<1>2. CASE "lapse" \notin Faults
  <2>1. Init => HolderInv
    BY DEF Init, HolderInv, Holding
  <2>2. TypeOK /\ HolderInv /\ [Next]_vars => HolderInv'
    BY <1>2, HolderInvStep
  <2>3. HolderInv => OneExecution
    BY DEF HolderInv, Holding, OneExecution, Executing
  <2> QED
    BY <2>1, <2>2, <2>3, TypeCorrect, PTL DEF Spec
<1> QED
  BY <1>1, <1>2

-----------------------------------------------------------------------------
(* A PROCESSING export is on its way to an end: the steps behind ProcessingIsTemporary *)

\* No file has more lines than there may be rows, so that there is an end to the pages.
FileFits == \A w \in Worker : Len(file[w]) <= Cardinality(Row)

\* Steps a delivery has left at most.
Left(w) ==
  CASE pc[w] = "acquire"    -> Cardinality(Row) + 8
    [] pc[w] = "transition" -> Cardinality(Row) + 7
    [] pc[w] = "count"      -> Cardinality(Row) + 6
    [] pc[w] = "save"       -> Cardinality(Row) + 5
    [] pc[w] = "stream"     -> Cardinality(Row) - Len(file[w]) + 4
    [] pc[w] = "complete"   -> 3
    [] pc[w] = "fail"       -> 2
    [] pc[w] = "release"    -> 1
    [] OTHER                -> 0

\* Every step of a worker is one of them, and no step of others is but its crash.
StepsCount ==
  [][\A w \in Worker :
       /\ WorkerStep(w) => Left(w)' < Left(w)
       /\ pc[w] # "idle" => Left(w)' <= Left(w)]_vars

\* A PROCESSING row that no worker is busy with keeps its run and only gets older until
\* it leaves the status.
DesertedAges ==
  [][job.status = "PROCESSING" /\ (\A w \in Worker : ~Executing(w)) =>
       \/ job'.status \in {"COMPLETED", "FAILED"} \/ (RestartStaleJobs /\ job'.status = "PENDING")
       \/ /\ job'.status = "PROCESSING" /\ job'.by = job.by /\ aged[job.by] <= aged'[job.by]
          /\ \A w \in Worker : ~Executing(w)']_vars

LEMMA Sizes ==
  ASSUME TypeOK
  PROVE  /\ Cardinality(Row) \in Nat /\ Cardinality(selected) \in 0..Cardinality(Row)
         /\ \A w \in Worker : Len(file[w]) \in Nat
<1>1. Cardinality(Row) \in Nat
  BY RowsFinite
<1>2. Cardinality(selected) \in 0..Cardinality(Row)
  BY RowsFinite DEF TypeOK
<1>3. ASSUME NEW w \in Worker PROVE Len(file[w]) \in Nat
  BY DEF TypeOK
<1> QED
  BY <1>1, <1>2, <1>3

\* A query adds a full page of new lines or is the last one.
LEMMA PageLengthens ==
  ASSUME TypeOK, FileFits, NEW w \in Worker, FetchPage(w)
  PROVE  /\ Len(file'[w]) <= Cardinality(Row)
         /\ pc'[w] = "complete" \/ (pc'[w] = "stream" /\ Len(file'[w]) > Len(file[w]))
<1>1. PICK order \in Orders(selected) :
        /\ file' = [file EXCEPT ![w] = @ \o Page(w, order)]
        /\ GoTo(w, IF Len(Page(w, order)) < PageSize THEN "complete" ELSE "stream")
  BY DEF FetchPage
<1>2. file'[w] = file[w] \o Page(w, order)
  BY <1>1 DEF TypeOK
<1>3. LongerBy(w, order, file'[w])
  BY <1>2, PageRows
<1>4. Len(file'[w]) <= Cardinality(Row)
  BY <1>3, Sizes DEF LongerBy, FileFits
<1>5. file[w] \in Seq(Row) /\ Page(w, order) \in Seq(Row)
  BY PageType DEF TypeOK
<1>6. Len(file'[w]) = Len(file[w]) + Len(Page(w, order))
      /\ Len(file[w]) \in Nat /\ Len(Page(w, order)) \in Nat
  BY <1>2, <1>5
<1>7. CASE Len(Page(w, order)) < PageSize
  BY <1>1, <1>4, <1>7 DEF GoTo, TypeOK
<1>8. CASE ~(Len(Page(w, order)) < PageSize)
  <2>1. Len(file'[w]) > Len(file[w])
    BY <1>6, <1>8, BoundsAssumption
  <2> QED
    BY <1>1, <1>4, <1>8, <2>1 DEF GoTo, TypeOK
<1> QED
  BY <1>7, <1>8

\* Steps that leave the files alone.
LEMMA FilesKept ==
  ASSUME [Next]_vars
  PROVE  \/ UNCHANGED file
         \/ \E w \in Worker : StartProcessing(w) \/ FetchPage(w)
<1>1. CASE UNCHANGED vars \/ CreateExport \/ Enqueue \/ LockExpires \/ PollReads \/ PollSaves
           \/ LinkAges \/ CleanupStep
  BY <1>1 DEF vars, CreateExport, Enqueue, LockExpires, PollReads, PollSaves, LinkAges, CleanupStep,
     FindStaleJob, HandleStaleJob, runVars
<1>2. CASE TableChanges \/ (\E n \in late : ProgressArrives(n))
  BY <1>2 DEF TableChanges, Enter, Leave, Edit, ProgressArrives, runVars
<1>3. ASSUME NEW w \in Worker, Deliver(w) \/ SendProgress(w) \/ WorkerCrashes(w) \/ RunAges(w)
      PROVE  UNCHANGED file
  BY <1>3 DEF Deliver, SendProgress, WorkerCrashes, RunAges, runVars
<1>4. ASSUME NEW w \in Worker, WorkerStep(w), ~StartProcessing(w), ~FetchPage(w)
      PROVE  UNCHANGED file
  BY <1>4 DEF WorkerStep, AcquireLock, AcquireRefused, StartRefused, CountRecords, SaveTotal,
     ExportFails, FinalizeCompleted, FinalizeError, FinalizeFailed, ReleaseLock, runVars
<1> QED
  BY <1>1, <1>2, <1>3, <1>4 DEF Next

LEMMA FileFitsStep == ASSUME TypeOK, FileFits, [Next]_vars PROVE FileFits'
<1> USE Sizes DEF FileFits
<1>1. CASE UNCHANGED file
  BY <1>1
<1>2. ASSUME NEW w \in Worker, StartProcessing(w) PROVE FileFits'
  <2>1. file' = [file EXCEPT ![w] = <<>>]
    BY <1>2 DEF StartProcessing
  <2>2. ASSUME NEW v \in Worker PROVE Len(file'[v]) = 0 \/ file'[v] = file[v]
    BY <2>1 DEF TypeOK
  <2> QED
    BY <2>2
<1>3. ASSUME NEW w \in Worker, FetchPage(w) PROVE FileFits'
  <2>1. \A v \in Worker \ {w} : file'[v] = file[v]
    BY <1>3 DEF FetchPage, TypeOK
  <2> QED
    BY <1>3, <2>1, PageLengthens
<1> QED
  BY <1>1, <1>2, <1>3, FilesKept

\* A step of a worker takes its delivery nearer to the end and leaves others alone.
LEMMA LeftStep ==
  ASSUME TypeOK, FileFits, FileFits', TypeOK', [Next]_vars, NEW w \in Worker
  PROVE  /\ WorkerStep(w) => Left(w)' < Left(w)
         /\ pc[w] # "idle" => Left(w)' <= Left(w)
<1>0. /\ Cardinality(Row) \in Nat /\ Len(file[w]) \in Nat /\ Len(file'[w]) \in Nat
      /\ Len(file[w]) <= Cardinality(Row) /\ Len(file'[w]) <= Cardinality(Row)
      /\ pc[w] \in {"idle", "acquire", "transition", "count", "save", "stream", "complete", "fail",
                    "release"}
      /\ pc'[w] \in {"idle", "acquire", "transition", "count", "save", "stream", "complete", "fail",
                     "release"}
      /\ DOMAIN pc = Worker
  <2>1. Len(file'[w]) \in Nat
    <3>1. file'[w] \in Seq(Row)
      BY DEF TypeOK
    <3> QED
      BY <3>1
  <2> QED
    BY <2>1, Sizes DEF FileFits, TypeOK
<1> USE <1>0 DEF GoTo
<1>1. WorkerStep(w) => Left(w)' < Left(w)
  <2>1. ASSUME AcquireLock(w) \/ AcquireRefused(w) PROVE Left(w)' < Left(w)
    BY <2>1 DEF AcquireLock, AcquireRefused, Left
  <2>2. ASSUME StartProcessing(w) \/ StartRefused(w) PROVE Left(w)' < Left(w)
    BY <2>2 DEF StartProcessing, StartRefused, Left
  <2>3. ASSUME CountRecords(w) \/ SaveTotal(w) PROVE Left(w)' < Left(w)
    BY <2>3 DEF CountRecords, SaveTotal, Left, runVars
  <2>4. ASSUME FetchPage(w) PROVE Left(w)' < Left(w)
    <3>1. pc[w] = "stream"
      BY <2>4 DEF FetchPage
    <3> QED
      BY <2>4, <3>1, PageLengthens DEF Left
  <2>5. ASSUME ExportFails(w) PROVE Left(w)' < Left(w)
    BY <2>5 DEF ExportFails, Left
  <2>6. ASSUME FinalizeCompleted(w) \/ FinalizeError(w) \/ FinalizeFailed(w) \/ ReleaseLock(w)
        PROVE  Left(w)' < Left(w)
    BY <2>6 DEF FinalizeCompleted, FinalizeError, FinalizeFailed, ReleaseLock, Left
  <2> QED
    BY <2>1, <2>2, <2>3, <2>4, <2>5, <2>6 DEF WorkerStep
<1>2. Left(w) \in Nat /\ Left(w)' \in Nat
  <2>1. Left(w) \in Nat
    BY SMTT(30) DEF Left
  <2>2. Left(w)' \in Nat
    <3>1. CASE pc'[w] = "stream"
      <4>1. Left(w)' = Cardinality(Row) - Len(file'[w]) + 4
        BY <3>1 DEF Left
      <4> QED
        BY <4>1
    <3>2. CASE pc'[w] # "stream"
      BY <3>2 DEF Left
    <3> QED
      BY <3>1, <3>2
  <2> QED
    BY <2>1, <2>2
<1>3. ASSUME pc[w] # "idle", ~WorkerStep(w) PROVE Left(w)' <= Left(w)
  <2>1. CASE WorkerCrashes(w)
    <3>1. pc'[w] = "idle"
      BY <2>1 DEF WorkerCrashes
    <3> QED
      BY <1>2, <3>1 DEF Left
  <2>2. CASE UNCHANGED <<pc[w], file[w]>>
    BY <1>2, <2>2 DEF Left
  <2>3. ASSUME NEW v \in Worker \ {w}, WorkerStep(v) \/ WorkerCrashes(v)
        PROVE  UNCHANGED pc[w]
    BY <2>3 DEF WorkerStep, AcquireLock, AcquireRefused, StartProcessing, StartRefused, CountRecords,
       SaveTotal, FetchPage, ExportFails, FinalizeCompleted, FinalizeError, FinalizeFailed,
       ReleaseLock, WorkerCrashes
  <2>4. ASSUME NEW v \in Worker, Deliver(v) \/ SendProgress(v) \/ RunAges(v) PROVE UNCHANGED pc[w]
    BY <1>3, <2>4 DEF Deliver, SendProgress, RunAges
  <2>5. CASE UNCHANGED vars \/ CreateExport \/ Enqueue \/ LockExpires \/ PollReads \/ PollSaves
             \/ LinkAges \/ CleanupStep \/ TableChanges
             \/ (\E n \in late : ProgressArrives(n))
    <3>1. UNCHANGED pc
      BY <2>5 DEF vars, CreateExport, Enqueue, LockExpires, PollReads, PollSaves, LinkAges,
         CleanupStep, FindStaleJob, HandleStaleJob, TableChanges, Enter, Leave, Edit, ProgressArrives
    <3>2. UNCHANGED file
      BY <2>5 DEF vars, CreateExport, Enqueue, LockExpires, PollReads, PollSaves, LinkAges,
         CleanupStep, FindStaleJob, HandleStaleJob, TableChanges, Enter, Leave, Edit, ProgressArrives, runVars
    <3> QED
      BY <2>2, <3>1, <3>2
  <2>6. ASSUME NEW v \in Worker \ {w}, StartProcessing(v) \/ FetchPage(v) PROVE UNCHANGED file[w]
    BY <2>6 DEF StartProcessing, FetchPage, TypeOK
  <2>7. UNCHANGED file[w]
    BY <1>3, <2>6, FilesKept DEF WorkerStep
  <2> QED
    BY <1>3, <2>1, <2>2, <2>3, <2>4, <2>5, <2>7 DEF Next
<1> QED
  BY <1>1, <1>2, <1>3

\* A delivery ends after at most |Row| + 8 steps of its worker, although rows come and
\* leave while they are read.
THEOREM StepsTheorem ==
  Spec => [](\A w \in Worker : Left(w) \in 0..(Cardinality(Row) + 8)) /\ StepsCount
<1>1. Init => FileFits
  BY Sizes, TypeInit DEF Init, FileFits
<1>2. TypeOK /\ FileFits /\ [Next]_vars => FileFits'
  BY FileFitsStep
<1>3. TypeOK /\ FileFits => \A w \in Worker : Left(w) \in 0..(Cardinality(Row) + 8)
  <2> SUFFICES ASSUME TypeOK, FileFits, NEW w \in Worker
               PROVE  Left(w) \in 0..(Cardinality(Row) + 8)
    OBVIOUS
  <2>1. Cardinality(Row) \in Nat /\ Len(file[w]) \in Nat /\ Len(file[w]) <= Cardinality(Row)
    BY Sizes DEF FileFits
  <2> QED
    BY <2>1 DEF Left, TypeOK
<1>4. TypeOK /\ FileFits /\ TypeOK' /\ FileFits' /\ [Next]_vars
        => [\A w \in Worker :
              /\ WorkerStep(w) => Left(w)' < Left(w)
              /\ pc[w] # "idle" => Left(w)' <= Left(w)]_vars
  BY LeftStep
<1> QED
  BY <1>1, <1>2, <1>3, <1>4, TypeCorrect, PTL DEF Spec, StepsCount

LEMMA DesertedStep ==
  ASSUME TypeOK, RowInv, [Next]_vars, job.status = "PROCESSING", \A w \in Worker : ~Executing(w)
  PROVE  \/ job'.status \in {"COMPLETED", "FAILED"} \/ (RestartStaleJobs /\ job'.status = "PENDING")
         \/ /\ job'.status = "PROCESSING" /\ job'.by = job.by /\ aged[job.by] <= aged'[job.by]
            /\ \A w \in Worker : ~Executing(w)'
<1> DEFINE Stays == /\ job'.status = "PROCESSING" /\ job'.by = job.by /\ aged[job.by] <= aged'[job.by]
                    /\ \A w \in Worker : ~Executing(w)'
           Goal == \/ job'.status \in {"COMPLETED", "FAILED"}
                   \/ (RestartStaleJobs /\ job'.status = "PENDING")
                   \/ Stays
<1>0. /\ job \in ExportJob /\ job.by \in Worker
      /\ aged \in [Worker -> Int] /\ DOMAIN pc = Worker
  BY DEF RowInv, LockColumns, TypeOK, ExportJob
<1> USE <1>0 DEF Executing, GoTo, runVars
<1>1. CASE \/ UNCHANGED vars \/ CreateExport \/ Enqueue \/ LockExpires \/ PollReads \/ FindStaleJob
           \/ TableChanges
  <2>1. UNCHANGED <<job, aged, pc>> \/ queued = "before"
    BY <1>1 DEF vars, CreateExport, Enqueue, LockExpires, PollReads, FindStaleJob, TableChanges, Enter, Leave, Edit
  <2>2. queued # "before"
    BY DEF RowInv, RequestInv
  <2>3. UNCHANGED <<job, aged, pc>>
    BY <2>1, <2>2
  <2> QED
    BY <2>3
<1>2. CASE LinkAges \/ \E n \in late : ProgressArrives(n)
  <2>1. job'.status = job.status /\ job'.by = job.by /\ UNCHANGED <<aged, pc>>
    BY <1>2 DEF LinkAges, ProgressArrives, ExportJob
  <2> QED
    BY <2>1
<1>3. CASE PollSaves
  BY <1>3 DEF PollSaves, Renewed, RowInv, EntityInv, TypeOK, ExportJob
<1>4. CASE HandleStaleJob
  <2>1. CASE job' = Released(job, HandledStatus)
    <3>1. job'.status = HandledStatus
      BY <2>1 DEF Released, ExportJob
    <3> QED
      BY <3>1 DEF HandledStatus
  <2>2. CASE UNCHANGED job
    BY <1>4, <2>2 DEF HandleStaleJob
  <2> QED
    BY <1>4, <2>1, <2>2 DEF HandleStaleJob
<1>5. ASSUME NEW w \in Worker, Deliver(w) \/ AcquireLock(w) \/ AcquireRefused(w) \/ ReleaseLock(w)
                               \/ WorkerCrashes(w) \/ SendProgress(w)
      PROVE  Goal
  BY <1>5 DEF Deliver, AcquireLock, AcquireRefused, ReleaseLock, WorkerCrashes, SendProgress
<1>6. ASSUME NEW w \in Worker, StartProcessing(w) \/ StartRefused(w) PROVE Goal
  BY <1>6 DEF StartProcessing, StartRefused, MayStart
<1>7. ASSUME NEW w \in Worker, RunAges(w) PROVE Goal
  BY <1>7 DEF RunAges
<1>8. ASSUME NEW w \in Worker,
             \/ CountRecords(w) \/ SaveTotal(w) \/ FetchPage(w) \/ ExportFails(w)
             \/ FinalizeCompleted(w) \/ FinalizeError(w) \/ FinalizeFailed(w)
      PROVE  FALSE
  BY <1>8 DEF CountRecords, SaveTotal, FetchPage, ExportFails, FinalizeCompleted, FinalizeError,
     FinalizeFailed
<1> QED
  BY <1>1, <1>2, <1>3, <1>4, <1>5, <1>6, <1>7, <1>8 DEF Next, WorkerStep, CleanupStep

\* Nothing takes up a PROCESSING export that its worker has left or holds the clock of
\* the cleanup back: repeated deliveries and late progress updates do not delay its end.
THEOREM DesertedTheorem == Spec => DesertedAges
<1> DEFINE Inv == TypeOK /\ RowInv
<1>1. Init => Inv
  BY TypeInit, LockInit
<1>2. Inv /\ [Next]_vars => Inv'
  BY TypeStep, LockStep
<1>3. Inv /\ [Next]_vars
        => [job.status = "PROCESSING" /\ (\A w \in Worker : ~Executing(w)) =>
              \/ job'.status \in {"COMPLETED", "FAILED"}
              \/ (RestartStaleJobs /\ job'.status = "PENDING")
              \/ /\ job'.status = "PROCESSING" /\ job'.by = job.by /\ aged[job.by] <= aged'[job.by]
                 /\ \A w \in Worker : ~Executing(w)']_vars
  BY DesertedStep
<1> QED
  BY <1>1, <1>2, <1>3, PTL DEF Spec, DesertedAges
=============================================================================
