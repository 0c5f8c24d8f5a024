------------------------ MODULE RecordUpsert_proofs ------------------------
(* Proofs about RecordUpsert: what holds for any imports, files and faults. *)
EXTENDS RecordUpsert, FiniteSetTheorems, WellFoundedInduction, TLAPS

-----------------------------------------------------------------------------
(* Types, and the lines of the batch *)

\* The valid lines of an open batch are to do, successful or failed, each one of them.
BatchInv ==
  \A i \in Import :
    /\ pc[i] \in {"record", "insert", "update"} =>
         Valid(i) # {} /\ Valid(i) = todo[i] \cup ok[i] \cup bad[i]
    /\ pc[i] \in {"begin", "failed"} =>
         todo[i] = {} /\ ok[i] = {} /\ bad[i] = {} /\ draft[i] = NoRows
    /\ todo[i] \cap (ok[i] \cup bad[i]) = {}
    /\ ok[i] \cap bad[i] \subseteq doubt[i]

TypeInv == TypeOK /\ BatchInv

\* A line of a file is a place and its record is a record.
LEMMA Places ==
  ASSUME TypeOK, NEW i \in Import
  PROVE  /\ Lines(i) \subseteq Line
         /\ \A n \in Lines(i) : file[i][n] \in Record
         /\ Batch(i) \subseteq Lines(i) /\ Valid(i) \subseteq Batch(i) /\ Invalid(i) \subseteq Batch(i)
<1>1. file[i] \in Files
  BY DEF TypeOK
<1>2. file[i] \in Seq(Record) /\ Len(file[i]) <= MaxLines
  BY <1>1, FilesAssumption
<1> QED
  BY <1>2, FilesAssumption DEF Lines, Line, Batch, Valid, Invalid

\* The batch of an import that is not finished begins at one of its lines.
LEMMA BatchBegins ==
  ASSUME TypeOK, NEW i \in Import, Batch(i) # {}
  PROVE  start[i] + BatchSize \in 1..(MaxLines + BatchSize)
<1>1. PICK n \in Batch(i) : TRUE
  OBVIOUS
<1>2. n \in Line /\ start[i] <= n
  BY <1>1, Places DEF Batch
<1>3. start[i] \in 1..(MaxLines + BatchSize)
  BY DEF TypeOK
<1> QED
  BY <1>2, <1>3, FilesAssumption DEF Line


\* What a step does to the batch of i, and the batches of the others that it leaves alone.
Kept(i) ==
  /\ kind' = kind /\ file' = file
  /\ \A h \in Import \ {i} :
       /\ pc'[h] = pc[h] /\ start'[h] = start[h] /\ draft'[h] = draft[h]
       /\ todo'[h] = todo[h] /\ known'[h] = known[h] /\ seen'[h] = seen[h] /\ target'[h] = target[h]
       /\ ok'[h] = ok[h] /\ bad'[h] = bad[h]
       /\ successful'[h] = successful[h] /\ failedRows'[h] = failedRows[h] /\ doubt'[h] = doubt[h]

\* The batch of i is over and counted.
Ended(i, good, wrong) ==
  /\ pc'[i] = "begin" /\ start'[i] = start[i] + BatchSize /\ draft'[i] = NoRows
  /\ todo'[i] = {} /\ ok'[i] = {} /\ bad'[i] = {} /\ known'[i] = NoKeys
  /\ successful'[i] = successful[i] \cup good
  /\ failedRows'[i] = failedRows[i] \cup Invalid(i) \cup wrong

LEMMA EndBatchStep ==
  ASSUME TypeOK, NEW i \in Import, NEW good \in SUBSET Line, NEW wrong \in SUBSET Line,
         Batch(i) # {}, EndBatch(i, good, wrong), table' \in [RowId -> Row \cup {NoRow}],
         doubt' \in [Import -> SUBSET Line], \A h \in Import \ {i} : doubt'[h] = doubt[h]
  PROVE  TypeOK' /\ Kept(i) /\ Ended(i, good, wrong)
<1>1. Invalid(i) \subseteq Line
  BY Places
<1>2. start[i] + BatchSize \in 1..(MaxLines + BatchSize)
  BY BatchBegins
<1>3. NoRows \in [RowId -> Row \cup {NoRow}] /\ NoKeys \in [Key -> RowId \cup {NoId}]
  BY DEF NoRows, NoKeys
<1>4. Kept(i) /\ Ended(i, good, wrong)
  BY DEF TypeOK, Kept, Ended, EndBatch, LeaveBatch, Unlock, GoTo
<1>5. /\ kind' \in Kinds /\ file' \in [Import -> Files]
      /\ draft' \in [Import -> [RowId -> Row \cup {NoRow}]]
      /\ pc' \in [Import -> {"begin", "record", "insert", "update", "failed"}]
      /\ start' \in [Import -> 1..(MaxLines + BatchSize)]
      /\ known' \in [Import -> [Key -> RowId \cup {NoId}]]
      /\ seen' \in [Import -> SUBSET Key]
      /\ target' \in [Import -> RowId \cup {NoId}]
  BY <1>2, <1>3 DEF TypeOK, EndBatch, LeaveBatch, Unlock, GoTo
<1>6. /\ todo' \in [Import -> SUBSET Line]
      /\ ok' \in [Import -> SUBSET Line] /\ bad' \in [Import -> SUBSET Line]
      /\ successful' \in [Import -> SUBSET Line] /\ failedRows' \in [Import -> SUBSET Line]
      /\ doubt' \in [Import -> SUBSET Line]
  BY <1>1 DEF TypeOK, EndBatch, LeaveBatch
<1>7. ASSUME NEW h \in Import, NEW n \in todo'[h] \cup ok'[h] \cup bad'[h]
      PROVE  start'[h] <= n /\ n < start'[h] + BatchSize
  BY <1>4, <1>7 DEF TypeOK, Kept, Ended
<1> QED
  BY <1>4, <1>5, <1>6, <1>7 DEF TypeOK

\* A row a record is saved to.
LEMMA RowOfType ==
  ASSUME TypeOK, NEW i \in Import, NEW n \in Lines(i)
  PROVE  RowOf(i, n) \in RowId /\ file[i][n].key \in Key /\ file[i][n].id \in Id \cup {NoId}
<1>1. n \in Line /\ file[i][n] \in Record
  BY Places
<1>2. known[i] \in [Key -> RowId \cup {NoId}]
  BY DEF TypeOK
<1> QED
  BY <1>1, <1>2 DEF RowOf, Record, RowId

LEMMA MergedType ==
  ASSUME TypeOK, NEW i \in Import
  PROVE  Merged(i) \in [RowId -> Row \cup {NoRow}]
BY DEF TypeOK, Merged, Visible

LEMMA BeginBatchTypes ==
  ASSUME TypeOK, NEW i \in Import, BeginBatch(i) PROVE TypeOK' /\ Kept(i)
<1>1. Valid(i) \subseteq Batch(i) /\ Batch(i) \subseteq Line
  BY Places
<1>2. [k \in Key |-> IF HasKeys /\ RowsWith(k) # {} THEN CHOOSE d \in RowsWith(k) : TRUE ELSE NoId]
        \in [Key -> RowId \cup {NoId}]
  BY DEF RowsWith
<1>3. known' \in [Import -> [Key -> RowId \cup {NoId}]]
  BY <1>2 DEF TypeOK, BeginBatch
<1>4. pc' \in [Import -> {"begin", "record", "insert", "update", "failed"}]
  BY DEF TypeOK, BeginBatch, GoTo
<1>5. todo' \in [Import -> SUBSET Line]
  BY <1>1 DEF TypeOK, BeginBatch
<1>6. \A h \in Import : \A n \in todo'[h] \cup ok'[h] \cup bad'[h] :
        start'[h] <= n /\ n < start'[h] + BatchSize
  BY <1>1 DEF TypeOK, BeginBatch, Batch
<1>7. Kept(i)
  BY DEF TypeOK, BeginBatch, Kept, totals, GoTo
<1> QED
  BY <1>3, <1>4, <1>5, <1>6, <1>7 DEF TypeOK, BeginBatch, totals

\* What Reject leaves open: the keys, the lines counted as successful, and doubt.
LEMMA RejectTypes ==
  ASSUME TypeOK, NEW i \in Import, NEW n \in todo[i], Reject(i, n),
         seen' \in [Import -> SUBSET Key], \A h \in Import \ {i} : seen'[h] = seen[h],
         NEW lines \in SUBSET {n},
         ok' = [ok EXCEPT ![i] = @ \cup lines], doubt' = [doubt EXCEPT ![i] = @ \cup lines]
  PROVE  TypeOK' /\ Kept(i)
<1>1. n \in Line /\ start[i] <= n /\ n < start[i] + BatchSize
  BY DEF TypeOK
<1>2. pc' \in [Import -> {"begin", "record", "insert", "update", "failed"}]
      /\ target' \in [Import -> RowId \cup {NoId}]
  BY DEF TypeOK, Reject, GoTo
<1>3. /\ todo' \in [Import -> SUBSET Line] /\ bad' \in [Import -> SUBSET Line]
      /\ ok' \in [Import -> SUBSET Line] /\ doubt' \in [Import -> SUBSET Line]
  BY <1>1 DEF TypeOK, Reject
<1>4. \A h \in Import : \A m \in todo'[h] \cup ok'[h] \cup bad'[h] :
        start'[h] <= m /\ m < start'[h] + BatchSize
  BY <1>1 DEF TypeOK, Reject
<1>5. Kept(i)
  BY DEF TypeOK, Reject, Kept, GoTo
<1> QED
  BY <1>2, <1>3, <1>4, <1>5 DEF TypeOK, Reject

LEMMA SeenTypes ==
  ASSUME TypeOK, NEW i \in Import, NEW n \in Lines(i)
  PROVE  /\ SeenWith(i, n) \in [Import -> SUBSET Key]
         /\ \A h \in Import \ {i} : SeenWith(i, n)[h] = seen[h]
BY RowOfType DEF SeenWith, TypeOK

LEMMA SaveTypes ==
  ASSUME TypeOK, NEW i \in Import, NEW n \in Lines(i), Save(i, n) PROVE TypeOK' /\ Kept(i)
<1>1. RowOf(i, n) \in RowId
  BY RowOfType
<1>2. seen' \in [Import -> SUBSET Key] /\ \A h \in Import \ {i} : seen'[h] = seen[h]
  BY SeenTypes DEF Save
<1>3. target' \in [Import -> RowId \cup {NoId}]
      /\ pc' \in [Import -> {"begin", "record", "insert", "update", "failed"}]
  BY <1>1 DEF TypeOK, Save, GoTo
<1>4. Kept(i)
  BY <1>2 DEF TypeOK, Save, Kept, GoTo, totals
<1> QED
  BY <1>2, <1>3, <1>4 DEF TypeOK, Save, totals

LEMMA WriteTypes ==
  ASSUME TypeOK, NEW i \in Import, NEW n \in Lines(i), target[i] \in RowId, Write(i, n)
  PROVE TypeOK' /\ Kept(i)
<1>1. n \in Line /\ n \in todo[i] /\ start[i] <= n /\ n < start[i] + BatchSize
  BY DEF TypeOK, Write, Writes, At
<1>2. [key |-> file[i][n].key, by |-> <<i, n>>] \in Row
  BY <1>1, RowOfType DEF Row, Writer
<1>3. draft' \in [Import -> [RowId -> Row \cup {NoRow}]]
  BY <1>2 DEF TypeOK, Write
<1>4. target' \in [Import -> RowId \cup {NoId}]
      /\ pc' \in [Import -> {"begin", "record", "insert", "update", "failed"}]
  BY DEF TypeOK, Write, GoTo
<1>5. todo' \in [Import -> SUBSET Line] /\ ok' \in [Import -> SUBSET Line]
  BY <1>1 DEF TypeOK, Write
<1>6. \A h \in Import : \A m \in todo'[h] \cup ok'[h] \cup bad'[h] :
        start'[h] <= m /\ m < start'[h] + BatchSize
  BY <1>1 DEF TypeOK, Write
<1>7. Kept(i)
  BY DEF TypeOK, Write, Kept, GoTo, totals
<1> QED
  BY <1>3, <1>4, <1>5, <1>6, <1>7 DEF TypeOK, Write, totals

LEMMA FailsTypes ==
  ASSUME TypeOK, NEW i \in Import, ImportFails(i) PROVE TypeOK' /\ Kept(i)
<1>1. NoRows \in [RowId -> Row \cup {NoRow}] /\ NoKeys \in [Key -> RowId \cup {NoId}]
  BY DEF NoRows, NoKeys
<1>2. /\ draft' \in [Import -> [RowId -> Row \cup {NoRow}]]
      /\ pc' \in [Import -> {"begin", "record", "insert", "update", "failed"}]
      /\ known' \in [Import -> [Key -> RowId \cup {NoId}]]
      /\ seen' \in [Import -> SUBSET Key] /\ target' \in [Import -> RowId \cup {NoId}]
  BY <1>1 DEF TypeOK, ImportFails, LeaveBatch, Unlock, GoTo
<1>3. /\ todo' \in [Import -> SUBSET Line]
      /\ ok' \in [Import -> SUBSET Line] /\ bad' \in [Import -> SUBSET Line]
  BY DEF TypeOK, ImportFails, LeaveBatch
<1>4. \A h \in Import : \A m \in todo'[h] \cup ok'[h] \cup bad'[h] :
        start'[h] <= m /\ m < start'[h] + BatchSize
  BY DEF TypeOK, ImportFails, LeaveBatch
<1>5. Kept(i)
  BY DEF TypeOK, ImportFails, LeaveBatch, Unlock, Kept, GoTo, totals
<1> QED
  BY <1>2, <1>3, <1>4, <1>5 DEF TypeOK, ImportFails, LeaveBatch, totals

-----------------------------------------------------------------------------
(* The shapes of a step *)

\* While a record is written, target is the row it is saved to.
TargetInv ==
  \A i \in Import : \A n \in Line : Writes(i, n) => target[i] = RowOf(i, n)

\* The transaction of i ends, with or without its rows.
Closes(i) ==
  \E good, wrong \in SUBSET Line :
    /\ Batch(i) # {}
    /\ Ended(i, good, wrong) /\ doubt[i] \subseteq doubt'[i]
    /\ good \cup wrong = Valid(i) /\ good \cap wrong \subseteq doubt'[i]
    /\ \/ table' = table /\ good \subseteq doubt'[i]
       \/ table' = Merged(i) /\ good = ok[i]

\* A record is left out: its savepoint is taken back.
Rejects(i, n) ==
  /\ n \in todo[i] /\ pc[i] \in {"record", "insert", "update"}
  /\ Reject(i, n)
  /\ \E lines \in SUBSET {n} : ok'[i] = ok[i] \cup lines /\ doubt'[i] = doubt[i] \cup lines

Shape(i) ==
  \/ Closes(i) \/ BeginBatch(i) \/ ImportFails(i)
  \/ \E n \in Lines(i) : Rejects(i, n) \/ Save(i, n) \/ Write(i, n)

LEMMA TodoLines ==
  ASSUME TypeInv, NEW i \in Import, NEW n \in todo[i]
  PROVE  n \in Lines(i) /\ n \in Batch(i) /\ n \in Valid(i) /\ pc[i] \in {"record", "insert", "update"}
<1>1. pc[i] \in {"begin", "record", "insert", "update", "failed"}
  BY DEF TypeInv, TypeOK
<1>2. pc[i] \in {"record", "insert", "update"} /\ n \in Valid(i)
  BY <1>1 DEF TypeInv, BatchInv
<1> QED
  BY <1>2, Places DEF TypeInv

LEMMA EndShapes ==
  ASSUME TypeInv, NEW i \in Import,
         SkipBatch(i) \/ CommitBatch(i) \/ BatchError(i) \/ CommitError(i)
  PROVE  TypeOK' /\ Kept(i) /\ Closes(i)
<1> USE DEF TypeInv
<1>1. Valid(i) \subseteq Line /\ ok[i] \subseteq Line /\ bad[i] \subseteq Line
  BY Places DEF TypeOK
<1>2. Merged(i) \in [RowId -> Row \cup {NoRow}] /\ table \in [RowId -> Row \cup {NoRow}]
  BY MergedType DEF TypeOK
<1>3. doubt \in [Import -> SUBSET Line]
  BY DEF TypeOK
<1>4. CASE SkipBatch(i)
  <2>1. doubt' = doubt /\ EndBatch(i, {}, {}) /\ Batch(i) # {} /\ table' = table
    BY <1>3, <1>4 DEF SkipBatch
  <2>2. TypeOK' /\ Kept(i) /\ Ended(i, {}, {})
    BY <2>1, <1>2, <1>3, EndBatchStep
  <2> QED
    BY <2>1, <2>2, <1>3, <1>4 DEF SkipBatch, Closes
<1>5. CASE CommitBatch(i)
  <2>1. doubt' = doubt /\ EndBatch(i, ok[i], bad[i]) /\ table' = Merged(i)
    BY <1>3, <1>5 DEF CommitBatch
  <2>2. Valid(i) # {} /\ Valid(i) = ok[i] \cup bad[i] /\ ok[i] \cap bad[i] \subseteq doubt[i]
    BY <1>5 DEF CommitBatch, BatchInv
  <2>3. Batch(i) # {}
    BY <2>2, Places
  <2>4. TypeOK' /\ Kept(i) /\ Ended(i, ok[i], bad[i])
    BY <2>1, <2>3, <1>1, <1>2, <1>3, EndBatchStep
  <2> QED
    BY <2>1, <2>2, <2>3, <2>4, <1>1, <1>3 DEF Closes
<1>6. CASE BatchError(i)
  <2>1. doubt' = doubt /\ EndBatch(i, {}, Valid(i)) /\ table' = table
    BY <1>3, <1>6 DEF BatchError, RolledBack, CountedBefore
  <2>2. Valid(i) # {} /\ doubt'[i] = doubt[i]
    BY <2>1, <1>6 DEF BatchError, BatchInv
  <2>3. Batch(i) # {}
    BY <2>2, Places
  <2>4. TypeOK' /\ Kept(i) /\ Ended(i, {}, Valid(i))
    BY <2>1, <2>3, <1>1, <1>2, <1>3, EndBatchStep
  <2>5. {} \cup Valid(i) = Valid(i) /\ {} \cap Valid(i) = {}
    OBVIOUS
  <2> QED
    BY <2>1, <2>2, <2>3, <2>4, <2>5, <1>1, <1>3 DEF Closes
<1>7. CASE CommitError(i)
  <2>1. /\ doubt' = [doubt EXCEPT ![i] = @ \cup Valid(i)] /\ EndBatch(i, ok[i], Valid(i))
        /\ table' \in {table, Merged(i)}
    BY <1>7 DEF CommitError
  <2>5. /\ doubt'[i] = doubt[i] \cup Valid(i) /\ doubt' \in [Import -> SUBSET Line]
        /\ \A h \in Import \ {i} : doubt'[h] = doubt[h]
    BY <2>1, <1>1, <1>3
  <2>2. Valid(i) # {} /\ ok[i] \subseteq Valid(i)
    BY <1>7 DEF CommitError, BatchInv
  <2>3. Batch(i) # {}
    BY <2>2, Places
  <2>4. TypeOK' /\ Kept(i) /\ Ended(i, ok[i], Valid(i))
    BY <2>1, <2>3, <2>5, <1>1, <1>2, EndBatchStep
  <2> QED
    BY <2>1, <2>2, <2>3, <2>4, <2>5, <1>1 DEF Closes
<1> QED
  BY <1>4, <1>5, <1>6, <1>7

LEMMA RejectShapes ==
  ASSUME TypeInv, NEW i \in Import, NEW n \in Line,
         RejectDuplicate(i, n) \/ RejectReference(i, n) \/ WriteRefused(i, n) \/ WriteError(i, n)
  PROVE  TypeOK' /\ Kept(i) /\ n \in Lines(i) /\ Rejects(i, n)
<1> USE DEF TypeInv
<1>1. n \in todo[i] /\ pc[i] \in {"record", "insert", "update"} /\ Reject(i, n)
  BY DEF RejectDuplicate, RejectReference, WriteRefused, WriteError, Writes, At
<1>2. n \in Lines(i)
  BY <1>1, TodoLines
<1>3. seen' \in [Import -> SUBSET Key] /\ \A h \in Import \ {i} : seen'[h] = seen[h]
  <2>1. seen' = seen \/ seen' = SeenWith(i, n)
    BY DEF RejectDuplicate, RejectReference, WriteRefused, WriteError
  <2> QED
    BY <2>1, <1>2, SeenTypes DEF TypeOK
<1>4. PICK lines \in SUBSET {n} :
        ok' = [ok EXCEPT ![i] = @ \cup lines] /\ doubt' = [doubt EXCEPT ![i] = @ \cup lines]
  <2>1. CASE ok' = ok /\ doubt' = doubt
    <3>1. ok = [ok EXCEPT ![i] = @ \cup {}] /\ doubt = [doubt EXCEPT ![i] = @ \cup {}]
      BY DEF TypeOK
    <3> QED
      BY <2>1, <3>1
  <2>2. CASE /\ ok' = [ok EXCEPT ![i] = @ \cup {n}] /\ doubt' = [doubt EXCEPT ![i] = @ \cup {n}]
    BY <2>2
  <2> QED
    BY <2>1, <2>2 DEF RejectDuplicate, RejectReference, WriteRefused, WriteError
<1>5. TypeOK' /\ Kept(i)
  BY <1>1, <1>3, <1>4, RejectTypes
<1>6. ok'[i] = ok[i] \cup lines /\ doubt'[i] = doubt[i] \cup lines
  BY <1>4 DEF TypeOK
<1> QED
  BY <1>1, <1>2, <1>5, <1>6 DEF Rejects

\* A step of an import is one of a few, and leaves the others as they are.
LEMMA ImportShapes ==
  ASSUME TypeInv, TargetInv, NEW i \in Import, ImportStep(i) \/ ImportFault(i)
  PROVE  TypeOK' /\ Kept(i) /\ Shape(i)
<1>1. CASE SkipBatch(i) \/ CommitBatch(i) \/ BatchError(i) \/ CommitError(i)
  BY <1>1, EndShapes DEF Shape
<1>2. CASE BeginBatch(i)
  BY <1>2, BeginBatchTypes DEF TypeInv, Shape
<1>3. CASE ImportFails(i)
  BY <1>3, FailsTypes DEF TypeInv, Shape
<1>4. ASSUME NEW n \in Line,
             RejectDuplicate(i, n) \/ RejectReference(i, n) \/ WriteRefused(i, n) \/ WriteError(i, n)
      PROVE  TypeOK' /\ Kept(i) /\ Shape(i)
  BY <1>4, RejectShapes DEF Shape
<1>5. ASSUME NEW n \in Line, Save(i, n) \/ Write(i, n)
      PROVE  TypeOK' /\ Kept(i) /\ Shape(i)
  <2>1. n \in Lines(i)
    BY <1>5, TodoLines DEF Save, Write, Writes, At
  <2>2. CASE Save(i, n)
    BY <2>1, <2>2, SaveTypes DEF TypeInv, Shape
  <2>3. CASE Write(i, n)
    <3>1. target[i] \in RowId
      BY <2>1, <2>3, RowOfType DEF TargetInv, Write, TypeInv
    <3> QED
      BY <2>1, <2>3, <3>1, WriteTypes DEF TypeInv, Shape
  <2> QED
    BY <1>5, <2>2, <2>3
<1> QED
  BY <1>1, <1>2, <1>3, <1>4, <1>5 DEF ImportStep, ImportFault, RecordStep

LEMMA StepShapes ==
  ASSUME TypeInv, TargetInv, [Next]_vars
  PROVE  /\ TypeOK'
         /\ UNCHANGED vars \/ \E i \in Import : Kept(i) /\ Shape(i)
<1>1. CASE UNCHANGED vars
  BY <1>1 DEF vars, batchVars, totals, TypeInv, TypeOK
<1>2. ASSUME NEW i \in Import, ImportStep(i) \/ ImportFault(i)
      PROVE  TypeOK' /\ Kept(i) /\ Shape(i)
  BY <1>2, ImportShapes
<1> QED
  BY <1>1, <1>2 DEF Next, AllEnded

LEMMA OthersKept ==
  ASSUME NEW i \in Import, Kept(i)
  PROVE  /\ \A h \in Import : Lines(h)' = Lines(h) /\ file'[h] = file[h]
         /\ HasKeys' = HasKeys /\ KeysOnly' = KeysOnly
         /\ \A h \in Import \ {i} :
              /\ Batch(h)' = Batch(h) /\ Invalid(h)' = Invalid(h) /\ Valid(h)' = Valid(h)
              /\ \A n : Writes(h, n)' = Writes(h, n) /\ RowOf(h, n)' = RowOf(h, n)
<1>1. file' = file /\ kind' = kind
  BY DEF Kept
<1>2. \A h \in Import : Lines(h)' = Lines(h)
  BY <1>1 DEF Lines
<1>3. HasKeys' = HasKeys
  BY <1>1 DEF HasKeys
<1>4. KeysOnly' = KeysOnly
  BY <1>1, <1>2, <1>3 DEF KeysOnly
<1>5. ASSUME NEW h \in Import \ {i}
      PROVE  Batch(h)' = Batch(h) /\ Invalid(h)' = Invalid(h) /\ Valid(h)' = Valid(h)
  BY <1>1, <1>2 DEF Kept, Batch, Invalid, Valid
<1>6. ASSUME NEW h \in Import \ {i}, NEW n
      PROVE  Writes(h, n)' = Writes(h, n) /\ RowOf(h, n)' = RowOf(h, n)
  BY <1>1, <1>3 DEF Kept, Writes, At, RowOf
<1> QED
  BY <1>1, <1>2, <1>3, <1>4, <1>5, <1>6

\* A step of i that stays in the batch keeps its lines.
LEMMA SameBatch ==
  ASSUME NEW i \in Import, Kept(i), start'[i] = start[i]
  PROVE  Batch(i)' = Batch(i) /\ Invalid(i)' = Invalid(i) /\ Valid(i)' = Valid(i)
BY OthersKept DEF Kept, Batch, Invalid, Valid, Lines

LEMMA BatchInvStep ==
  ASSUME TypeInv, TargetInv, TypeOK', NEW i \in Import, Kept(i), Shape(i)
  PROVE  BatchInv'
<1> USE DEF TypeInv
<1>1. \A h \in Import \ {i} : Valid(h)' = Valid(h)
  BY OthersKept
<1>2. SUFFICES
        /\ pc'[i] \in {"record", "insert", "update"} =>
             Valid(i)' # {} /\ Valid(i)' = todo'[i] \cup ok'[i] \cup bad'[i]
        /\ pc'[i] \in {"begin", "failed"} =>
             todo'[i] = {} /\ ok'[i] = {} /\ bad'[i] = {} /\ draft'[i] = NoRows
        /\ todo'[i] \cap (ok'[i] \cup bad'[i]) = {}
        /\ ok'[i] \cap bad'[i] \subseteq doubt'[i]
  BY <1>1 DEF BatchInv, Kept, NoRows
<1>3. CASE Closes(i)
  BY <1>3 DEF Closes, Ended
<1>4. CASE BeginBatch(i)
  <2>1. start' = start /\ Valid(i) # {} /\ pc[i] = "begin" /\ todo'[i] = Valid(i) /\ pc'[i] = "record"
    BY <1>4 DEF BeginBatch, GoTo, TypeOK
  <2>2. ok'[i] = {} /\ bad'[i] = {}
    BY <1>4, <2>1 DEF BeginBatch, BatchInv
  <2> QED
    BY <2>1, <2>2, SameBatch
<1>5. CASE ImportFails(i)
  BY <1>5 DEF ImportFails, LeaveBatch, Unlock, GoTo, TypeOK
<1>6. ASSUME NEW n \in Lines(i), Rejects(i, n)
      PROVE  /\ pc'[i] = "record" /\ Valid(i)' # {} /\ Valid(i)' = todo'[i] \cup ok'[i] \cup bad'[i]
             /\ todo'[i] \cap (ok'[i] \cup bad'[i]) = {}
             /\ ok'[i] \cap bad'[i] \subseteq doubt'[i]
  <2>1. n \in todo[i] /\ pc[i] \in {"record", "insert", "update"}
    BY <1>6 DEF Rejects
  <2>2. pc'[i] = "record" /\ start' = start /\ todo'[i] = todo[i] \ {n} /\ bad'[i] = bad[i] \cup {n}
    BY <1>6 DEF Rejects, Reject, GoTo, TypeOK
  <2>3. PICK lines \in SUBSET {n} : ok'[i] = ok[i] \cup lines /\ doubt'[i] = doubt[i] \cup lines
    BY <1>6 DEF Rejects
  <2>4. Valid(i)' = Valid(i)
    BY <2>2, SameBatch
  <2>5. /\ Valid(i) # {} /\ Valid(i) = todo[i] \cup ok[i] \cup bad[i]
        /\ todo[i] \cap (ok[i] \cup bad[i]) = {} /\ ok[i] \cap bad[i] \subseteq doubt[i]
    BY <2>1 DEF BatchInv
  <2> QED
    BY <2>1, <2>2, <2>3, <2>4, <2>5
<1>7. ASSUME NEW n \in Lines(i), Save(i, n)
      PROVE  /\ pc[i] = "record" /\ pc'[i] \in {"insert", "update"} /\ start' = start
             /\ todo' = todo /\ ok' = ok /\ bad' = bad /\ doubt' = doubt
  BY <1>7 DEF Save, At, GoTo, TypeOK, totals
<1>8. ASSUME NEW n \in Lines(i), Write(i, n)
      PROVE  /\ pc[i] \in {"insert", "update"} /\ pc'[i] = "record" /\ start' = start
             /\ n \in todo[i] /\ todo'[i] = todo[i] \ {n} /\ ok'[i] = ok[i] \cup {n}
             /\ bad' = bad /\ doubt' = doubt
  BY <1>8 DEF Write, Writes, At, GoTo, TypeOK, totals
<1>9. CASE \E n \in Lines(i) : Save(i, n)
  BY <1>7, <1>9, SameBatch DEF BatchInv
<1>10. CASE \E n \in Lines(i) : Write(i, n)
  BY <1>8, <1>10, SameBatch DEF BatchInv
<1> QED
  BY <1>3, <1>4, <1>5, <1>6, <1>9, <1>10 DEF Shape

LEMMA TargetInvStep ==
  ASSUME TypeInv, TargetInv, TypeOK', NEW i \in Import, Kept(i), Shape(i)
  PROVE  TargetInv'
<1> USE DEF TypeInv
<1>1. \A h \in Import \ {i} : \A n \in Line : Writes(h, n)' => target'[h] = RowOf(h, n)'
  BY OthersKept DEF TargetInv, Kept
<1>2. ASSUME pc'[i] \in {"begin", "failed", "record"}, NEW m \in Line, Writes(i, m)'
      PROVE  FALSE
  BY <1>2 DEF Writes, At
<1>3. CASE Closes(i) \/ BeginBatch(i) \/ ImportFails(i) \/ \E n \in Lines(i) : Rejects(i, n) \/ Write(i, n)
  <2>1. pc'[i] \in {"begin", "failed", "record"}
    BY <1>3 DEF Closes, Ended, BeginBatch, ImportFails, Rejects, Reject, Write, GoTo, TypeOK
  <2> QED
    BY <1>1, <1>2, <2>1 DEF TargetInv
<1>4. ASSUME NEW n \in Lines(i), Save(i, n), NEW m \in Line, Writes(i, m)'
      PROVE  target'[i] = RowOf(i, m)'
  <2>1. n \in todo[i] /\ (\A l \in todo[i] : n <= l) /\ todo' = todo /\ known' = known
    BY <1>4 DEF Save, At
  <2>2. m \in todo[i] /\ \A l \in todo[i] : m <= l
    BY <1>4, <2>1 DEF Writes, At
  <2>3. n = m
    <3>1. n \in Line /\ n <= m /\ m <= n
      BY <2>1, <2>2, Places
    <3> QED
      BY <3>1, FilesAssumption DEF Line
  <2>4. RowOf(i, n)' = RowOf(i, n)
    BY <2>1, OthersKept DEF RowOf
  <2>5. target'[i] = RowOf(i, n)
    BY <1>4 DEF Save, TypeOK
  <2> QED
    BY <2>3, <2>4, <2>5
<1> QED
  BY <1>1, <1>3, <1>4 DEF Shape, TargetInv

LEMMA InitInv == ASSUME Init PROVE TypeInv /\ TargetInv
<1>1. table \in [RowId -> Row \cup {NoRow}]
  BY DEF Init, RowId, Row, Writer
<1>2. NoRows \in [RowId -> Row \cup {NoRow}] /\ NoKeys \in [Key -> RowId \cup {NoId}]
  BY DEF NoRows, NoKeys
<1>3. 1 \in 1..(MaxLines + BatchSize)
  BY FilesAssumption
<1>4. TypeOK
  BY <1>1, <1>2, <1>3 DEF Init, TypeOK
<1>5. BatchInv /\ TargetInv
  BY DEF Init, BatchInv, TargetInv, Writes, At
<1> QED
  BY <1>4, <1>5 DEF TypeInv

LEMMA BatchesHold == Spec => [](TypeInv /\ TargetInv)
<1>1. Init => TypeInv /\ TargetInv
  BY InitInv
<1>2. TypeInv /\ TargetInv /\ [Next]_vars => (TypeInv /\ TargetInv)'
  <2> SUFFICES ASSUME TypeInv, TargetInv, [Next]_vars PROVE (TypeInv /\ TargetInv)'
    OBVIOUS
  <2>1. TypeOK' /\ (UNCHANGED vars \/ \E i \in Import : Kept(i) /\ Shape(i))
    BY StepShapes
  <2>2. CASE UNCHANGED vars
    BY <2>1, <2>2 DEF vars, batchVars, totals, TypeInv, BatchInv, TargetInv, Valid, Invalid, Batch, Lines,
         Writes, At, RowOf, HasKeys
  <2>3. CASE \E i \in Import : Kept(i) /\ Shape(i)
    BY <2>1, <2>3, BatchInvStep, TargetInvStep DEF TypeInv
  <2> QED
    BY <2>1, <2>2, <2>3
<1> QED
  BY <1>1, <1>2, PTL DEF Spec

\* The type invariant holds for any imports, keys, files, sizes and faults.
THEOREM TypeCorrect == Spec => []TypeOK
<1>1. TypeInv /\ TargetInv => TypeOK
  BY DEF TypeInv
<1> QED
  BY <1>1, BatchesHold, PTL

-----------------------------------------------------------------------------
(* Every line is counted, and what failed leaves nothing *)

\* A step inside of a batch counts nothing.
LEMMA CountsStay ==
  ASSUME TypeInv, NEW i \in Import,
         BeginBatch(i) \/ ImportFails(i) \/ \E n \in Lines(i) : Rejects(i, n) \/ Save(i, n) \/ Write(i, n)
  PROVE  /\ start' = start /\ successful' = successful /\ failedRows' = failedRows /\ table' = table
         /\ doubt[i] \subseteq doubt'[i]
<1>1. /\ start' = start /\ successful' = successful /\ failedRows' = failedRows /\ table' = table
      /\ doubt' = doubt \/ \E n \in Lines(i) : Rejects(i, n)
  BY DEF BeginBatch, ImportFails, Rejects, Reject, Save, Write, totals
<1>2. ASSUME NEW n \in Lines(i), Rejects(i, n) PROVE doubt[i] \subseteq doubt'[i]
  BY <1>2 DEF Rejects
<1> QED
  BY <1>1, <1>2

LEMMA LinesCountedStep ==
  ASSUME TypeInv, EveryLineCounted, NEW i \in Import, Kept(i), Shape(i)
  PROVE  EveryLineCounted'
<1> USE DEF TypeInv
<1>1. ASSUME NEW h \in Import \ {i}
      PROVE  /\ successful'[h] \cup failedRows'[h] = {n \in Lines(h)' : n < start'[h]}
             /\ successful'[h] \cap failedRows'[h] \subseteq doubt'[h]
  BY OthersKept DEF Kept, EveryLineCounted
<1>2. CASE Closes(i)
  <2>1. PICK good, wrong \in SUBSET Line :
          /\ Ended(i, good, wrong) /\ doubt[i] \subseteq doubt'[i]
          /\ good \cup wrong = Valid(i) /\ good \cap wrong \subseteq doubt'[i]
    BY <1>2 DEF Closes
  <2>2. /\ Lines(i)' = Lines(i) /\ Lines(i) \subseteq Line
        /\ Batch(i) = Invalid(i) \cup Valid(i) /\ Invalid(i) \cap Valid(i) = {}
    BY OthersKept, Places DEF Valid
  <2>3. start[i] \in Nat /\ BatchSize \in Nat
    BY FilesAssumption DEF TypeOK
  <2>4. {n \in Lines(i) : n < start[i] + BatchSize} = {n \in Lines(i) : n < start[i]} \cup Batch(i)
    BY <2>2, <2>3, FilesAssumption DEF Batch, Line
  <2>5. {n \in Lines(i) : n < start[i]} \cap Batch(i) = {}
    BY <2>2, <2>3, FilesAssumption DEF Batch, Line
  <2>6. /\ successful[i] \cup failedRows[i] = {n \in Lines(i) : n < start[i]}
        /\ successful[i] \cap failedRows[i] \subseteq doubt[i]
    BY DEF EveryLineCounted
  <2>7. /\ successful'[i] = successful[i] \cup good
        /\ failedRows'[i] = failedRows[i] \cup Invalid(i) \cup wrong
        /\ start'[i] = start[i] + BatchSize
    BY <2>1 DEF Ended
  <2>8. successful'[i] \cup failedRows'[i] = {n \in Lines(i)' : n < start'[i]}
    BY <2>1, <2>2, <2>4, <2>6, <2>7
  <2>9. successful'[i] \cap failedRows'[i] \subseteq doubt'[i]
    BY <2>1, <2>2, <2>5, <2>6, <2>7
  <2> QED
    BY <1>1, <2>8, <2>9 DEF EveryLineCounted
<1>3. CASE BeginBatch(i) \/ ImportFails(i) \/ \E n \in Lines(i) : Rejects(i, n) \/ Save(i, n) \/ Write(i, n)
  <2>1. Lines(i)' = Lines(i)
    BY OthersKept
  <2> QED
    BY <1>1, <1>3, <2>1, CountsStay DEF EveryLineCounted
<1> QED
  BY <1>2, <1>3 DEF Shape

\* What an open transaction has written are records of its batch, counted as successful.
DraftInv ==
  \A i \in Import : \A d \in RowId : draft[i][d] # NoRow =>
    \E n \in ok[i] : draft[i][d] = [key |-> file[i][n].key, by |-> <<i, n>>]

\* A row of the table was written by a record that was counted as successful, or is in doubt.
TraceInv ==
  \A d \in RowId : \A i \in Import : \A n \in Line :
    table[d] # NoRow /\ table[d].by = <<i, n>> =>
      n < start[i] /\ n \in Lines(i) /\ (n \in successful[i] \/ n \in doubt[i])

LEMMA DraftInvStep ==
  ASSUME TypeInv, TargetInv, DraftInv, TypeOK', NEW i \in Import, Kept(i), Shape(i)
  PROVE  DraftInv'
<1> USE DEF TypeInv
<1>1. SUFFICES ASSUME NEW d \in RowId, draft'[i][d] # NoRow
               PROVE  \E n \in ok'[i] : draft'[i][d] = [key |-> file[i][n].key, by |-> <<i, n>>]
  <2>1. file' = file /\ \A h \in Import \ {i} : draft'[h] = draft[h] /\ ok'[h] = ok[h]
    BY DEF Kept
  <2>2. ASSUME NEW h \in Import \ {i}, NEW d \in RowId, draft'[h][d] # NoRow
        PROVE  \E n \in ok'[h] : draft'[h][d] = [key |-> file'[h][n].key, by |-> <<h, n>>]
    BY <2>1, <2>2 DEF DraftInv
  <2> QED
    BY <2>1, <2>2 DEF DraftInv
<1>2. CASE Closes(i) \/ ImportFails(i)
  <2>1. draft'[i] = NoRows
    BY <1>2 DEF Closes, Ended, ImportFails, LeaveBatch, Unlock, TypeOK
  <2> QED
    BY <1>1, <2>1 DEF NoRows
<1>3. CASE BeginBatch(i) \/ \E n \in Lines(i) : Save(i, n) \/ Rejects(i, n)
  <2>1. draft' = draft /\ ok[i] \subseteq ok'[i]
    BY <1>3 DEF BeginBatch, Save, Rejects, Reject
  <2> QED
    BY <1>1, <2>1 DEF DraftInv
<1>4. ASSUME NEW m \in Lines(i), Write(i, m)
      PROVE  \E n \in ok'[i] : draft'[i][d] = [key |-> file[i][n].key, by |-> <<i, n>>]
  <2>1. ok'[i] = ok[i] \cup {m}
    BY <1>4 DEF Write, TypeOK
  <2>2. CASE d = target[i]
    <3>1. draft'[i][d] = [key |-> file[i][m].key, by |-> <<i, m>>]
      BY <1>4, <2>2 DEF Write, TypeOK
    <3> QED
      BY <2>1, <3>1
  <2>3. CASE d # target[i]
    <3>1. draft'[i][d] = draft[i][d]
      BY <1>4, <2>3 DEF Write, TypeOK
    <3> QED
      BY <1>1, <2>1, <3>1 DEF DraftInv
  <2> QED
    BY <2>2, <2>3
<1> QED
  BY <1>2, <1>3, <1>4 DEF Shape

LEMMA TraceInvStep ==
  ASSUME TypeInv, DraftInv, TraceInv, TypeOK', NEW i \in Import, Kept(i), Shape(i)
  PROVE  TraceInv'
<1> USE DEF TypeInv
<1>1. \A h \in Import : Lines(h)' = Lines(h) /\ Lines(h) \subseteq Line
  BY OthersKept, Places
<1>2. CASE BeginBatch(i) \/ ImportFails(i) \/ \E n \in Lines(i) : Rejects(i, n) \/ Save(i, n) \/ Write(i, n)
  <2>1. start' = start /\ successful' = successful /\ table' = table /\ doubt[i] \subseteq doubt'[i]
    BY <1>2, CountsStay
  <2>2. \A h \in Import : doubt[h] \subseteq doubt'[h]
    BY <2>1 DEF Kept
  <2> QED
    BY <1>1, <2>1, <2>2 DEF TraceInv
<1>3. CASE Closes(i)
  <2>1. PICK good, wrong \in SUBSET Line :
          /\ Ended(i, good, wrong) /\ doubt[i] \subseteq doubt'[i] /\ good \cup wrong = Valid(i)
          /\ \/ table' = table
             \/ table' = Merged(i) /\ good = ok[i]
    BY <1>3 DEF Closes
  <2>2. /\ start'[i] = start[i] + BatchSize /\ successful'[i] = successful[i] \cup good
        /\ start[i] \in Nat /\ BatchSize \in Nat
    BY <2>1, FilesAssumption DEF Ended, TypeOK
  <2>3. ASSUME NEW d \in RowId, NEW h \in Import, NEW n \in Line,
               table[d] # NoRow, table[d].by = <<h, n>>
        PROVE  n < start'[h] /\ n \in Lines(h)' /\ (n \in successful'[h] \/ n \in doubt'[h])
    <3>1. n < start[h] /\ n \in Lines(h) /\ (n \in successful[h] \/ n \in doubt[h])
      BY <2>3 DEF TraceInv
    <3>2. CASE h = i
      BY <1>1, <2>1, <2>2, <3>1, <3>2 DEF Line
    <3>3. CASE h # i
      BY <1>1, <3>1, <3>3 DEF Kept
    <3> QED
      BY <3>2, <3>3
  <2>4. ASSUME NEW d \in RowId, NEW h \in Import, NEW n \in Line,
               draft[i][d] # NoRow, draft[i][d].by = <<h, n>>, good = ok[i]
        PROVE  n < start'[h] /\ n \in Lines(h)' /\ (n \in successful'[h] \/ n \in doubt'[h])
    <3>1. PICK m \in ok[i] : draft[i][d] = [key |-> file[i][m].key, by |-> <<i, m>>]
      BY <2>4 DEF DraftInv
    <3>2. h = i /\ n = m
      BY <2>4, <3>1
    <3>3. n \in Valid(i) /\ n \in Batch(i) /\ n \in Lines(i)
      BY <2>1, <2>4, <3>1, <3>2, Places
    <3>4. n < start[i] + BatchSize
      BY <3>3 DEF Batch
    <3> QED
      BY <1>1, <2>2, <2>4, <3>1, <3>2, <3>3, <3>4
  <2>5. CASE table' = table
    BY <2>3, <2>5 DEF TraceInv
  <2>6. CASE table' = Merged(i) /\ good = ok[i]
    <3>1. \A d \in RowId : table'[d] = IF draft[i][d] # NoRow THEN draft[i][d] ELSE table[d]
      BY <2>6 DEF Merged, Visible
    <3> QED
      BY <2>3, <2>4, <2>6, <3>1 DEF TraceInv
  <2> QED
    BY <2>1, <2>5, <2>6
<1> QED
  BY <1>2, <1>3 DEF Shape

CountInv == EveryLineCounted /\ DraftInv /\ TraceInv

LEMMA InitCount == ASSUME Init PROVE CountInv
<1>1. \A i \in Import : Lines(i) \subseteq Line
  BY InitInv, Places DEF TypeInv
<1>2. ASSUME NEW i \in Import
      PROVE  /\ successful[i] = {} /\ failedRows[i] = {}
             /\ {n \in Lines(i) : n < start[i]} = {}
  BY <1>1, FilesAssumption DEF Init, Line
<1>3. DraftInv
  BY DEF Init, DraftInv, NoRows
<1>4. ASSUME NEW d \in RowId, NEW i \in Import, NEW n \in Line, table[d] # NoRow, table[d].by = <<i, n>>
      PROVE  FALSE
  <2>1. PICK rows \in [Id -> [key : Key, by : {Before}] \cup {NoRow}] :
          table = [e \in RowId |-> IF e \in Id THEN rows[e] ELSE NoRow]
    BY DEF Init
  <2>2. d \in Id /\ table[d] \in [key : Key, by : {Before}]
    BY <1>4, <2>1
  <2>3. table[d].by = Before /\ <<i, n>> \in Import \X Line
    BY <2>2
  <2> QED
    BY <1>4, <2>3, NamesAssumption
<1> QED
  BY <1>2, <1>3, <1>4 DEF CountInv, EveryLineCounted, TraceInv

LEMMA CountsHold == Spec => [](TypeInv /\ TargetInv /\ CountInv)
<1>1. Init => CountInv
  BY InitCount
<1>2. TypeInv /\ TargetInv /\ TypeInv' /\ CountInv /\ [Next]_vars => CountInv'
  <2> SUFFICES ASSUME TypeInv, TargetInv, CountInv, [Next]_vars PROVE CountInv'
    OBVIOUS
  <2>1. TypeOK' /\ (UNCHANGED vars \/ \E i \in Import : Kept(i) /\ Shape(i))
    BY StepShapes
  <2>2. CASE UNCHANGED vars
    BY <2>2 DEF vars, batchVars, totals, CountInv, EveryLineCounted, DraftInv, TraceInv, Lines
  <2>3. CASE \E i \in Import : Kept(i) /\ Shape(i)
    BY <2>1, <2>3, LinesCountedStep, DraftInvStep, TraceInvStep DEF CountInv
  <2> QED
    BY <2>1, <2>2, <2>3
<1> QED
  BY <1>1, <1>2, BatchesHold, PTL DEF Spec

\* Every line before the batch is counted, once unless it is in doubt.
THEOREM CountedTheorem == Spec => []EveryLineCounted
<1>1. TypeInv /\ TargetInv /\ CountInv => EveryLineCounted
  BY DEF CountInv
<1> QED
  BY <1>1, CountsHold, PTL

\* A record that counts as failed, and not in doubt, has not written any row of the table.
THEOREM TraceTheorem == Spec => []FailedLeavesNoTrace
<1>1. ASSUME TypeInv, CountInv PROVE FailedLeavesNoTrace
  <2> SUFFICES ASSUME NEW i \in Import, NEW n \in failedRows[i] \ doubt[i], NEW d \in RowId,
                      table[d] # NoRow, table[d].by = <<i, n>>
               PROVE  FALSE
    BY DEF FailedLeavesNoTrace
  <2>1. n \in Line
    BY <1>1 DEF TypeInv, TypeOK
  <2>2. n \in successful[i]
    BY <1>1, <2>1 DEF CountInv, TraceInv
  <2> QED
    BY <1>1, <2>2 DEF CountInv, EveryLineCounted
<1>2. TypeInv /\ TargetInv /\ CountInv => FailedLeavesNoTrace
  BY <1>1
<1> QED
  BY <1>2, CountsHold, PTL

-----------------------------------------------------------------------------
(* Keys are unique *)

\* Two open transactions have written different rows, with different keys.
LockInv ==
  \A i, j \in Import : i # j => \A d, e \in RowId :
    draft[i][d] # NoRow /\ draft[j][e] # NoRow =>
      d # e /\ (HasKeys => draft[i][d].key # draft[j][e].key)

\* What a transaction sees has no key twice.
VisibleInv ==
  HasKeys => \A i \in Import : \A d, e \in RowId :
    Visible(i, d) # NoRow /\ Visible(i, e) # NoRow /\ Visible(i, d).key = Visible(i, e).key => d = e

UniqueInv == LockInv /\ VisibleInv /\ KeysAreUnique

\* The row an import writes, and what it finds there.
LEMMA WriteDraft ==
  ASSUME TypeInv, TargetInv, NEW i \in Import, NEW n \in Lines(i), Write(i, n)
  PROVE  /\ target[i] \in RowId /\ target[i] = RowOf(i, n) /\ table' = table
         /\ draft'[i][target[i]] = [key |-> file[i][n].key, by |-> <<i, n>>]
         /\ \A d \in RowId \ {target[i]} : draft'[i][d] = draft[i][d]
         /\ \A j \in Import \ {i} : draft'[j] = draft[j]
         /\ draft'[i][target[i]] # NoRow
<1> USE DEF TypeInv
<1>1. n \in Line /\ Writes(i, n)
  BY Places DEF Write
<1>2. target[i] = RowOf(i, n) /\ target[i] \in RowId
  BY <1>1, RowOfType DEF TargetInv
<1>3. [key |-> file[i][n].key, by |-> <<i, n>>] \in Row
  BY <1>1, RowOfType DEF Row, Writer
<1>4. /\ draft'[i][target[i]] = [key |-> file[i][n].key, by |-> <<i, n>>]
      /\ \A d \in RowId \ {target[i]} : draft'[i][d] = draft[i][d]
      /\ \A j \in Import \ {i} : draft'[j] = draft[j]
  BY <1>2 DEF Write, TypeOK
<1> QED
  BY <1>2, <1>3, <1>4, NamesAssumption DEF Write

LEMMA LockInvWrite ==
  ASSUME TypeInv, TargetInv, LockInv, NEW i \in Import, Kept(i), NEW n \in Lines(i), Write(i, n)
  PROVE  LockInv'
<1>0. /\ target[i] \in RowId /\ table' = table
      /\ draft'[i][target[i]] = [key |-> file[i][n].key, by |-> <<i, n>>]
      /\ draft'[i][target[i]].key = file[i][n].key
      /\ \A d \in RowId \ {target[i]} : draft'[i][d] = draft[i][d]
      /\ \A j \in Import \ {i} : draft'[j] = draft[j]
      /\ draft'[i][target[i]] # NoRow
  BY WriteDraft
<1>1. HasKeys' = HasKeys
  BY OthersKept
<1>2. ASSUME NEW j \in Import \ {i}, NEW e \in RowId, draft[j][e] # NoRow
      PROVE  e # target[i] /\ (HasKeys => file[i][n].key # draft[j][e].key)
  BY <1>2 DEF Write, Granted, Waits
<1>3. ASSUME NEW j \in Import \ {i}, NEW d \in RowId, NEW e \in RowId,
             draft'[i][d] # NoRow, draft[j][e] # NoRow
      PROVE  d # e /\ (HasKeys => draft'[i][d].key # draft[j][e].key)
  <2>1. CASE d = target[i]
    BY <1>2, <1>3, <2>1, <1>0
  <2>2. CASE d # target[i]
    BY <1>3, <2>2, <1>0 DEF LockInv
  <2> QED
    BY <2>1, <2>2
<1>4. \A j \in Import \ {i} : draft'[j] = draft[j]
  BY <1>0
<1> QED
  BY <1>1, <1>3, <1>4 DEF LockInv

LEMMA VisibleInvWrite ==
  ASSUME TypeInv, TargetInv, VisibleInv, NEW i \in Import, Kept(i), NEW n \in Lines(i), Write(i, n)
  PROVE  VisibleInv'
<1>0. /\ target[i] \in RowId /\ table' = table
      /\ draft'[i][target[i]] = [key |-> file[i][n].key, by |-> <<i, n>>]
      /\ draft'[i][target[i]].key = file[i][n].key
      /\ \A d \in RowId \ {target[i]} : draft'[i][d] = draft[i][d]
      /\ \A j \in Import \ {i} : draft'[j] = draft[j]
      /\ draft'[i][target[i]] # NoRow
  BY WriteDraft
<1>1. HasKeys' = HasKeys /\ table' = table /\ target[i] \in RowId
  BY OthersKept, <1>0
<1>2. \A j \in Import \ {i} : \A d \in RowId : Visible(j, d)' = Visible(j, d)
  BY <1>1, <1>0 DEF Visible
<1>3. \A d \in RowId \ {target[i]} : Visible(i, d)' = Visible(i, d)
  BY <1>1, <1>0 DEF Visible
<1>4. \A d \in RowId : d = target[i] => Visible(i, d)'.key = file[i][n].key
  BY <1>1, <1>0 DEF Visible
<1>5. HasKeys => \A e \in RowId \ {target[i]} :
        Visible(i, e) # NoRow => Visible(i, e).key # file[i][n].key
  BY DEF Write, Conflict, KeyTaken
<1>6. ASSUME HasKeys, NEW d \in RowId, NEW e \in RowId, d # e,
             Visible(i, d)' # NoRow, Visible(i, e)' # NoRow
      PROVE  Visible(i, d)'.key # Visible(i, e)'.key
  <2>1. CASE d = target[i]
    BY <1>3, <1>4, <1>5, <1>6, <2>1
  <2>2. CASE e = target[i]
    BY <1>3, <1>4, <1>5, <1>6, <2>2
  <2>3. CASE d # target[i] /\ e # target[i]
    BY <1>3, <1>6, <2>3 DEF VisibleInv
  <2> QED
    BY <2>1, <2>2, <2>3
<1> QED
  BY <1>1, <1>2, <1>6 DEF VisibleInv

\* A commit of i: nobody else has a lock on what it has written.
LEMMA CommitUnique ==
  ASSUME TypeInv, UniqueInv, HasKeys, NEW i \in Import, Kept(i), draft'[i] = NoRows, table' = Merged(i)
  PROVE  KeysAreUnique' /\ VisibleInv'
<1>1. \A d \in RowId : table'[d] = Visible(i, d)
  BY DEF Merged
<1>2. HasKeys' = HasKeys
  BY OthersKept
<1>3. KeysAreUnique'
  BY <1>1, <1>2 DEF KeysAreUnique, UniqueInv, VisibleInv
<1>4. \A d \in RowId : Visible(i, d)' = Visible(i, d)
  BY <1>1 DEF Visible, NoRows
<1>5. ASSUME NEW j \in Import \ {i}, NEW d \in RowId, NEW e \in RowId, d # e,
             Visible(j, d)' # NoRow, Visible(j, e)' # NoRow
      PROVE  Visible(j, d)'.key # Visible(j, e)'.key
  <2>1. \A c \in RowId : Visible(j, c)' = IF draft[j][c] # NoRow THEN draft[j][c] ELSE Visible(i, c)
    BY <1>1 DEF Visible, Kept
  <2>2. \A b, c \in RowId : draft[j][b] # NoRow /\ draft[i][c] # NoRow => draft[j][b].key # draft[i][c].key
    BY DEF UniqueInv, LockInv
  <2>3. CASE draft[j][d] = NoRow /\ draft[j][e] = NoRow
    BY <1>5, <2>1, <2>3 DEF UniqueInv, VisibleInv
  <2>4. CASE draft[j][d] # NoRow /\ draft[j][e] # NoRow
    BY <1>5, <2>1, <2>4 DEF UniqueInv, VisibleInv, Visible
  <2>5. ASSUME NEW b \in RowId, NEW c \in RowId, b # c, draft[j][b] # NoRow, draft[j][c] = NoRow,
               Visible(i, c) # NoRow
        PROVE  draft[j][b].key # Visible(i, c).key
    <3>1. CASE draft[i][c] # NoRow
      BY <2>2, <2>5, <3>1 DEF Visible
    <3>2. CASE draft[i][c] = NoRow
      <4>1. Visible(i, c) = table[c] /\ Visible(j, c) = table[c] /\ Visible(j, b) = draft[j][b]
        BY <2>5, <3>2 DEF Visible
      <4> QED
        BY <2>5, <4>1 DEF UniqueInv, VisibleInv
    <3> QED
      BY <3>1, <3>2
  <2> QED
    BY <1>5, <2>1, <2>3, <2>4, <2>5
<1> QED
  BY <1>2, <1>3, <1>4, <1>5 DEF UniqueInv, VisibleInv

\* A transaction that ends has no locks any more.
LEMMA LockInvEnd ==
  ASSUME LockInv, NEW i \in Import, Kept(i), draft'[i] = NoRows
  PROVE  LockInv'
<1>1. HasKeys' = HasKeys /\ \A j \in Import \ {i} : draft'[j] = draft[j]
  BY OthersKept DEF Kept
<1>2. \A d \in RowId : draft'[i][d] = NoRow
  BY DEF NoRows
<1> QED
  BY <1>1, <1>2 DEF LockInv

\* ROLLBACK shows i the table as it is.
LEMMA RollbackUnique ==
  ASSUME UniqueInv, NEW i \in Import, Kept(i), draft'[i] = NoRows, table' = table
  PROVE  KeysAreUnique' /\ VisibleInv'
<1>1. HasKeys' = HasKeys
  BY OthersKept
<1>2. KeysAreUnique'
  BY <1>1 DEF KeysAreUnique, UniqueInv
<1>3. \A d \in RowId : Visible(i, d)' = table[d]
  BY DEF Visible, NoRows
<1>4. \A j \in Import \ {i} : \A d \in RowId : Visible(j, d)' = Visible(j, d)
  BY DEF Visible, Kept
<1> QED
  BY <1>1, <1>2, <1>3, <1>4 DEF UniqueInv, VisibleInv, KeysAreUnique

LEMMA UniqueInvStep ==
  ASSUME TypeInv, TargetInv, UniqueInv, TypeOK', NEW i \in Import, Kept(i), Shape(i)
  PROVE  UniqueInv'
<1> USE DEF TypeInv
<1>1. HasKeys' = HasKeys
  BY OthersKept
<1>2. CASE Closes(i) \/ ImportFails(i)
  <2>1. draft'[i] = NoRows /\ (table' = table \/ table' = Merged(i))
    BY <1>2 DEF Closes, Ended, ImportFails, LeaveBatch, Unlock, TypeOK
  <2>2. LockInv'
    BY <2>1, LockInvEnd DEF UniqueInv
  <2>3. CASE HasKeys
    BY <2>1, <2>2, <2>3, CommitUnique, RollbackUnique DEF UniqueInv
  <2>4. CASE ~HasKeys
    BY <1>1, <2>2, <2>4 DEF UniqueInv, VisibleInv, KeysAreUnique
  <2> QED
    BY <2>3, <2>4
<1>3. CASE BeginBatch(i) \/ \E n \in Lines(i) : Save(i, n) \/ Rejects(i, n)
  <2>1. draft' = draft /\ table' = table
    BY <1>3 DEF BeginBatch, Save, Rejects, Reject
  <2>2. \A j \in Import : \A d \in RowId : Visible(j, d)' = Visible(j, d)
    BY <2>1 DEF Visible
  <2> QED
    BY <1>1, <2>1, <2>2 DEF UniqueInv, LockInv, VisibleInv, KeysAreUnique
<1>4. ASSUME NEW n \in Lines(i), Write(i, n) PROVE UniqueInv'
  <2>1. table' = table
    BY <1>4 DEF Write
  <2>2. KeysAreUnique'
    BY <1>1, <2>1 DEF UniqueInv, KeysAreUnique
  <2> QED
    BY <1>4, <2>2, LockInvWrite, VisibleInvWrite DEF UniqueInv
<1> QED
  BY <1>2, <1>3, <1>4 DEF Shape

LEMMA InitUnique == ASSUME Init PROVE UniqueInv
<1>1. \A i \in Import : \A d \in RowId : draft[i][d] = NoRow /\ Visible(i, d) = table[d]
  BY DEF Init, NoRows, Visible
<1>2. PICK rows \in [Id -> [key : Key, by : {Before}] \cup {NoRow}] :
        /\ \A d, e \in Id : rows[d] # NoRow /\ rows[d] = rows[e] => d = e
        /\ table = [d \in RowId |-> IF d \in Id THEN rows[d] ELSE NoRow]
  BY DEF Init
<1>3. ASSUME NEW d \in RowId, NEW e \in RowId,
             table[d] # NoRow, table[e] # NoRow, table[d].key = table[e].key
      PROVE  d = e
  <2>1. /\ d \in Id /\ rows[d] \in [key : Key, by : {Before}] /\ rows[d] # NoRow /\ rows[d] = table[d]
        /\ e \in Id /\ rows[e] \in [key : Key, by : {Before}] /\ rows[e] # NoRow /\ rows[e] = table[e]
    BY <1>2, <1>3
  <2>2. rows[d] = rows[e]
    BY <1>3, <2>1
  <2> QED
    BY <1>2, <2>1, <2>2
<1> QED
  BY <1>1, <1>3 DEF UniqueInv, LockInv, VisibleInv, KeysAreUnique

LEMMA UniqueHolds == Spec => [](TypeInv /\ TargetInv /\ CountInv /\ UniqueInv)
<1>1. Init => UniqueInv
  BY InitUnique
<1>2. TypeInv /\ TargetInv /\ UniqueInv /\ [Next]_vars => UniqueInv'
  <2> SUFFICES ASSUME TypeInv, TargetInv, UniqueInv, [Next]_vars PROVE UniqueInv'
    OBVIOUS
  <2>1. TypeOK' /\ (UNCHANGED vars \/ \E i \in Import : Kept(i) /\ Shape(i))
    BY StepShapes
  <2>2. CASE UNCHANGED vars
    <3>1. table' = table /\ draft' = draft /\ kind' = kind
      BY <2>2 DEF vars
    <3> QED
      BY <3>1 DEF UniqueInv, LockInv, VisibleInv, Visible, KeysAreUnique, HasKeys
  <2>3. CASE \E i \in Import : Kept(i) /\ Shape(i)
    BY <2>1, <2>3, UniqueInvStep
  <2> QED
    BY <2>1, <2>2, <2>3
<1> QED
  BY <1>1, <1>2, CountsHold, PTL DEF Spec

\* No key is in the table twice, whatever imports read before they wrote.
THEOREM UniqueTheorem == Spec => []KeysAreUnique
<1>1. TypeInv /\ TargetInv /\ CountInv /\ UniqueInv => KeysAreUnique
  BY DEF UniqueInv
<1> QED
  BY <1>1, UniqueHolds, PTL

-----------------------------------------------------------------------------
(* Rows keep their key, and what is successful is stored *)

\* The rows a batch has found still have the keys it looked for.
KnownInv ==
  \A i \in Import : \A k \in Key : \A d \in RowId :
    known[i][k] = d => table[d] # NoRow /\ table[d].key = k

\* Rows with fresh ids are those of batches that are over.
FreshInv == \A i \in Import : \A n \in Line : table[<<i, n>>] # NoRow => n < start[i]

\* A draft is of a row that has the same key in the table, or of a row that is new.
SameKeyInv ==
  \A i \in Import : \A d \in RowId : draft[i][d] # NoRow =>
    \/ table[d] # NoRow /\ table[d].key = draft[i][d].key
    \/ table[d] = NoRow /\ \E n \in ok[i] : d = <<i, n>>

Matching == KeysOnly /\ HasKeys
KeyInv == Matching => KnownInv /\ FreshInv /\ SameKeyInv

\* The place of a record is a row.
LEMMA PlaceIsRow == ASSUME NEW i \in Import, NEW n \in Line PROVE <<i, n>> \in RowId
BY DEF RowId

\* What a write does to the row it writes.
LEMMA WriteKey ==
  ASSUME TypeInv, TargetInv, KeyInv, Matching, NEW i \in Import, NEW n \in Lines(i), Write(i, n)
  PROVE  \/ table[target[i]] # NoRow /\ table[target[i]].key = file[i][n].key
         \/ target[i] = <<i, n>> /\ table[<<i, n>>] = NoRow
<1> USE DEF TypeInv
<1>1. n \in Line /\ n \in todo[i] /\ start[i] <= n /\ start[i] \in Nat
  BY Places DEF Write, Writes, At, TypeOK
<1>2. target[i] \in RowId /\ target[i] = RowOf(i, n) /\ file[i][n].key \in Key
  BY WriteDraft, RowOfType
<1>3. CASE known[i][file[i][n].key] # NoId
  <2>1. target[i] = known[i][file[i][n].key]
    BY <1>2, <1>3 DEF RowOf, Matching
  <2> QED
    BY <1>2, <2>1 DEF KeyInv, KnownInv
<1>4. CASE known[i][file[i][n].key] = NoId
  <2>1. file[i][n].id = NoId
    BY DEF Matching, KeysOnly
  <2>2. target[i] = <<i, n>>
    BY <1>2, <1>4, <2>1 DEF RowOf
  <2>3. ~(n < start[i])
    BY <1>1 DEF Line
  <2> QED
    BY <1>1, <2>2, <2>3 DEF KeyInv, FreshInv
<1> QED
  BY <1>3, <1>4

\* A commit keeps the rows of the table and their keys.
LEMMA MergedKeeps ==
  ASSUME TypeInv, NEW i \in Import, NEW d \in RowId, table[d] # NoRow, table' = table \/ table' = Merged(i)
  PROVE  table'[d] # NoRow /\ (SameKeyInv => table'[d].key = table[d].key)
<1>1. CASE table' = Merged(i)
  <2>1. table'[d] = IF draft[i][d] # NoRow THEN draft[i][d] ELSE table[d]
    BY <1>1 DEF Merged, Visible
  <2> QED
    BY <2>1 DEF SameKeyInv
<1> QED
  BY <1>1

LEMMA KeyInvCloses ==
  ASSUME TypeInv, LockInv, KnownInv, FreshInv, SameKeyInv, NEW i \in Import, Kept(i), Closes(i), TypeOK'
  PROVE  KnownInv' /\ FreshInv' /\ SameKeyInv'
<1> USE DEF TypeInv
<1>1. /\ start'[i] = start[i] + BatchSize /\ draft'[i] = NoRows /\ known'[i] = NoKeys
      /\ table' = table \/ table' = Merged(i)
      /\ ok[i] \subseteq Line /\ ok[i] \subseteq todo[i] \cup ok[i] \cup bad[i]
      /\ start[i] \in Nat /\ BatchSize \in Nat
  BY FilesAssumption DEF Closes, Ended, TypeOK
<1>2. KnownInv'
  <2>1. ASSUME NEW h \in Import \ {i}, NEW k \in Key, NEW d \in RowId, known'[h][k] = d
        PROVE  table'[d] # NoRow /\ table'[d].key = k
    <3>1. known[h][k] = d
      BY <2>1 DEF Kept
    <3>2. table[d] # NoRow /\ table[d].key = k
      BY <3>1 DEF KnownInv
    <3> QED
      BY <1>1, <3>2, MergedKeeps
  <2>2. \A k \in Key : \A d \in RowId : known'[i][k] # d
    BY <1>1, NamesAssumption DEF NoKeys
  <2> QED
    BY <2>1, <2>2 DEF KnownInv
<1>3. FreshInv'
  <2>1. ASSUME NEW h \in Import, NEW n \in Line, table'[<<h, n>>] # NoRow
        PROVE  n < start'[h]
    <3>1. CASE table[<<h, n>>] # NoRow
      <4>1. n < start[h] /\ start[h] \in Nat /\ n \in Nat
        BY <3>1, FilesAssumption DEF FreshInv, TypeOK, Line
      <4>2. CASE h = i
        BY <1>1, <4>1, <4>2
      <4>3. CASE h # i
        BY <4>1, <4>3 DEF Kept
      <4> QED
        BY <4>2, <4>3
    <3>2. CASE table[<<h, n>>] = NoRow
      <4>1. <<h, n>> \in RowId
        BY PlaceIsRow
      <4>2. draft[i][<<h, n>>] # NoRow
        BY <1>1, <2>1, <3>2, <4>1 DEF Merged, Visible
      <4>3. PICK m \in ok[i] : <<h, n>> = <<i, m>>
        BY <3>2, <4>1, <4>2 DEF SameKeyInv
      <4>4. h = i /\ n \in ok[i]
        BY <4>3
      <4>5. n < start[i] + BatchSize
        BY <4>4 DEF TypeOK
      <4> QED
        BY <1>1, <4>4, <4>5
    <3> QED
      BY <3>1, <3>2
  <2> QED
    BY <2>1 DEF FreshInv
<1>4. SameKeyInv'
  <2>1. ASSUME NEW h \in Import \ {i}, NEW d \in RowId, draft'[h][d] # NoRow
        PROVE  table'[d] = table[d] /\ draft'[h][d] = draft[h][d] /\ ok'[h] = ok[h]
    <3>1. draft'[h] = draft[h] /\ ok'[h] = ok[h]
      BY DEF Kept
    <3>2. draft[i][d] = NoRow
      BY <2>1, <3>1 DEF LockInv
    <3> QED
      BY <1>1, <3>1, <3>2 DEF Merged, Visible
  <2>2. \A d \in RowId : draft'[i][d] = NoRow
    BY <1>1 DEF NoRows
  <2> QED
    BY <2>1, <2>2 DEF SameKeyInv
<1> QED
  BY <1>2, <1>3, <1>4

LEMMA KeyInvStep ==
  ASSUME TypeInv, TargetInv, LockInv, KeyInv, TypeOK', NEW i \in Import, Kept(i), Shape(i)
  PROVE  KeyInv'
<1> USE DEF TypeInv
<1>1. Matching' = Matching
  BY OthersKept DEF Matching
<1> SUFFICES ASSUME Matching PROVE KnownInv' /\ FreshInv' /\ SameKeyInv'
  BY <1>1 DEF KeyInv
<1>2. KnownInv /\ FreshInv /\ SameKeyInv
  BY DEF KeyInv
<1>3. CASE Closes(i)
  BY <1>2, <1>3, KeyInvCloses
<1>4. CASE ImportFails(i)
  <2>1. table' = table /\ start' = start /\ draft'[i] = NoRows /\ known'[i] = NoKeys
    BY <1>4 DEF ImportFails, LeaveBatch, Unlock, TypeOK
  <2>2. \A k \in Key : \A d \in RowId : known'[i][k] # d
    BY <2>1, NamesAssumption DEF NoKeys
  <2>3. KnownInv'
    BY <1>2, <2>1, <2>2 DEF KnownInv, Kept
  <2>4. \A d \in RowId : draft'[i][d] = NoRow
    BY <2>1 DEF NoRows
  <2>5. SameKeyInv'
    BY <1>2, <2>1, <2>4 DEF SameKeyInv, Kept
  <2> QED
    BY <1>2, <2>1, <2>3, <2>5 DEF FreshInv
<1>5. CASE BeginBatch(i)
  <2>1. table' = table /\ start' = start /\ draft' = draft /\ ok' = ok
    BY <1>5 DEF BeginBatch
  <2>2. \A k \in Key : known'[i][k] =
          IF HasKeys /\ RowsWith(k) # {} THEN CHOOSE d \in RowsWith(k) : TRUE ELSE NoId
    BY <1>5 DEF BeginBatch, TypeOK
  <2>3. ASSUME NEW k \in Key, NEW d \in RowId, known'[i][k] = d
        PROVE  table[d] # NoRow /\ table[d].key = k
    <3>1. RowsWith(k) # {} /\ d = CHOOSE e \in RowsWith(k) : TRUE
      BY <2>2, <2>3, NamesAssumption
    <3> QED
      BY <3>1 DEF RowsWith
  <2>4. KnownInv'
    BY <1>2, <2>1, <2>3 DEF KnownInv, Kept
  <2> QED
    BY <1>2, <2>1, <2>4 DEF FreshInv, SameKeyInv
<1>6. CASE \E n \in Lines(i) : Save(i, n) \/ Rejects(i, n)
  <2>1. table' = table /\ start' = start /\ draft' = draft /\ known' = known /\ ok[i] \subseteq ok'[i]
    BY <1>6 DEF Save, Rejects, Reject, totals
  <2>2. \A h \in Import : ok[h] \subseteq ok'[h]
    BY <2>1 DEF Kept
  <2> QED
    BY <1>2, <2>1, <2>2 DEF KnownInv, FreshInv, SameKeyInv
<1>7. ASSUME NEW n \in Lines(i), Write(i, n)
      PROVE  KnownInv' /\ FreshInv' /\ SameKeyInv'
  <2>1. table' = table /\ start' = start /\ known' = known /\ ok'[i] = ok[i] \cup {n}
    BY <1>7 DEF Write, totals, TypeOK
  <2>2. /\ draft'[i][target[i]] = [key |-> file[i][n].key, by |-> <<i, n>>]
        /\ draft'[i][target[i]].key = file[i][n].key
        /\ \A d \in RowId \ {target[i]} : draft'[i][d] = draft[i][d]
    BY <1>7, WriteDraft
  <2>3. \/ table[target[i]] # NoRow /\ table[target[i]].key = file[i][n].key
        \/ target[i] = <<i, n>> /\ table[<<i, n>>] = NoRow
    BY <1>7, WriteKey
  <2>4. SameKeyInv'
    BY <1>2, <2>1, <2>2, <2>3 DEF SameKeyInv, Kept
  <2> QED
    BY <1>2, <2>1, <2>4 DEF KnownInv, FreshInv
<1> QED
  BY <1>3, <1>4, <1>5, <1>6, <1>7 DEF Shape

LEMMA InitKeys == ASSUME Init PROVE KeyInv
<1>1. KnownInv
  BY NamesAssumption DEF Init, KnownInv, NoKeys
<1>2. SameKeyInv
  BY DEF Init, SameKeyInv, NoRows
<1>3. ASSUME NEW i \in Import, NEW n \in Line PROVE table[<<i, n>>] = NoRow
  <2>1. <<i, n>> \in RowId /\ <<i, n>> \notin Id
    BY NamesAssumption, PlaceIsRow
  <2> QED
    BY <2>1 DEF Init
<1> QED
  BY <1>1, <1>2, <1>3 DEF KeyInv, FreshInv

LEMMA KeysHold == Spec => [](TypeInv /\ TargetInv /\ UniqueInv /\ KeyInv)
<1>1. Init => KeyInv
  BY InitKeys
<1>2. TypeInv /\ TargetInv /\ UniqueInv /\ KeyInv /\ [Next]_vars => KeyInv'
  <2> SUFFICES ASSUME TypeInv, TargetInv, UniqueInv, KeyInv, [Next]_vars PROVE KeyInv'
    OBVIOUS
  <2>1. TypeOK' /\ (UNCHANGED vars \/ \E i \in Import : Kept(i) /\ Shape(i))
    BY StepShapes
  <2>2. CASE UNCHANGED vars
    BY <2>2 DEF vars, batchVars, totals, KeyInv, Matching, KeysOnly, HasKeys, Lines, KnownInv, FreshInv, SameKeyInv
  <2>3. CASE \E i \in Import : Kept(i) /\ Shape(i)
    BY <2>1, <2>3, KeyInvStep DEF UniqueInv
  <2> QED
    BY <2>1, <2>2, <2>3
<1> QED
  BY <1>1, <1>2, UniqueHolds, PTL DEF Spec

\* No step gives the row of one key to another or takes it away, for any number of imports.
THEOREM KeepTheorem == Spec => RowsKeepTheirKey
<1>1. TypeInv /\ TargetInv /\ KeyInv /\ [Next]_vars =>
        [Matching => \A d \in RowId : table[d] # NoRow =>
           table'[d] # NoRow /\ table'[d].key = table[d].key]_vars
  <2> SUFFICES ASSUME TypeInv, TargetInv, KeyInv, [Next]_vars, Matching, NEW d \in RowId, table[d] # NoRow
               PROVE  table'[d] # NoRow /\ table'[d].key = table[d].key
    OBVIOUS
  <2>1. UNCHANGED vars \/ \E i \in Import : Shape(i)
    BY StepShapes
  <2>2. CASE UNCHANGED vars
    BY <2>2 DEF vars
  <2>3. ASSUME NEW i \in Import, Shape(i)
        PROVE  table' = table \/ table' = Merged(i)
    BY <2>3, CountsStay DEF Shape, Closes
  <2> QED
    BY <2>1, <2>2, <2>3, MergedKeeps DEF KeyInv
<1>2. [Matching => \A d \in RowId : table[d] # NoRow =>
           table'[d] # NoRow /\ table'[d].key = table[d].key]_vars
      => [KeysOnly /\ HasKeys => \A d \in RowId : table[d] # NoRow =>
           table'[d] # NoRow /\ table'[d].key = table[d].key]_vars
  BY DEF Matching
<1> QED
  BY <1>1, <1>2, KeysHold, PTL DEF Spec, RowsKeepTheirKey

\* Where a comment is: its record names the row, or has it made.
Place(i, n) == IF file[i][n].id # NoId THEN file[i][n].id ELSE <<i, n>>

\* What a batch counts as successful, and not in doubt, is among the drafts.
StoredInv ==
  KeysOnly =>
    \A i \in Import : \A n \in ok[i] \ doubt[i] :
      IF HasKeys
      THEN \E d \in RowId : draft[i][d] # NoRow /\ draft[i][d].key = file[i][n].key
      ELSE draft[i][Place(i, n)] # NoRow

LEMMA PlaceOfType ==
  ASSUME TypeOK, NEW i \in Import, NEW n \in Lines(i)
  PROVE  Place(i, n) \in RowId /\ (~HasKeys => RowOf(i, n) = Place(i, n))
<1>1. file[i][n].id \in Id \cup {NoId} /\ n \in Line
  BY RowOfType, Places
<1> QED
  BY <1>1 DEF Place, RowOf, RowId

\* A write adds its record to the drafts and leaves those there are under their keys.
LEMMA StoredWrite ==
  ASSUME TypeInv, TargetInv, KeyInv, StoredInv, NEW i \in Import, NEW n \in Lines(i), Write(i, n), KeysOnly,
         NEW m \in (ok[i] \cup {n}) \ doubt[i]
  PROVE  IF HasKeys
         THEN \E d \in RowId : draft'[i][d] # NoRow /\ draft'[i][d].key = file[i][m].key
         ELSE draft'[i][Place(i, m)] # NoRow
<1> USE DEF TypeInv
<1>1. /\ target[i] \in RowId /\ target[i] = RowOf(i, n)
      /\ draft'[i][target[i]] = [key |-> file[i][n].key, by |-> <<i, n>>]
      /\ draft'[i][target[i]] # NoRow /\ draft'[i][target[i]].key = file[i][n].key
      /\ \A d \in RowId \ {target[i]} : draft'[i][d] = draft[i][d]
  BY WriteDraft
<1>2. CASE m = n
  BY <1>1, <1>2, PlaceOfType
<1>3. CASE m # n /\ ~HasKeys
  <2>1. m \in ok[i] \ doubt[i]
    BY <1>3
  <2>2. draft[i][Place(i, m)] # NoRow
    BY <1>3, <2>1 DEF StoredInv
  <2>3. m \in Line /\ pc[i] \in {"insert", "update"}
    BY <2>1 DEF TypeOK, Write, Writes, At
  <2>4. m \in Valid(i)
    BY <2>1, <2>3 DEF BatchInv
  <2>5. Place(i, m) \in RowId
    BY <2>4, Places, PlaceOfType
  <2> QED
    BY <1>1, <1>3, <2>2, <2>5
<1>4. CASE m # n /\ HasKeys
  <2>1. m \in ok[i] \ doubt[i]
    BY <1>4
  <2>2. PICK d \in RowId : draft[i][d] # NoRow /\ draft[i][d].key = file[i][m].key
    BY <1>4, <2>1 DEF StoredInv
  <2>3. CASE d # target[i]
    BY <1>1, <1>4, <2>2, <2>3
  <2>4. CASE d = target[i]
    <3>1. \/ table[d] # NoRow /\ table[d].key = draft[i][d].key
          \/ table[d] = NoRow /\ \E l \in ok[i] : d = <<i, l>>
      BY <1>4, <2>2 DEF KeyInv, Matching, SameKeyInv
    <3>2. \/ table[d] # NoRow /\ table[d].key = file[i][n].key
          \/ d = <<i, n>> /\ table[d] = NoRow
      BY <1>4, <2>4, WriteKey DEF Matching
    <3>3. n \notin ok[i]
      BY DEF Write, Writes, At, BatchInv
    <3>4. table[d] # NoRow
      BY <3>1, <3>2, <3>3
    <3>5. file[i][n].key = file[i][m].key
      BY <2>2, <3>1, <3>2, <3>4
    <3> QED
      BY <1>1, <1>4, <3>5
  <2> QED
    BY <2>3, <2>4
<1> QED
  BY <1>2, <1>3, <1>4

LEMMA StoredInvStep ==
  ASSUME TypeInv, TargetInv, KeyInv, StoredInv, TypeOK', NEW i \in Import, Kept(i), Shape(i)
  PROVE  StoredInv'
<1> USE DEF TypeInv
<1>1. /\ file' = file /\ HasKeys' = HasKeys /\ KeysOnly' = KeysOnly
      /\ \A h \in Import : \A n : Place(h, n)' = Place(h, n)
  BY OthersKept DEF Kept, Place
<1>2. SUFFICES ASSUME KeysOnly, NEW m \in ok'[i] \ doubt'[i]
               PROVE  IF HasKeys
                      THEN \E d \in RowId : draft'[i][d] # NoRow /\ draft'[i][d].key = file[i][m].key
                      ELSE draft'[i][Place(i, m)] # NoRow
  <2>1. ASSUME KeysOnly, NEW h \in Import \ {i}, NEW m \in ok'[h] \ doubt'[h]
        PROVE  IF HasKeys
               THEN \E d \in RowId : draft'[h][d] # NoRow /\ draft'[h][d].key = file[h][m].key
               ELSE draft'[h][Place(h, m)] # NoRow
    <3>1. m \in ok[h] \ doubt[h] /\ draft'[h] = draft[h]
      BY <2>1 DEF Kept
    <3> QED
      BY <2>1, <3>1 DEF StoredInv
  <2> QED
    BY <1>1, <2>1 DEF StoredInv
<1>3. CASE Closes(i) \/ ImportFails(i)
  <2>1. ok'[i] = {}
    BY <1>3 DEF Closes, Ended, ImportFails, LeaveBatch, TypeOK
  <2> QED
    BY <1>2, <2>1
<1>4. CASE BeginBatch(i) \/ \E n \in Lines(i) : Save(i, n) \/ Rejects(i, n)
  <2>1. draft' = draft /\ m \in ok[i] \ doubt[i]
    BY <1>2, <1>4 DEF BeginBatch, Save, Rejects, Reject, totals
  <2> QED
    BY <1>2, <2>1 DEF StoredInv
<1>5. ASSUME NEW n \in Lines(i), Write(i, n)
      PROVE  m \in (ok[i] \cup {n}) \ doubt[i]
  BY <1>2, <1>5 DEF Write, totals, TypeOK
<1>6. CASE \E n \in Lines(i) : Write(i, n)
  BY <1>2, <1>5, <1>6, StoredWrite
<1> QED
  BY <1>3, <1>4, <1>6 DEF Shape

\* A batch that ends puts what it counts as successful into the table and takes nothing away.
LEMMA SuccessfulCloses ==
  ASSUME TypeInv, CountInv, KeyInv, StoredInv, SuccessfulIsStored, KeysOnly,
         NEW i \in Import, Kept(i), Closes(i), NEW h \in Import, NEW n \in successful'[h] \ doubt'[h]
  PROVE  IF HasKeys
         THEN \E d \in RowId : table'[d] # NoRow /\ table'[d].key = file[h][n].key
         ELSE table'[Place(h, n)] # NoRow
<1> USE DEF TypeInv
<1>1. PICK good, wrong \in SUBSET Line :
        /\ Ended(i, good, wrong) /\ doubt[i] \subseteq doubt'[i] /\ good \cup wrong = Valid(i)
        /\ \/ table' = table /\ good \subseteq doubt'[i]
           \/ table' = Merged(i) /\ good = ok[i]
  BY DEF Closes
<1>2. successful'[i] = successful[i] \cup good
  BY <1>1 DEF Ended
<1>3. CASE n \in successful[h] \ doubt[h]
  <2>1. n \in Lines(h)
    BY <1>3 DEF CountInv, EveryLineCounted
  <2>2. Place(h, n) \in RowId
    BY <2>1, PlaceOfType
  <2>3. CASE HasKeys
    <3>1. PICK d \in RowsWith(file[h][n].key) : TRUE
      BY <1>3, <2>3 DEF SuccessfulIsStored
    <3>2. d \in RowId /\ table[d] # NoRow /\ table[d].key = file[h][n].key
      BY <3>1 DEF RowsWith
    <3>3. SameKeyInv
      BY <2>3 DEF KeyInv, Matching
    <3> QED
      BY <1>1, <2>3, <3>2, <3>3, MergedKeeps
  <2>4. CASE ~HasKeys
    <3>1. table[Place(h, n)] # NoRow
      BY <1>3, <2>4 DEF SuccessfulIsStored, Place
    <3> QED
      BY <1>1, <2>2, <2>4, <3>1, MergedKeeps
  <2> QED
    BY <2>3, <2>4
<1>4. CASE ~(n \in successful[h] \ doubt[h])
  <2>1. h = i /\ n \in good /\ n \notin doubt'[i]
    BY <1>1, <1>2, <1>4 DEF Kept
  <2>2. table' = Merged(i) /\ n \in ok[i] \ doubt[i]
    BY <1>1, <2>1
  <2>3. n \in Lines(i)
    BY <1>1, <2>1, Places
  <2>4. \A d \in RowId : draft[i][d] # NoRow => table'[d] = draft[i][d]
    BY <2>2 DEF Merged, Visible
  <2>5. Place(i, n) \in RowId
    BY <2>3, PlaceOfType
  <2> QED
    BY <2>1, <2>2, <2>4, <2>5 DEF StoredInv
<1> QED
  BY <1>3, <1>4

LEMMA SuccessfulStep ==
  ASSUME TypeInv, CountInv, KeyInv, StoredInv, SuccessfulIsStored, NEW i \in Import, Kept(i), Shape(i)
  PROVE  SuccessfulIsStored'
<1>1. file' = file /\ HasKeys' = HasKeys /\ KeysOnly' = KeysOnly
  BY OthersKept DEF Kept
<1>2. CASE Closes(i)
  <2>1. ASSUME KeysOnly, NEW h \in Import, NEW n \in successful'[h] \ doubt'[h]
        PROVE  IF HasKeys
               THEN \E d \in RowId : table'[d] # NoRow /\ table'[d].key = file[h][n].key
               ELSE table'[IF file[h][n].id # NoId THEN file[h][n].id ELSE <<h, n>>] # NoRow
    BY <1>2, <2>1, SuccessfulCloses DEF Place
  <2>2. ASSUME NEW k, NEW d \in RowId, table'[d] # NoRow, table'[d].key = k
        PROVE  RowsWith(k)' # {}
    BY <2>2 DEF RowsWith
  <2> QED
    BY <1>1, <2>1, <2>2 DEF SuccessfulIsStored
<1>3. CASE BeginBatch(i) \/ ImportFails(i) \/ \E n \in Lines(i) : Rejects(i, n) \/ Save(i, n) \/ Write(i, n)
  <2>1. successful' = successful /\ table' = table /\ doubt[i] \subseteq doubt'[i]
    BY <1>3, CountsStay
  <2>2. \A h \in Import : doubt[h] \subseteq doubt'[h]
    BY <2>1 DEF Kept
  <2>3. \A k : RowsWith(k)' = RowsWith(k)
    BY <2>1 DEF RowsWith
  <2> QED
    BY <1>1, <2>1, <2>2, <2>3 DEF SuccessfulIsStored
<1> QED
  BY <1>2, <1>3 DEF Shape

\* What is counted as successful, and not in doubt, is in the table, whatever other imports do.
THEOREM StoredTheorem == Spec => []SuccessfulIsStored
<1>1. Init => StoredInv /\ SuccessfulIsStored
  BY DEF Init, StoredInv, SuccessfulIsStored
<1>2. TypeInv /\ TargetInv /\ TypeInv' /\ CountInv /\ KeyInv /\ StoredInv /\ SuccessfulIsStored /\ [Next]_vars
        => StoredInv' /\ SuccessfulIsStored'
  <2> SUFFICES ASSUME TypeInv, TargetInv, TypeInv', CountInv, KeyInv, StoredInv, SuccessfulIsStored, [Next]_vars
               PROVE  StoredInv' /\ SuccessfulIsStored'
    OBVIOUS
  <2>1. TypeOK' /\ (UNCHANGED vars \/ \E i \in Import : Kept(i) /\ Shape(i))
    BY StepShapes
  <2>2. CASE UNCHANGED vars
    BY <2>2 DEF vars, batchVars, totals, StoredInv, SuccessfulIsStored, KeysOnly, HasKeys, Lines, Place, RowsWith
  <2>3. CASE \E i \in Import : Kept(i) /\ Shape(i)
    BY <2>1, <2>3, StoredInvStep, SuccessfulStep
  <2> QED
    BY <2>1, <2>2, <2>3
<1> QED
  BY <1>1, <1>2, KeysHold, UniqueHolds, PTL DEF Spec

-----------------------------------------------------------------------------
(* Somebody can always go on *)

\* A set of natural numbers has a least element.
LEMMA LeastNumber ==
  ASSUME NEW S, S \subseteq Nat, S # {}
  PROVE  \E n \in S : \A m \in S : n <= m
<1>1. PICK n \in S : \A m \in S : ~(<<m, n>> \in OpToRel(<, Nat))
  BY NatLessThanWellFounded, WFMin, Zenon
<1>2. \A m \in S : ~(m < n)
  BY <1>1 DEF OpToRel
<1> QED
  BY <1>2

\* A finite set that has a property has a smallest part that has it.
LEMMA SmallestPart ==
  ASSUME NEW W, IsFiniteSet(W), NEW Parts, Parts \subseteq SUBSET W, Parts # {}
  PROVE  \E S \in Parts : \A R \in Parts : R \subseteq S => R = S
<1>1. IsWellFoundedOn(StrictSubsetOrdering(W), SUBSET W)
  BY FS_StrictSubsetOrderingWellFounded, FS_FiniteSubsetsOfFinite, Zenon
<1>2. PICK S \in Parts : \A R \in Parts : ~(<<R, S>> \in StrictSubsetOrdering(W))
  BY <1>1, WFMin, Zenon
<1>3. ASSUME NEW R \in Parts, R \subseteq S, R # S
      PROVE  FALSE
  <2>1. <<R, S>> \in StrictSubsetOrdering(W)
    BY <1>3 DEF StrictSubsetOrdering
  <2> QED
    BY <1>2, <2>1
<1> QED
  BY <1>3

\* The guards of the regular steps of i, of skipping, beginning and committing a batch, of
\* looking at a record and of writing it, without what the steps do.
GoesOn(i) ==
  \/ pc[i] = "begin" /\ Batch(i) # {}
  \/ pc[i] = "record" /\ todo[i] = {}
  \/ \E n \in Line : At(i, n, "record")
  \/ \E n \in Line : Writes(i, n) /\ (Granted(i, n) \/ Deadlocked(i))

AllOver == \A i \in Import : Finished(i) \/ pc[i] = "failed"

\* As long as an import is not over, one of them can go on: imports that wait for each other's
\* rows always have one among them that PostgreSQL refuses, however many they are and in whatever
\* order they came (upsertRecords and the three upsert functions).
SomeoneGoesOn == AllOver \/ \E i \in Import : GoesOn(i)

\* An import that writes has a record to write.
WritingInv ==
  \A i \in Import : pc[i] \in {"insert", "update"} => \E n \in Line : Writes(i, n)

LEMMA WritingInvStep ==
  ASSUME TypeInv, TypeOK', WritingInv, NEW i \in Import, Kept(i), Shape(i)
  PROVE  WritingInv'
<1> USE DEF TypeInv
<1>1. ASSUME NEW h \in Import \ {i}, pc'[h] \in {"insert", "update"}
      PROVE  \E n \in Line : Writes(h, n)'
  BY <1>1, OthersKept DEF WritingInv, Kept
<1>2. ASSUME pc'[i] \in {"insert", "update"}
      PROVE  \E n \in Line : Writes(i, n)'
  <2>1. PICK n \in Lines(i) : Save(i, n)
    BY <1>2 DEF Shape, Closes, Ended, BeginBatch, ImportFails, Rejects, Reject, Write, GoTo, TypeOK
  <2>2. n \in Line /\ n \in todo'[i] /\ \A m \in todo'[i] : n <= m
    BY <2>1, Places DEF Save, At
  <2> QED
    BY <1>2, <2>2 DEF Writes, At
<1> QED
  BY <1>1, <1>2 DEF WritingInv

LEMMA WritingHolds == Spec => [](TypeInv /\ WritingInv)
<1>1. Init => WritingInv
  BY DEF Init, WritingInv
<1>2. TypeInv /\ TargetInv /\ WritingInv /\ [Next]_vars => WritingInv'
  <2> SUFFICES ASSUME TypeInv, TargetInv, WritingInv, [Next]_vars PROVE WritingInv'
    OBVIOUS
  <2>1. TypeOK' /\ (UNCHANGED vars \/ \E i \in Import : Kept(i) /\ Shape(i))
    BY StepShapes
  <2>2. CASE UNCHANGED vars
    BY <2>2 DEF vars, batchVars, WritingInv, Writes, At
  <2>3. CASE \E i \in Import : Kept(i) /\ Shape(i)
    BY <2>1, <2>3, WritingInvStep
  <2> QED
    BY <2>1, <2>2, <2>3
<1> QED
  BY <1>1, <1>2, BatchesHold, PTL DEF Spec

\* If every import that can go no further waits for another, PostgreSQL refuses one of them.
LEMMA OneIsRefused ==
  ASSUME NEW W \in SUBSET Import, W # {}, Stuck(W)
  PROVE  \E i \in W : Deadlocked(i)
<1> DEFINE Parts == {S \in SUBSET W : S # {} /\ Stuck(S)}
<1>1. IsFiniteSet(W)
  BY ImportAssumption, FS_Subset
<1>2. PICK S \in Parts : \A R \in Parts : R \subseteq S => R = S
  <2>1. Parts \subseteq SUBSET W /\ Parts # {}
    OBVIOUS
  <2> HIDE DEF Parts
  <2> QED
    BY <1>1, <2>1, SmallestPart
<1>3. PICK i \in S : TRUE
  OBVIOUS
<1>4. ASSUME NEW R \in SUBSET (S \ {i}), R # {}
      PROVE  ~Stuck(R)
  <2>1. R \in SUBSET W /\ R \subseteq S /\ R # S
    BY <1>3
  <2> QED
    BY <1>2, <1>4, <2>1
<1>5. S \in SUBSET Import /\ Stuck(S) /\ i \in W
  BY <1>3
<1> QED
  BY <1>3, <1>4, <1>5 DEF Deadlocked

LEMMA SomeoneGoes == ASSUME TypeInv, WritingInv PROVE SomeoneGoesOn
<1> USE DEF TypeInv
<1> SUFFICES ASSUME ~AllOver, \A i \in Import : ~GoesOn(i) PROVE FALSE
  BY DEF SomeoneGoesOn
<1> DEFINE W == {i \in Import : pc[i] \in {"insert", "update"}}
<1>1. ASSUME NEW i \in Import, pc[i] = "record"
      PROVE  FALSE
  <2>1. todo[i] # {} /\ todo[i] \subseteq Line /\ Line \subseteq Nat
    BY <1>1, FilesAssumption DEF GoesOn, TypeOK, Line
  <2>2. PICK n \in todo[i] : \A m \in todo[i] : n <= m
    BY <2>1, LeastNumber
  <2> QED
    BY <1>1, <2>1, <2>2 DEF GoesOn, At
<1>2. \A i \in Import \ W : pc[i] \in {"begin", "failed"} /\ draft[i] = NoRows
  BY <1>1 DEF TypeOK, BatchInv
<1>3. W # {}
  BY <1>2 DEF AllOver, Finished, GoesOn
<1>4. ASSUME NEW i \in W
      PROVE  \E n \in Line : Writes(i, n) /\ \E h \in W \ {i} : Waits(i, n, h)
  <2>1. PICK n \in Line : Writes(i, n)
    BY DEF WritingInv
  <2>2. PICK h \in Import \ {i} : Waits(i, n, h)
    BY <2>1 DEF GoesOn, Granted
  <2>3. draft[h] # NoRows
    BY <2>2 DEF Waits, NoRows
  <2> QED
    BY <1>2, <2>1, <2>2, <2>3
<1>5. Stuck(W)
  BY <1>4 DEF Stuck
<1>6. PICK i \in W : Deadlocked(i)
  BY <1>3, <1>5, OneIsRefused
<1> QED
  BY <1>4, <1>6 DEF GoesOn

\* Deadlocks of any number of imports are always broken, and nobody waits for one that is over.
THEOREM GoesOnTheorem == Spec => []SomeoneGoesOn
<1>1. TypeInv /\ WritingInv => SomeoneGoesOn
  BY SomeoneGoes
<1> QED
  BY <1>1, WritingHolds, PTL

-----------------------------------------------------------------------------
(* Nothing runs for ever *)

Span == 2 * MaxLines + 3

\* Steps an import may still take in its batch: two for each record, and one to begin or commit it.
LeftInBatch(i) ==
  IF pc[i] = "begin" THEN 2 * MaxLines + 2
  ELSE 2 * Cardinality(todo[i]) + (IF pc[i] = "record" THEN 1 ELSE 0)

\* Steps an import may still take: no more than a span for every batch that may come.
Left(i) ==
  IF pc[i] = "failed" THEN 0
  ELSE Span * (MaxLines + BatchSize - start[i]) + LeftInBatch(i) + 1

LeftIsBounded == \A i \in Import : Left(i) \in 0..(Span * (MaxLines + BatchSize))

\* Whatever an import does, and whatever goes wrong, it comes nearer to its end and takes nothing
\* from the way of the others: no batch, record or error is ever gone through again
\* (processBatchWithLineNumbers, upsertRecords).
EveryStepCounts ==
  [][\E i \in Import : Left(i)' < Left(i) /\ \A h \in Import \ {i} : Left(h)' = Left(h)]_vars

\* There are no more lines to do than a file has.
LEMMA TodoSize ==
  ASSUME NEW S \in SUBSET Line
  PROVE  IsFiniteSet(S) /\ Cardinality(S) \in 0..MaxLines
<1>1. IsFiniteSet(Line) /\ Cardinality(Line) = MaxLines
  <2>1. MaxLines \in Nat
    BY FilesAssumption
  <2> QED
    BY <2>1, FS_Interval DEF Line
<1>2. IsFiniteSet(S) /\ Cardinality(S) <= Cardinality(Line)
  BY <1>1, FS_Subset
<1> QED
  BY <1>1, <1>2, FS_CardinalityType, FilesAssumption

\* A batch that is over is worth a span.
LEMMA SpanShrinks ==
  ASSUME NEW s \in Nat, NEW n \in Nat, NEW x \in Nat \ {0}
  PROVE  s * (n + x) >= s * n + s /\ s * n \in Nat
<1>1. s * (n + x) = s * n + s * x /\ s * n \in Nat /\ s * x \in Nat
  BY Z3
<1>2. s * x = s * (x - 1) + s /\ s * (x - 1) \in Nat
  BY Z3
<1> QED
  BY <1>1, <1>2

LEMMA LeftType ==
  ASSUME TypeOK, NEW i \in Import
  PROVE  /\ LeftInBatch(i) \in 0..(2 * MaxLines + 2)
         /\ Span * (MaxLines + BatchSize - start[i]) \in Nat
         /\ Left(i) \in 0..(Span * (MaxLines + BatchSize))
         /\ pc[i] # "failed" => Left(i) > 0
<1>1. /\ MaxLines \in Nat /\ BatchSize \in Nat \ {0} /\ Span \in Nat
      /\ start[i] \in 1..(MaxLines + BatchSize)
  BY FilesAssumption DEF TypeOK, Span
<1>2. Cardinality(todo[i]) \in 0..MaxLines
  BY TodoSize DEF TypeOK
<1>3. LeftInBatch(i) \in 0..(2 * MaxLines + 2)
  BY <1>1, <1>2 DEF LeftInBatch
<1> DEFINE n == MaxLines + BatchSize - start[i]
<1>4. n \in Nat /\ start[i] \in Nat \ {0} /\ n + start[i] = MaxLines + BatchSize
  BY <1>1
<1>5. Span * (n + start[i]) >= Span * n + Span /\ Span * n \in Nat
  <2> HIDE DEF n
  <2> QED
    BY <1>1, <1>4, SpanShrinks
<1>6. Span * (MaxLines + BatchSize) >= Span * n + Span
  BY <1>4, <1>5
<1>7. Span * (MaxLines + BatchSize) \in Nat
  BY <1>1, SpanShrinks
<1>8. Left(i) = IF pc[i] = "failed" THEN 0 ELSE Span * n + LeftInBatch(i) + 1
  BY DEF Left
<1>9. Span = 2 * MaxLines + 3
  BY DEF Span
<1> HIDE DEF n
<1>10. Left(i) \in 0..(Span * (MaxLines + BatchSize)) /\ (pc[i] # "failed" => Left(i) > 0)
  BY <1>1, <1>3, <1>5, <1>6, <1>7, <1>8, <1>9
<1> QED
  BY <1>3, <1>5, <1>10 DEF n

LEMMA LeftOfOthers ==
  ASSUME NEW i \in Import, Kept(i), NEW h \in Import \ {i}
  PROVE  Left(h)' = Left(h)
<1>1. pc'[h] = pc[h] /\ todo'[h] = todo[h] /\ start'[h] = start[h]
  BY DEF Kept
<1> QED
  BY <1>1 DEF Left, LeftInBatch

\* An import that is over takes no step.
LEMMA NotFailed ==
  ASSUME NEW i \in Import, ImportStep(i) \/ ImportFault(i)
  PROVE  pc[i] # "failed"
BY DEF ImportStep, ImportFault, SkipBatch, BeginBatch, CommitBatch, RecordStep, RejectDuplicate,
   RejectReference, Save, Write, WriteRefused, WriteError, Writes, At, BatchError, CommitError, ImportFails

LEMMA LeftShrinks ==
  ASSUME TypeInv, TargetInv, NEW i \in Import, ImportStep(i) \/ ImportFault(i)
  PROVE  Left(i)' < Left(i)
<1> USE DEF TypeInv
<1>1. TypeOK' /\ Kept(i) /\ Shape(i) /\ pc[i] # "failed"
  BY ImportShapes, NotFailed
<1>2. /\ MaxLines \in Nat /\ BatchSize \in Nat \ {0} /\ Span = 2 * MaxLines + 3 /\ Span \in Nat
      /\ start[i] \in 1..(MaxLines + BatchSize) /\ start'[i] \in 1..(MaxLines + BatchSize)
  BY <1>1, FilesAssumption DEF TypeOK, Span
<1>3. /\ LeftInBatch(i) \in 0..(2 * MaxLines + 2) /\ LeftInBatch(i)' \in 0..(2 * MaxLines + 2)
      /\ Span * (MaxLines + BatchSize - start[i]) \in Nat
      /\ Span * (MaxLines + BatchSize - start'[i]) \in Nat
  <2>1. Cardinality(todo'[i]) \in 0..MaxLines
    BY <1>1, TodoSize DEF TypeOK
  <2>2. LeftInBatch(i)' \in 0..(2 * MaxLines + 2)
    BY <1>2, <2>1 DEF LeftInBatch
  <2>3. MaxLines + BatchSize - start'[i] \in Nat
    BY <1>2
  <2>4. Span * (MaxLines + BatchSize - start'[i]) \in Nat
    BY <1>2, <2>3, SpanShrinks
  <2> QED
    BY <2>2, <2>4, LeftType
<1>4. IsFiniteSet(todo[i]) /\ Cardinality(todo[i]) \in 0..MaxLines
  BY TodoSize DEF TypeOK
<1>5. CASE Closes(i)
  <2>1. pc'[i] = "begin" /\ start'[i] = start[i] + BatchSize
    BY <1>5 DEF Closes, Ended
  <2> DEFINE n == MaxLines + BatchSize - start'[i]
  <2>2. n \in Nat /\ MaxLines + BatchSize - start[i] = n + BatchSize
    BY <1>2, <2>1
  <2>3. Span * (n + BatchSize) >= Span * n + Span
    <3> HIDE DEF n
    <3> QED
      BY <1>2, <2>2, SpanShrinks
  <2>4. Span * (MaxLines + BatchSize - start[i]) >= Span * (MaxLines + BatchSize - start'[i]) + Span
    BY <2>2, <2>3
  <2> QED
    BY <1>1, <1>2, <1>3, <2>1, <2>4 DEF Left
<1>6. ASSUME start'[i] = start[i], LeftInBatch(i)' < LeftInBatch(i), pc'[i] # "failed"
      PROVE  Left(i)' < Left(i)
  BY <1>1, <1>3, <1>6 DEF Left
<1>7. CASE BeginBatch(i)
  <2>1. start'[i] = start[i] /\ pc[i] = "begin" /\ pc'[i] = "record"
    BY <1>7 DEF BeginBatch, GoTo, TypeOK
  <2>2. Cardinality(todo'[i]) \in 0..MaxLines
    BY <1>1, TodoSize DEF TypeOK
  <2>3. LeftInBatch(i)' < LeftInBatch(i)
    BY <1>2, <2>1, <2>2 DEF LeftInBatch
  <2> QED
    BY <1>6, <2>1, <2>3
<1>8. CASE ImportFails(i)
  <2>1. pc'[i] = "failed"
    BY <1>8 DEF ImportFails, GoTo, TypeOK
  <2> QED
    BY <1>1, <1>3, <2>1 DEF Left
<1>9. ASSUME NEW n \in Lines(i), Rejects(i, n) \/ Write(i, n)
      PROVE  Left(i)' < Left(i)
  <2>1. /\ start'[i] = start[i] /\ n \in todo[i] /\ todo'[i] = todo[i] \ {n}
        /\ pc[i] \in {"record", "insert", "update"} /\ pc'[i] = "record"
    BY <1>9 DEF Rejects, Reject, Write, Writes, At, GoTo, TypeOK
  <2>2. Cardinality(todo'[i]) = Cardinality(todo[i]) - 1
    BY <1>4, <2>1, FS_RemoveElement
  <2>3. LeftInBatch(i)' < LeftInBatch(i)
    BY <1>4, <2>1, <2>2 DEF LeftInBatch
  <2> QED
    BY <1>6, <2>1, <2>3
<1>10. ASSUME NEW n \in Lines(i), Save(i, n)
       PROVE  Left(i)' < Left(i)
  <2>1. start'[i] = start[i] /\ todo'[i] = todo[i] /\ pc[i] = "record" /\ pc'[i] \in {"insert", "update"}
    BY <1>10 DEF Save, At, GoTo, TypeOK
  <2>2. LeftInBatch(i)' < LeftInBatch(i)
    BY <1>4, <2>1 DEF LeftInBatch
  <2> QED
    BY <1>6, <2>1, <2>2
<1> QED
  BY <1>1, <1>5, <1>7, <1>8, <1>9, <1>10 DEF Shape

\* No behaviour goes on for ever, with faults or without: together with GoesOnTheorem, imports end
\* if only one of those that can go on is always let go on.
THEOREM StepsTheorem == Spec => []LeftIsBounded /\ EveryStepCounts
<1>1. TypeInv => LeftIsBounded
  BY LeftType DEF TypeInv, LeftIsBounded
<1>2. TypeInv /\ TargetInv /\ [Next]_vars =>
        [\E i \in Import : Left(i)' < Left(i) /\ \A h \in Import \ {i} : Left(h)' = Left(h)]_vars
  <2> SUFFICES ASSUME TypeInv, TargetInv, Next, ~UNCHANGED vars
               PROVE  \E i \in Import : Left(i)' < Left(i) /\ \A h \in Import \ {i} : Left(h)' = Left(h)
    OBVIOUS
  <2>1. PICK i \in Import : ImportStep(i) \/ ImportFault(i)
    BY DEF Next, AllEnded
  <2>2. Left(i)' < Left(i) /\ Kept(i)
    BY <2>1, LeftShrinks, ImportShapes
  <2> QED
    BY <2>2, LeftOfOthers
<1> QED
  BY <1>1, <1>2, BatchesHold, PTL DEF Spec, EveryStepCounts
=============================================================================
