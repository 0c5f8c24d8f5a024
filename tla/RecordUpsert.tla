---------------------------- MODULE RecordUpsert ----------------------------
(***************************************************************************)
(* How imports write their records: processBatchWithLineNumbers,           *)
(* upsertRecords and the three upsert functions of imports.service.ts, for *)
(* imports of one resource type that run at the same time and meet in its  *)
(* table.                                                                  *)
(*                                                                         *)
(* A record is the id it names for its row, if any, its natural key (email *)
(* or slug) and what the checks say of it; comments have no key but their  *)
(* id.  No two records have the same data, so that every save writes.      *)
(* PostgreSQL is READ COMMITTED: a transaction sees committed rows and its *)
(* own, a writer waits for another writer of its row or key, and of        *)
(* writers that wait for each other one is refused.                        *)
(***************************************************************************)
EXTENDS Naturals, Sequences, FiniteSets

CONSTANTS
  Import,     \* imports that run at the same time
  Key,        \* natural keys
  Id, NoId,   \* ids a record may name for its row
  Kinds,      \* resource types
  Files,      \* the files an import may have
  MaxLines,   \* the length of the longest
  BatchSize,  \* records per transaction
  NoRow,      \* no row has this id
  Before,     \* the writer of the rows that were there before
  Faults      \* what may go wrong

FaultKinds ==
  {"record",   \* the database refuses what a record contains, or it times out
   "batch",    \* a statement outside a savepoint raises an error
   "release",  \* RELEASE SAVEPOINT raises an error
   "commit",   \* COMMIT raises an error
   "import"}   \* the connection is lost, or the process dies

Line == 1..MaxLines
Record == [id : Id \cup {NoId}, key : Key, check : {"passes", "reference", "invalid"}]

\* A row whose record names no id gets a fresh one: the place of that record.
RowId == Id \cup (Import \X Line)
Writer == (Import \X Line) \cup {Before}
Row == [key : Key, by : Writer]

ASSUME ImportAssumption == IsFiniteSet(Import)
ASSUME FilesAssumption ==
  /\ BatchSize \in Nat \ {0} /\ MaxLines \in Nat
  /\ \A f \in Files : f \in Seq(Record) /\ Len(f) <= MaxLines
ASSUME NamesAssumption ==
  /\ NoId \notin RowId /\ NoRow \notin Row
  /\ Before \notin Import \X Line /\ Id \cap (Import \X Line) = {}
ASSUME SwitchAssumption ==
  Kinds \subseteq {"users", "articles", "comments"} /\ Faults \subseteq FaultKinds

VARIABLES
  kind,   \* the resource type
  file,   \* the records of each import
  table,  \* the committed rows
  draft,  \* rows an open transaction has written: it holds their locks
  pc,     \* where upsertRecords stands
  start,  \* first line of the batch
  todo,   \* valid lines of the batch that it has not come to
  known,  \* the row of each key when the batch began (emailToUser, slugToArticle)
  seen,   \* keys met in the batch (seenEmailsInBatch, seenSlugsInBatch; not for comments)
  target, \* the row the record is saved to
  ok, bad,               \* lines of the batch counted as successful and as failed
  successful, failedRows,\* lines of the batches before it counted in the totals
  doubt   \* lines that were counted before their RELEASE or COMMIT raised an error

batchVars == <<start, todo, known, seen, target, ok, bad>>
totals == <<successful, failedRows, doubt>>
vars == <<kind, file, table, draft, pc, batchVars, totals>>

NoRows == [d \in RowId |-> NoRow]
NoKeys == [k \in Key |-> NoId]

TypeOK ==
  /\ kind \in Kinds /\ file \in [Import -> Files]
  /\ table \in [RowId -> Row \cup {NoRow}]
  /\ draft \in [Import -> [RowId -> Row \cup {NoRow}]]
  /\ pc \in [Import -> {"begin", "record", "insert", "update", "failed"}]
  /\ start \in [Import -> 1..(MaxLines + BatchSize)]
  /\ known \in [Import -> [Key -> RowId \cup {NoId}]]
  /\ seen \in [Import -> SUBSET Key]
  /\ target \in [Import -> RowId \cup {NoId}]
  /\ \A lines \in {todo, ok, bad, successful, failedRows, doubt} : lines \in [Import -> SUBSET Line]
  /\ \A i \in Import : \A n \in todo[i] \cup ok[i] \cup bad[i] :
       start[i] <= n /\ n < start[i] + BatchSize

\* Rows with known ids may be there already, each with a key of its own.
Init ==
  /\ kind \in Kinds /\ file \in [Import -> Files]
  /\ \E rows \in [Id -> [key : Key, by : {Before}] \cup {NoRow}] :
       /\ \A d, e \in Id : rows[d] # NoRow /\ rows[d] = rows[e] => d = e
       /\ table = [d \in RowId |-> IF d \in Id THEN rows[d] ELSE NoRow]
  /\ draft = [i \in Import |-> NoRows]
  /\ pc = [i \in Import |-> "begin"]
  /\ start = [i \in Import |-> 1]
  /\ known = [i \in Import |-> NoKeys]
  /\ target = [i \in Import |-> NoId]
  /\ todo = [i \in Import |-> {}] /\ seen = [i \in Import |-> {}]
  /\ ok = [i \in Import |-> {}] /\ bad = [i \in Import |-> {}]
  /\ successful = [i \in Import |-> {}] /\ failedRows = [i \in Import |-> {}]
  /\ doubt = [i \in Import |-> {}]

-----------------------------------------------------------------------------
(* The rows a transaction sees, and the locks it waits for *)

HasKeys == kind # "comments"
HasReferences == kind # "users"

Visible(i, d) == IF draft[i][d] # NoRow THEN draft[i][d] ELSE table[d]

\* Variant: the columns have no unique constraint.
KeyTaken_NoConstraint(i, k, d) == FALSE

\* A row other than d has the key.
KeyTaken(i, k, d) ==
  HasKeys /\ \E e \in RowId \ {d} : Visible(i, e) # NoRow /\ Visible(i, e).key = k

\* Another transaction has written the row i is about to write, or a row that has
\* its key before or after that.
Waits(i, n, j) ==
  \E e \in RowId :
    /\ draft[j][e] # NoRow
    /\ \/ e = target[i]
       \/ HasKeys /\ file[i][n].key = draft[j][e].key
       \/ HasKeys /\ table[e] # NoRow /\ file[i][n].key = table[e].key

-----------------------------------------------------------------------------
(* processBatchWithLineNumbers *)

Lines(i) == 1..Len(file[i])

\* Variant: a batch has one record too many.
Batch_OffByOne(i) == {n \in Lines(i) : start[i] <= n /\ n <= start[i] + BatchSize}

Batch(i) == {n \in Lines(i) : start[i] <= n /\ n < start[i] + BatchSize}
Invalid(i) == {n \in Batch(i) : file[i][n].check = "invalid"}
Valid(i) == Batch(i) \ Invalid(i)
Finished(i) == pc[i] = "begin" /\ Batch(i) = {}

\* The record the loop has come to.
At(i, n, step) == pc[i] = step /\ n \in todo[i] /\ \A m \in todo[i] : n <= m

GoTo(i, step) == pc' = [pc EXCEPT ![i] = step]

\* Variant: the connection goes back to the pool inside its transaction.
Unlock_Never(i) == UNCHANGED draft

\* COMMIT and ROLLBACK drop the locks.
Unlock(i) == draft' = [draft EXCEPT ![i] = NoRows]

\* The transaction is over: its local variables go out of scope.
LeaveBatch(i) ==
  /\ Unlock(i)
  /\ todo' = [todo EXCEPT ![i] = {}]
  /\ known' = [known EXCEPT ![i] = NoKeys]
  /\ seen' = [seen EXCEPT ![i] = {}]
  /\ target' = [target EXCEPT ![i] = NoId]
  /\ ok' = [ok EXCEPT ![i] = {}] /\ bad' = [bad EXCEPT ![i] = {}]
  /\ UNCHANGED <<kind, file>>

\* ... and the batch is counted.
EndBatch(i, good, wrong) ==
  /\ LeaveBatch(i)
  /\ successful' = [successful EXCEPT ![i] = @ \cup good]
  /\ failedRows' = [failedRows EXCEPT ![i] = @ \cup Invalid(i) \cup wrong]
  /\ start' = [start EXCEPT ![i] = @ + BatchSize]
  /\ GoTo(i, "begin")

SkipBatch(i) ==
  /\ pc[i] = "begin" /\ Batch(i) # {} /\ Valid(i) = {}
  /\ EndBatch(i, {}, {})
  /\ UNCHANGED <<table, doubt>>

\* Variant: the rows that are read are not told apart by their keys.
RowsWith_Any(k) == {d \in RowId : table[d] # NoRow}

RowsWith(k) == {d \in RowId : table[d] # NoRow /\ table[d].key = k}

\* The transaction begins and reads the rows of the batch's keys.
BeginBatch(i) ==
  /\ pc[i] = "begin" /\ Valid(i) # {}
  /\ todo' = [todo EXCEPT ![i] = Valid(i)]
  /\ known' = [known EXCEPT ![i] = [k \in Key |->
       IF HasKeys /\ RowsWith(k) # {} THEN CHOOSE d \in RowsWith(k) : TRUE ELSE NoId]]
  /\ GoTo(i, "record")
  /\ UNCHANGED <<kind, file, table, draft, start, seen, target, ok, bad, totals>>

-----------------------------------------------------------------------------
(* upsertUsers, upsertArticles, upsertComments *)

Reject(i, n) ==
  /\ bad' = [bad EXCEPT ![i] = @ \cup {n}]
  /\ todo' = [todo EXCEPT ![i] = @ \ {n}]
  /\ target' = [target EXCEPT ![i] = NoId]
  /\ GoTo(i, "record")
  /\ UNCHANGED <<kind, file, table, draft, start, known, successful, failedRows>>

Duplicate(i, n) == HasKeys /\ file[i][n].key \in seen[i]
BadReference(i, n) == HasReferences /\ file[i][n].check = "reference"

SeenWith(i, n) ==
  IF HasKeys THEN [seen EXCEPT ![i] = @ \cup {file[i][n].key}] ELSE seen

RejectDuplicate(i, n) ==
  /\ At(i, n, "record") /\ Duplicate(i, n)
  /\ Reject(i, n)
  /\ UNCHANGED <<seen, ok, doubt>>

\* An author, an article or a user that does not exist: the key counts as seen.
RejectReference(i, n) ==
  /\ At(i, n, "record") /\ ~Duplicate(i, n) /\ BadReference(i, n)
  /\ Reject(i, n)
  /\ seen' = SeenWith(i, n)
  /\ UNCHANGED <<ok, doubt>>

\* The row save() is given: the one found by key, the one named, or a new one.
RowOf(i, n) ==
  LET r == file[i][n]
  IN  IF HasKeys /\ known[i][r.key] # NoId THEN known[i][r.key]
      ELSE IF r.id # NoId THEN r.id ELSE <<i, n>>

\* SAVEPOINT; save() looks whether the row is there and updates or inserts it.
Save(i, n) ==
  /\ At(i, n, "record") /\ ~Duplicate(i, n) /\ ~BadReference(i, n)
  /\ seen' = SeenWith(i, n)
  /\ target' = [target EXCEPT ![i] = RowOf(i, n)]
  /\ GoTo(i, IF Visible(i, RowOf(i, n)) = NoRow THEN "insert" ELSE "update")
  /\ UNCHANGED <<kind, file, table, draft, start, todo, known, ok, bad, totals>>

Writes(i, n) == At(i, n, "insert") \/ At(i, n, "update")
Granted(i, n) == \A j \in Import \ {i} : ~Waits(i, n, j)

\* Since save() looked, another import may have committed the row or the key.
Conflict(i, n) ==
  \/ KeyTaken(i, file[i][n].key, target[i])
  \/ At(i, n, "insert") /\ Visible(i, target[i]) # NoRow

\* INSERT or UPDATE; RELEASE SAVEPOINT.
Write(i, n) ==
  /\ Writes(i, n) /\ Granted(i, n) /\ ~Conflict(i, n)
  /\ draft' = [draft EXCEPT ![i][target[i]] = [key |-> file[i][n].key, by |-> <<i, n>>]]
  /\ ok' = [ok EXCEPT ![i] = @ \cup {n}]
  /\ todo' = [todo EXCEPT ![i] = @ \ {n}]
  /\ target' = [target EXCEPT ![i] = NoId]
  /\ GoTo(i, "record")
  /\ UNCHANGED <<kind, file, table, start, known, seen, bad, totals>>

\* The imports of S, i among them, all wait for each other.
Stuck(S) == \A j \in S : \E n \in Line : Writes(j, n) /\ \E h \in S \ {j} : Waits(j, n, h)
Deadlocked(i) ==
  \E S \in SUBSET Import :
    /\ i \in S /\ Stuck(S)
    /\ \A R \in SUBSET (S \ {i}) : R # {} => ~Stuck(R)

\* The statement raises an error: ROLLBACK TO SAVEPOINT.
WriteRefused(i, n) ==
  /\ Writes(i, n)
  /\ (Granted(i, n) /\ Conflict(i, n)) \/ Deadlocked(i)
  /\ Reject(i, n)
  /\ UNCHANGED <<seen, ok, doubt>>

\* Any other error.  RELEASE comes after the record was counted as successful.
WriteError(i, n) ==
  /\ Writes(i, n)
  /\ \/ "record" \in Faults /\ UNCHANGED <<ok, doubt>>
     \/ /\ "release" \in Faults /\ Granted(i, n) /\ ~Conflict(i, n)
        /\ ok' = [ok EXCEPT ![i] = @ \cup {n}]
        /\ doubt' = [doubt EXCEPT ![i] = @ \cup {n}]
  /\ Reject(i, n)
  /\ UNCHANGED seen

-----------------------------------------------------------------------------
(* upsertRecords *)

\* Variant: the transaction is never committed.
Merged_Nothing(i) == table

\* The rows of the table with what i has written.
Merged(i) == [d \in RowId |-> Visible(i, d)]

CommitBatch(i) ==
  /\ pc[i] = "record" /\ todo[i] = {}
  /\ table' = Merged(i)
  /\ EndBatch(i, ok[i], bad[i])
  /\ UNCHANGED doubt

\* Variant: each record is committed on its own.
RolledBack_Nothing(i) == Merged(i)

\* ROLLBACK leaves the table as it is.
RolledBack(i) == table

\* Variant: what was counted before the error still counts.
CountedBefore_All(i) == ok[i]

\* The counts of the upsert function are lost with its error.
CountedBefore(i) == {}

\* ROLLBACK, and every record that was to be written counts as failed.
BatchError(i) ==
  /\ "batch" \in Faults /\ pc[i] \in {"record", "insert", "update"}
  /\ table' = RolledBack(i)
  /\ EndBatch(i, CountedBefore(i), Valid(i))
  /\ UNCHANGED doubt

\* The same after COMMIT: the counts of the upsert function stay.
CommitError(i) ==
  /\ "commit" \in Faults /\ pc[i] = "record" /\ todo[i] = {}
  /\ table' \in {table, Merged(i)}
  /\ EndBatch(i, ok[i], Valid(i))
  /\ doubt' = [doubt EXCEPT ![i] = @ \cup Valid(i)]

\* ROLLBACK fails too, no transaction can be begun or the process dies.
ImportFails(i) ==
  /\ "import" \in Faults /\ ~Finished(i) /\ pc[i] # "failed"
  /\ LeaveBatch(i)
  /\ GoTo(i, "failed")
  /\ UNCHANGED <<table, start, totals>>

RecordStep(i, n) ==
  RejectDuplicate(i, n) \/ RejectReference(i, n) \/ Save(i, n) \/ Write(i, n) \/ WriteRefused(i, n)

ImportStep(i) ==
  \/ SkipBatch(i) \/ BeginBatch(i) \/ CommitBatch(i)
  \/ \E n \in Line : RecordStep(i, n)

ImportFault(i) ==
  \/ \E n \in Line : WriteError(i, n)
  \/ BatchError(i) \/ CommitError(i) \/ ImportFails(i)

AllEnded == (\A i \in Import : Finished(i) \/ pc[i] = "failed") /\ UNCHANGED vars

Next ==
  \/ \E i \in Import : ImportStep(i) \/ ImportFault(i)
  \/ AllEnded

Spec == Init /\ [][Next]_vars

\* As long as an import can go on, one of them does.  Nothing runs for ever, so that
\* this is enough, and PostgreSQL ends deadlocks.
FairSpec == Spec /\ WF_vars(\E i \in Import : ImportStep(i))

-----------------------------------------------------------------------------
(* Properties *)

\* Every line before the current batch is counted.  Invalid records, records refused one by one
\* and batches rolled back as a whole spoil no totals: the lines that are counted twice are those
\* whose RELEASE or COMMIT raised an error after they were counted (CountedOnce).
EveryLineCounted ==
  \A i \in Import :
    /\ successful[i] \cup failedRows[i] = {n \in Lines(i) : n < start[i]}
    /\ successful[i] \cap failedRows[i] \subseteq doubt[i]

\* No line is counted as successful and as failed.  The comment of imports.service.ts:910 says of
\* a batch whose transaction failed that all its records are marked as failed.
CountedOnce == \A i \in Import : successful[i] \cap failedRows[i] = {}

\* The imports name no ids but those of comments.
KeysOnly == HasKeys => \A i \in Import : \A n \in Lines(i) : file[i][n].id = NoId

\* What a job counts as successful is in the table when the batch is over, whatever
\* other imports and later batches do to the same rows (upsertRecords).
SuccessfulIsStored ==
  KeysOnly =>
    \A i \in Import : \A n \in successful[i] \ doubt[i] :
      IF HasKeys THEN RowsWith(file[i][n].key) # {}
      ELSE table[IF file[i][n].id # NoId THEN file[i][n].id ELSE <<i, n>>] # NoRow

\* What a job counts as failed has left nothing in the table: the savepoint or the
\* transaction took it back (upsertUsers, upsertArticles, upsertComments).
FailedLeavesNoTrace ==
  \A i \in Import : \A n \in failedRows[i] \ doubt[i] :
    \A d \in RowId : table[d] # NoRow => table[d].by # <<i, n>>

\* No two users with one email and no two articles with one slug, although every
\* batch looks its keys up before it locks anything and ids may be reused.
KeysAreUnique == HasKeys => \A d, e \in RowId :
  table[d] # NoRow /\ table[e] # NoRow /\ table[d].key = table[e].key => d = e

\* Imports that write the same rows in different orders all come to an end.
EveryImportEnds == <>(\A i \in Import : Finished(i) \/ pc[i] = "failed")

\* Users and articles are matched by their key (README.md:400-401): what an import or many of
\* them do at the same time never gives the row of one key to another.  Records that name an id
\* are left out: save() takes the row with that id whatever its key is.
RowsKeepTheirKey ==
  [][KeysOnly /\ HasKeys =>
       \A d \in RowId : table[d] # NoRow => table'[d] # NoRow /\ table'[d].key = table[d].key]_vars
=============================================================================
