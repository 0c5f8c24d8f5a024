---------------------------- MODULE ImportStreams ----------------------------
(***************************************************************************)
(* How a file becomes batches of rows: processCSVStream,                   *)
(* processNDJSONStream and processJSONStream of imports.service.ts with    *)
(* NdjsonParseTransform and BatchTransform of stream.utils.ts, for one     *)
(* import that is PROCESSING.                                              *)
(*                                                                         *)
(* A line is a sequence of pieces of its text, and a text the sequence of  *)
(* its lines: a newline stands between two of them, so that splitting a    *)
(* text is the identity and joining two texts glues a line.  A piece is    *)
(* the beginning or the end of a record, the literal null, white space, or *)
(* one of the two bytes of a character.  The source cuts the text anywhere *)
(* into chunks.  A JSON file is an array with one element to a line.       *)
(*                                                                         *)
(* Node runs one of the steps at a time.  The loops over the lines of a    *)
(* chunk and over the items of a batch are steps of their own for every    *)
(* turn: nothing else can change what they look at.                        *)
(***************************************************************************)
EXTENDS Naturals, Sequences, FiniteSets

CONSTANTS
  Formats,        \* formats a file may have
  Files,          \* texts a file may have
  BatchSize,      \* import.batchSize
  MaxErrors,      \* import.maxErrors
  MaxReport,      \* error entries of one batch
  ProgressEvery,  \* batches between two updates of the job's row
  Hwm,            \* highWaterMark of a stream in object mode
  ChunkLines,     \* the most newlines in one chunk
  Faults          \* what may go wrong

FaultKinds ==
  {"source",   \* the connection of the storage or of the remote server is lost
   "db",       \* a statement of a batch or of the progress update raises an error
   "commit"}   \* RELEASE SAVEPOINT or COMMIT raises an error

\* "bad" is the replacement character for a byte that is no character of its own.
Piece == {"open", "close", "null", "space", "lead", "cont", "bad"}
Text == Seq(Seq(Piece)) \ {<<>>}
Item == [line : Nat, text : Seq(Piece)]
Counters == [total : Nat, processed : Nat, successful : Nat, failed : Nat]

ASSUME FilesAssumption ==
  Files \subseteq Text /\ Formats \subseteq {"csv", "ndjson", "json"}
ASSUME SizesAssumption ==
  /\ BatchSize \in Nat \ {0} /\ ProgressEvery \in Nat \ {0} /\ Hwm \in Nat \ {0}
  /\ MaxErrors \in Nat /\ MaxReport \in Nat /\ ChunkLines \in Nat \ {0}
ASSUME FaultsAssumption == Faults \subseteq FaultKinds

VARIABLES
  format, file,
  rest,       \* what the source has not sent
  source,     \* whether it will send more
  buffer,     \* text the parser keeps: an incomplete line, or for JSON all chunks
  lines,      \* complete lines of a chunk the parser has not come to
  lineNumber, \* lines the parser has come to
  queue,      \* items between parser and BatchTransform; for JSON the array
  parser,     \* whether the parser has ended
  batch,      \* the items of BatchTransform
  ready,      \* batches between BatchTransform and the loop
  batches,    \* whether BatchTransform has ended
  loop,       \* where the loop over batches stands
  work,       \* items of the batch it has not looked at
  valid,      \* records of the batch (validRecords)
  batchNumber,
  counts,     \* totalRows, processedRows, successfulRows, failedRows
  errors,     \* rows of the error entries
  row,        \* the same columns of the job
  taken,      \* items the loop has been given
  cuts,       \* lines with a character that was cut in two
  failures,   \* rows that were counted as failed
  again       \* how often a row was counted that had been counted already

vars == <<format, file, rest, source, buffer, lines, lineNumber, queue, parser, batch, ready,
          batches, loop, work, valid, batchNumber, counts, errors, row, taken, cuts, failures, again>>

sourceVars == <<rest, source, cuts>>
parserVars == <<buffer, lines, lineNumber, parser>>
batchVars == <<batch, ready, batches>>
tallyVars == <<failures, again>>
loopVars == <<loop, work, valid, batchNumber, counts, errors, row, taken, tallyVars>>

Zero == [total |-> 0, processed |-> 0, successful |-> 0, failed |-> 0]

TypeOK ==
  /\ format \in Formats /\ file \in Files
  /\ rest \in Text /\ source \in {"open", "ended", "broken"}
  /\ buffer \in Text /\ (format # "json" => Len(buffer) = 1)
  /\ lines \in Seq(Seq(Piece)) /\ lineNumber \in Nat
  /\ queue \in Seq(Item) /\ parser \in {"open", "ended"}
  /\ batch \in Seq(Item) /\ Len(batch) < BatchSize
  /\ ready \in Seq(Seq(Item)) /\ batches \in {"open", "ended"}
  /\ \A n \in DOMAIN ready : Len(ready[n]) \in 1..BatchSize
  /\ loop \in {"wait", "scan", "records", "progress", "done", "failed", "dead"}
  /\ work \in Seq(Item) /\ valid \in Seq(Item) /\ batchNumber \in Nat
  /\ counts \in Counters /\ row \in Counters
  /\ errors \in Seq(Nat) /\ taken \in Seq(Item) /\ cuts \in SUBSET Nat
  /\ failures \in SUBSET Nat /\ again \in Nat

Init ==
  /\ format \in Formats /\ file \in Files
  /\ rest = file /\ source = "open" /\ cuts = {}
  /\ buffer = << <<>> >> /\ lines = <<>> /\ lineNumber = 0 /\ parser = "open"
  /\ queue = <<>>
  /\ batch = <<>> /\ ready = <<>> /\ batches = "open"
  /\ loop = "wait" /\ work = <<>> /\ valid = <<>> /\ batchNumber = 0
  /\ counts = Zero /\ errors = <<>> /\ row = Zero /\ taken = <<>>
  /\ failures = {} /\ again = 0

Running == loop \notin {"done", "failed", "dead"}

-----------------------------------------------------------------------------
(* Texts and lines *)

\* Variant: a chunk begins a line of its own.
Join_Newline(s, t) == s \o t

\* s + t
Join(s, t) == [n \in 1..(Len(s) + Len(t) - 1) |->
  IF n < Len(s) THEN s[n] ELSE IF n = Len(s) THEN s[n] \o t[1] ELSE t[n - Len(s) + 1]]

\* trim(): a piece of white space stands for all there is at an end of the line.
Trim(s) ==
  LET from == IF s # <<>> /\ s[1] = "space" THEN 2 ELSE 1
      to == IF s # <<>> /\ s[Len(s)] = "space" THEN Len(s) - 1 ELSE Len(s)
  IN  SubSeq(s, from, to)

Blank(s) == Trim(s) = <<>>

\* What JSON.parse and the CSV parser make of a trimmed line.
Kind(s) ==
  CASE s = <<"null">> -> "falsy"
    [] Len(s) > 1 /\ s[1] = "open" /\ s[Len(s)] = "close" -> "record"
    [] OTHER -> "junk"

-----------------------------------------------------------------------------
(* The storage's or the remote server's stream *)

\* n lines and k pieces of the next one.
Taken(n, k) == Append(SubSeq(rest, 1, n), SubSeq(rest[n + 1], 1, k))
Left(n, k) ==
  <<SubSeq(rest[n + 1], k + 1, Len(rest[n + 1]))>> \o SubSeq(rest, n + 2, Len(rest))

Cut(n, k) ==
  k \in 1..(Len(rest[n + 1]) - 1) /\ rest[n + 1][k] = "lead" /\ rest[n + 1][k + 1] = "cont"

\* chunk.toString(): each half of a character that was cut is a character of no meaning.
Decoded(t) == [n \in DOMAIN t |-> [k \in DOMAIN t[n] |->
  IF (t[n][k] = "lead" /\ k = Len(t[n])) \/ (t[n][k] = "cont" /\ k = 1) THEN "bad" ELSE t[n][k]]]

\* Variant: the readable side of the parser is never full.
Drained_Always == TRUE

\* Variant: the source stops an item early.
Drained_OffByOne == Len(queue) < Hwm - 1

\* pipe() and Transform: the next chunk is not taken before the items of the last were.
Drained == Len(queue) < Hwm

\* Only NdjsonParseTransform decodes chunk by chunk.
SendChunk(n, k) ==
  LET chunk == IF format = "ndjson" THEN Decoded(Taken(n, k)) ELSE Taken(n, k)
      text == Join(buffer, chunk)
  IN  /\ Running /\ source = "open" /\ lines = <<>>
      /\ n + k > 0
      /\ format # "json" => Drained
      /\ rest' = Left(n, k)
      /\ cuts' = IF Cut(n, k) THEN cuts \cup {Len(file) - Len(rest) + n + 1} ELSE cuts
      /\ IF format = "json"
         THEN buffer' = text /\ UNCHANGED lines
         ELSE buffer' = <<text[Len(text)]>> /\ lines' = SubSeq(text, 1, Len(text) - 1)
      /\ UNCHANGED <<format, file, source, lineNumber, parser, queue, batchVars, loopVars>>

SourceEnds ==
  /\ Running /\ source = "open" /\ rest = << <<>> >>
  /\ source' = "ended"
  /\ UNCHANGED <<format, file, rest, cuts, parserVars, queue, batchVars, loopVars>>

\* The loop over the chunks of a JSON file raises the error.  pipe() does not pass it on:
\* a response that is cut off emits no error if nobody listens, other streams emit one that
\* ends the process.
SourceBreaks ==
  /\ "source" \in Faults /\ Running /\ source = "open"
  /\ IF format = "json"
     THEN loop' = "failed" /\ UNCHANGED source
     ELSE \/ source' = "broken" /\ UNCHANGED loop
          \/ loop' = "dead" /\ UNCHANGED source
  /\ UNCHANGED <<format, file, rest, cuts, parserVars, queue, batchVars,
                 work, valid, batchNumber, counts, errors, row, taken, tallyVars>>

-----------------------------------------------------------------------------
(* NdjsonParseTransform, and csvParse, which numbers no rows *)

Parsed(s) == [line |-> IF format = "ndjson" THEN lineNumber + 1 ELSE 0, text |-> Trim(s)]

\* A row with a missing column or an open quote.
Breaks(s) == format = "csv" /\ ~Blank(s) /\ Kind(Trim(s)) = "junk"

Push(s) ==
  /\ lineNumber' = lineNumber + 1
  /\ queue' = IF Blank(s) THEN queue ELSE Append(queue, Parsed(s))

ParseLine ==
  /\ Running /\ lines # <<>> /\ ~Breaks(lines[1])
  /\ Push(lines[1])
  /\ lines' = Tail(lines)
  /\ UNCHANGED <<format, file, sourceVars, buffer, parser, batchVars, loopVars>>

\* Variant: the file has to end with a newline.
Flush_Nothing == UNCHANGED <<lineNumber, queue>>

\* A last line without a newline.
Flush == IF Blank(buffer[1]) THEN UNCHANGED <<lineNumber, queue>> ELSE Push(buffer[1])

ParserEnds ==
  /\ Running /\ format # "json" /\ source = "ended" /\ lines = <<>> /\ parser = "open"
  /\ ~Breaks(buffer[1])
  /\ Flush
  /\ buffer' = << <<>> >> /\ parser' = "ended"
  /\ UNCHANGED <<format, file, sourceVars, lines, batchVars, loopVars>>

\* Nobody listens to the error of the CSV parser: it ends the process.
ParserFails ==
  /\ Running
  /\ \/ lines # <<>> /\ Breaks(lines[1])
     \/ source = "ended" /\ lines = <<>> /\ parser = "open" /\ Breaks(buffer[1])
  /\ loop' = "dead"
  /\ UNCHANGED <<format, file, sourceVars, parserVars, queue, batchVars,
                 work, valid, batchNumber, counts, errors, row, taken, tallyVars>>

-----------------------------------------------------------------------------
(* BatchTransform *)

\* Variant: a batch has one item more.
Full_OffByOne(items) == Len(items) > BatchSize

Full(items) == Len(items) >= BatchSize

AddToBatch ==
  /\ Running /\ format # "json" /\ queue # <<>> /\ Len(ready) < Hwm
  /\ LET items == Append(batch, queue[1])
     IN  IF Full(items)
         THEN ready' = Append(ready, items) /\ batch' = <<>>
         ELSE batch' = items /\ UNCHANGED ready
  /\ queue' = Tail(queue)
  /\ UNCHANGED <<format, file, sourceVars, parserVars, batches, loopVars>>

BatchesEnd ==
  /\ Running /\ parser = "ended" /\ queue = <<>> /\ batches = "open" /\ format # "json"
  /\ ready' = IF batch = <<>> THEN ready ELSE Append(ready, batch)
  /\ batch' = <<>> /\ batches' = "ended"
  /\ UNCHANGED <<format, file, sourceVars, parserVars, queue, loopVars>>

-----------------------------------------------------------------------------
(* The loops of the three functions *)

\* Rows of a batch of CSV or JSON are numbered one after the other from startRow.
Numbered(items, startRow) ==
  [n \in DOMAIN items |-> [line |-> startRow + n - 1, text |-> items[n].text]]

TakeBatch ==
  /\ Running /\ loop = "wait" /\ ready # <<>>
  /\ LET items == IF format = "csv" THEN Numbered(ready[1], batchNumber * BatchSize + 1)
                  ELSE ready[1]
     IN  /\ taken' = taken \o items
         /\ IF format = "csv"
            THEN loop' = "records" /\ valid' = items /\ UNCHANGED work
            ELSE loop' = "scan" /\ work' = items /\ UNCHANGED valid
         /\ counts' = [counts EXCEPT !.total = @ + Len(items)]
  /\ ready' = Tail(ready)
  /\ batchNumber' = batchNumber + 1
  /\ UNCHANGED <<format, file, sourceVars, parserVars, queue, batch, batches, errors, row, tallyVars>>

\* JSON.parse of all chunks.
ParseArray ==
  /\ Running /\ format = "json" /\ source = "ended" /\ parser = "open"
  /\ parser' = "ended"
  /\ IF \E n \in DOMAIN buffer : ~Blank(buffer[n]) /\ Kind(Trim(buffer[n])) = "junk"
     THEN loop' = "failed" /\ UNCHANGED <<lines, counts>>
     ELSE /\ lines' = buffer
          /\ counts' = [counts EXCEPT !.total = Cardinality({n \in DOMAIN buffer : ~Blank(buffer[n])})]
          /\ UNCHANGED loop
  /\ UNCHANGED <<format, file, sourceVars, buffer, lineNumber, queue, batchVars,
                 work, valid, batchNumber, errors, row, taken, tallyVars>>

TakeSlice ==
  /\ Running /\ format = "json" /\ loop = "wait" /\ lines = <<>> /\ queue # <<>>
  /\ LET size == IF Len(queue) < BatchSize THEN Len(queue) ELSE BatchSize
         items == Numbered(SubSeq(queue, 1, size), batchNumber * BatchSize + 1)
     IN  /\ taken' = taken \o items
         /\ valid' = items
         /\ queue' = SubSeq(queue, size + 1, Len(queue))
  /\ loop' = "records" /\ batchNumber' = batchNumber + 1
  /\ UNCHANGED <<format, file, sourceVars, parserVars, batchVars, work, counts, errors, row, tallyVars>>

\* After a batch: CSV and NDJSON tell of every tenth, JSON of each.
AfterBatch == IF format = "json" \/ batchNumber % ProgressEvery = 0 THEN "progress" ELSE "wait"

Room == Len(errors) < MaxErrors

\* One item of an NDJSON batch.  What is neither an error nor truthy is passed over.
ScanItem ==
  /\ Running /\ loop = "scan" /\ work # <<>>
  /\ LET kind == Kind(work[1].text)
     IN  /\ IF kind = "junk"
            THEN /\ counts' = [counts EXCEPT !.failed = @ + 1]
                 /\ failures' = failures \cup {work[1].line}
                 /\ errors' = IF Room THEN Append(errors, work[1].line) ELSE errors
            ELSE UNCHANGED <<counts, failures, errors>>
         /\ valid' = IF kind = "record" THEN Append(valid, work[1]) ELSE valid
  /\ work' = Tail(work)
  /\ UNCHANGED <<format, file, sourceVars, parserVars, queue, batchVars, loop, batchNumber,
                 row, taken, again>>

ScanEnds ==
  /\ Running /\ loop = "scan" /\ work = <<>>
  /\ loop' = IF valid = <<>> THEN AfterBatch ELSE "records"
  /\ UNCHANGED <<format, file, sourceVars, parserVars, queue, batchVars,
                 work, valid, batchNumber, counts, errors, row, taken, tallyVars>>

\* The entries processBatchWithLineNumbers may return if the records with these numbers
\* fail: at least one for each, or as many as are wanted.
Reports(bad) ==
  {entries \in UNION {[1..n -> bad] : n \in 0..MaxReport} :
     Len(entries) >= MaxErrors \/ \A b \in bad : \E n \in DOMAIN entries : entries[n] = b}

\* Variant: the entries of the batch are cut off as if there were no others.
Appended_Forgets(entries) ==
  errors \o SubSeq(entries, 1, IF Len(entries) < MaxErrors THEN Len(entries) ELSE MaxErrors)

\* errors with as many of the entries as there is room for.
Appended(entries) ==
  LET room == MaxErrors - Len(errors)
  IN  IF Room THEN errors \o SubSeq(entries, 1, IF Len(entries) < room THEN Len(entries) ELSE room)
      ELSE errors

\* Variant: rows that failed are not processed.
Processed_Successful(wrong) == Len(valid) - Cardinality(wrong)

Processed(wrong) == Len(valid)

\* RecordUpsert has the inside of this step.  A record whose RELEASE raises an error is
\* successful and failed.  If COMMIT raises one, every record that was valid counts as failed on
\* top of what upsertUsers and the others have counted.
ProcessRecords ==
  /\ Running /\ loop = "records"
  /\ format = "json" => \A n \in DOMAIN valid : Kind(valid[n].text) # "falsy"
  /\ \E good, wrong, all \in SUBSET DOMAIN valid :
       /\ good \cup wrong = DOMAIN valid
       /\ all = {} \/ good \subseteq all
       /\ "commit" \notin Faults => good \cap wrong = {} /\ all = {}
       /\ counts' = [counts EXCEPT
            !.processed = @ + Processed(wrong),
            !.successful = @ + Cardinality(good),
            !.failed = @ + Cardinality(wrong) + Cardinality(all)]
       /\ again' = again + Cardinality(good \cap wrong) + Cardinality(all)
       /\ LET bad == {valid[n].line : n \in wrong \cup all}
          IN  /\ failures' = failures \cup bad
              /\ \E entries \in Reports(bad) : errors' = Appended(entries)
  /\ valid' = <<>>
  /\ loop' = AfterBatch
  /\ UNCHANGED <<format, file, sourceVars, parserVars, queue, batchVars, work, batchNumber, row, taken>>

\* Validation of a null among the elements of a JSON array raises an error.
ValidationFails ==
  /\ Running /\ loop = "records" /\ format = "json"
  /\ \E n \in DOMAIN valid : Kind(valid[n].text) = "falsy"
  /\ loop' = "failed"
  /\ UNCHANGED <<format, file, sourceVars, parserVars, queue, batchVars,
                 work, valid, batchNumber, counts, errors, row, taken, tallyVars>>

DatabaseFails ==
  /\ "db" \in Faults /\ loop \in {"records", "progress"}
  /\ loop' = "failed"
  /\ UNCHANGED <<format, file, sourceVars, parserVars, queue, batchVars,
                 work, valid, batchNumber, counts, errors, row, taken, tallyVars>>

UpdateJobProgress ==
  /\ Running /\ loop = "progress"
  /\ row' = counts
  /\ loop' = "wait"
  /\ UNCHANGED <<format, file, sourceVars, parserVars, queue, batchVars,
                 work, valid, batchNumber, counts, errors, taken, tallyVars>>

NoMore ==
  IF format = "json" THEN parser = "ended" /\ lines = <<>> /\ queue = <<>>
  ELSE batches = "ended" /\ ready = <<>>

\* The function returns, and the job is finalized as COMPLETED with its counts.
Complete ==
  /\ Running /\ loop = "wait" /\ NoMore
  /\ row' = counts
  /\ loop' = "done"
  /\ UNCHANGED <<format, file, sourceVars, parserVars, queue, batchVars,
                 work, valid, batchNumber, counts, errors, taken, tallyVars>>

SourceStep ==
  \/ \E n \in {m \in 0..ChunkLines : m < Len(rest)} : \E k \in 0..Len(rest[n + 1]) : SendChunk(n, k)
  \/ SourceEnds
ParserStep == ParseLine \/ ParserEnds \/ ParserFails \/ ParseArray
BatchStep == AddToBatch \/ BatchesEnd
LoopStep ==
  \/ TakeBatch \/ TakeSlice \/ ScanItem \/ ScanEnds
  \/ ProcessRecords \/ ValidationFails \/ UpdateJobProgress \/ Complete

Next == SourceStep \/ SourceBreaks \/ ParserStep \/ BatchStep \/ LoopStep \/ DatabaseFails

Spec == Init /\ [][Next]_vars

\* Node runs every callback that is due.  A source that is not broken goes on.
FairSpec ==
  Spec /\ WF_vars(SourceStep) /\ WF_vars(ParserStep) /\ WF_vars(BatchStep) /\ WF_vars(LoopStep)

-----------------------------------------------------------------------------
(* Properties *)

IsRow(n) == n \in DOMAIN file /\ ~Blank(file[n])
Rank(n) == Cardinality({m \in 1..n : IsRow(m)})

\* A piece of a character that was cut is lost; everything else of a line is as it was.
Legible(text, line) ==
  /\ Len(text) = Len(line)
  /\ \A k \in DOMAIN text : text[k] = line[k] \/ (text[k] = "bad" /\ line[k] \in {"lead", "cont"})

\* However the text is cut into chunks and batches, the k-th item the loop gets is the k-th row
\* of the file, under the number a user would look for: the line for NDJSON, blank lines
\* included (NdjsonParseTransform), and the place among the rows for CSV and JSON.  Its text
\* is the row's unless a chunk ended inside of a character of an NDJSON line.
RowsKeepTheirNumber ==
  \A k \in DOMAIN taken : \E n \in DOMAIN file :
    /\ IsRow(n) /\ Rank(n) = k
    /\ taken[k].line = IF format = "ndjson" THEN n ELSE k
    /\ IF format = "ndjson" /\ n \in cuts THEN Legible(taken[k].text, Trim(file[n]))
       ELSE taken[k].text = Trim(file[n])

\* An import that returns its totals has come to the last row of its file: nothing is left in
\* the buffer of a parser or in a batch that is not full (_flush of both transforms).
DoneIsWhole == loop = "done" => Len(taken) = Rank(Len(file))

\* Lines the loop over an NDJSON batch meets with, by what it makes of them.
Met(kind) ==
  IF format = "ndjson"
  THEN Cardinality({k \in 1..(Len(taken) - Len(work)) : Kind(taken[k].text) = kind}) ELSE 0

\* The totals of an import agree, between batches and at the end.  Every row but NDJSON lines
\* like null is counted as successful or as failed, and once unless its RELEASE or COMMIT raised
\* an error; processedRows leaves out the NDJSON lines that are not JSON.  No row is successful
\* twice, and what the row of the job shows meanwhile is never more than 100 %.
TotalsAddUp ==
  loop \in {"wait", "progress", "done"} =>
    /\ counts.successful + counts.failed + Met("falsy") = Len(taken) + again
    /\ counts.processed + Met("falsy") + Met("junk") = Len(taken)
    /\ counts.successful <= counts.processed
    /\ counts.total >= Len(taken) /\ (format # "json" \/ loop = "done" => counts.total = Len(taken))
    /\ row.successful <= row.processed /\ row.processed <= row.total

\* A report is never longer than its limit, and one that is shorter names the rows that were
\* counted as failed and no others, although the errors of parsing and of the database are
\* collected apart.  failedRows is their number, unless a RELEASE or COMMIT raised an error.
ErrorsTell ==
  /\ Len(errors) <= MaxErrors
  /\ Len(errors) < MaxErrors => {errors[n] : n \in DOMAIN errors} = failures
  /\ Cardinality(failures) <= counts.failed /\ counts.failed <= Cardinality(failures) + again

\* Texts in memory: in a parser, between the stages, and in the batch that is being written.
Held ==
  {buffer[n] : n \in DOMAIN buffer} \cup {lines[n] : n \in DOMAIN lines}
  \cup {queue[n].text : n \in DOMAIN queue} \cup {batch[n].text : n \in DOMAIN batch}
  \cup (UNION {{ready[b][n].text : n \in DOMAIN ready[b]} : b \in DOMAIN ready})
  \cup {work[n].text : n \in DOMAIN work} \cup {valid[n].text : n \in DOMAIN valid}

\* A slow database holds the source back.  How many lines of a CSV or NDJSON file wait in memory
\* does not depend on the file, and no text there is longer than a line of it: what README.md:31
\* ("O(1) memory usage") promises of every file holds of one whose lines are short.  The parser
\* keeps a line without an end as long as it is (NdjsonParseTransform), and a JSON file is in
\* memory as a whole, as text and as an array (processJSONStream).
MemoryIsBounded ==
  /\ \A s \in Held : \E n \in DOMAIN file : Len(s) <= Len(file[n])
  /\ Len(batch) < BatchSize /\ Len(work) + Len(valid) <= BatchSize
  /\ IF format = "json" THEN Len(buffer) <= Len(file) /\ Len(lines) + Len(queue) <= Len(file)
     ELSE Len(buffer) = 1 /\ Len(lines) + Len(queue) <= Hwm + ChunkLines /\ Len(ready) <= Hwm + 1

\* An import whose source keeps sending comes to an end, one way or another.  One whose
\* connection breaks off without an event waits for ever, unless it reads a JSON file.
ImportComesToAnEnd == <>(~Running \/ (source = "broken" /\ format # "json"))
=============================================================================
