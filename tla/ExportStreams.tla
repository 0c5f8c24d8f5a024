---------------------------- MODULE ExportStreams ----------------------------
(***************************************************************************)
(* How the rows of a table become a document: createExportStream,          *)
(* streamRecords, wrapAsJsonArray and transformToCsv of exports.service.ts *)
(* with NdjsonStringifyTransform and MetricsTransform of stream.utils.ts,  *)
(* for the upload of a job (executeExportProcessing, uploadStream) and for *)
(* an HTTP response (streamExport of exports.controller.ts).               *)
(*                                                                         *)
(* A document is a sequence of pieces, one for each write to the stream    *)
(* that is returned.  The table does not change here: ExportJobs has the   *)
(* pages of one that does.  Node runs one of the steps at a time, and how  *)
(* fast the storage or the client takes the pieces is up to them.          *)
(***************************************************************************)
EXTENDS Integers, Sequences

CONSTANTS
  Formats,   \* formats that may be asked for
  Sinks,     \* "upload" for a job, "response" for a request
  Sizes,     \* numbers of rows the table may have
  PageSize,  \* export.batchSize
  Hwm,       \* highWaterMark of a stream in object mode
  Faults     \* what may go wrong

FaultKinds ==
  {"db",      \* the query of a page raises an error
   "s3",      \* the upload fails
   "abort"}   \* the client goes away

ASSUME ChoicesAssumption ==
  /\ Formats \subseteq {"ndjson", "json", "csv"} /\ Sinks \subseteq {"upload", "response"}
  /\ Faults \subseteq FaultKinds
ASSUME SizesAssumption ==
  Sizes \subseteq Nat /\ PageSize \in Nat \ {0} /\ Hwm \in Nat \ {0}

Piece == [kind : {"row", "open", "comma", "close", "header"}, row : Nat]
Row(r) == [kind |-> "row", row |-> r]
Mark(k) == [kind |-> k, row |-> 0]

VARIABLES
  format, sink, size,
  offset,   \* rows that were read
  pages,    \* whether streamRecords goes on
  input,    \* rows in the PassThrough it writes to
  output,   \* pieces in the stream that is returned
  written,  \* whether the first row was written (first, headerWritten)
  closed,   \* whether the stream that is returned has ended
  sunk,     \* pieces the storage or the client has got
  counted,  \* the count of MetricsTransform
  progress, \* exportedRows of the job, while it runs
  outcome   \* what became of the export

vars == <<format, sink, size, offset, pages, input, output, written, closed, sunk,
          counted, progress, outcome>>

TypeOK ==
  /\ format \in Formats /\ sink \in Sinks /\ size \in Sizes
  /\ offset \in 0..size /\ pages \in {"more", "end", "error"}
  /\ input \in Seq(1..size) /\ output \in Seq(Piece)
  /\ written \in BOOLEAN /\ closed \in BOOLEAN
  /\ sunk \in Seq(Piece) /\ counted \in Nat /\ progress \in Nat
  /\ outcome \in {"open", "complete", "failed", "aborted", "left open", "dead"}

\* wrapAsJsonArray writes its bracket at once.
Init ==
  /\ format \in Formats /\ sink \in Sinks /\ size \in Sizes
  /\ offset = 0 /\ pages = "more" /\ input = <<>>
  /\ output = (IF format = "json" THEN <<Mark("open")>> ELSE <<>>)
  /\ written = FALSE /\ closed = FALSE
  /\ sunk = <<>> /\ counted = 0 /\ progress = 0
  /\ outcome = "open"

-----------------------------------------------------------------------------
(* streamRecords *)

\* Variant: every page is taken to be full.
PageLength_Full == PageSize

PageLength == IF size - offset < PageSize THEN size - offset ELSE PageSize

\* All rows of a page are written, whatever write() returns.
FetchPage ==
  /\ outcome # "dead" /\ pages = "more"
  /\ input' = input \o [n \in 1..PageLength |-> offset + n]
  /\ offset' = offset + PageLength
  /\ pages' = IF PageLength = PageSize THEN "more" ELSE "end"
  /\ UNCHANGED <<format, sink, size, output, written, closed, sunk, counted, progress, outcome>>

\* Variant: the stream ends at the error.
PagesAfterError_End == "end"

PagesAfterError == "error"

HeadersSent == sunk # <<>>

\* What the error of the stream means to those who read it.  Nobody listens to the PassThrough of
\* an NDJSON export, nor to any stream of a job.
AfterError ==
  IF format = "ndjson" \/ sink = "upload" THEN "dead"
  ELSE IF outcome # "open" THEN outcome
  ELSE IF HeadersSent THEN "left open" ELSE "failed"

\* The PassThrough is destroyed with what it holds, and so is the stream behind it.
FetchFails ==
  /\ "db" \in Faults /\ outcome # "dead" /\ pages = "more"
  /\ pages' = PagesAfterError
  /\ IF pages' = "error" THEN outcome' = AfterError /\ input' = <<>> /\ output' = <<>>
     ELSE UNCHANGED <<outcome, input, output>>
  /\ UNCHANGED <<format, sink, size, offset, written, closed, sunk, counted, progress>>

-----------------------------------------------------------------------------
(* NdjsonStringifyTransform, wrapAsJsonArray, transformToCsv *)

\* Variant: nothing tells the first row from the others.
Lead_Forgets ==
  CASE format = "csv" -> <<Mark("header")>> [] format = "json" -> <<>> [] OTHER -> <<>>

\* What goes before a row.
Lead ==
  IF format = "csv" /\ ~written THEN <<Mark("header")>>
  ELSE IF format = "json" /\ written THEN <<Mark("comma")>> ELSE <<>>

\* Variant: the stream is taken to be full an item early.
Taking_OffByOne == format = "ndjson" => Len(output) < Hwm - 1

\* pipe() waits for the reader of an NDJSON export; the listeners of the others do not, and
\* nothing is taken any more from an NDJSON stream that nobody reads.
Taking == format = "ndjson" => Len(output) < Hwm

FormatRow ==
  /\ outcome # "dead" /\ input # <<>> /\ Taking
  /\ output' = (output \o Lead) \o <<Row(input[1])>>
  /\ input' = Tail(input)
  /\ written' = TRUE
  /\ UNCHANGED <<format, sink, size, offset, pages, closed, sunk, counted, progress, outcome>>

FormatEnds ==
  /\ outcome # "dead" /\ pages = "end" /\ input = <<>> /\ ~closed
  /\ output' = IF format = "json" THEN Append(output, Mark("close")) ELSE output
  /\ closed' = TRUE
  /\ UNCHANGED <<format, sink, size, offset, pages, input, written, sunk, counted, progress, outcome>>

-----------------------------------------------------------------------------
(* The upload or the response *)

\* Parts are put together in their order, whichever arrives first.
TakePiece ==
  /\ outcome = "open" /\ output # <<>>
  /\ sunk' = Append(sunk, output[1])
  /\ output' = Tail(output)
  /\ counted' = IF sink = "upload" THEN counted + 1 ELSE counted
  /\ UNCHANGED <<format, sink, size, offset, pages, input, written, closed, progress, outcome>>

\* onMetrics, every five seconds.
ReportProgress ==
  /\ outcome = "open" /\ sink = "upload"
  /\ progress' = counted
  /\ UNCHANGED <<format, sink, size, offset, pages, input, output, written, closed, sunk,
                 counted, outcome>>

\* The update is a promise nobody waits for: its rejection ends the process.
ProgressFails ==
  /\ "db" \in Faults /\ outcome = "open" /\ sink = "upload" /\ counted > 0
  /\ outcome' = "dead"
  /\ UNCHANGED <<format, sink, size, offset, pages, input, output, written, closed, sunk,
                 counted, progress>>

\* upload.done(), after which the job is COMPLETED, or the end of the response.
SinkEnds ==
  /\ outcome = "open" /\ closed /\ output = <<>>
  /\ outcome' = "complete"
  /\ UNCHANGED <<format, sink, size, offset, pages, input, output, written, closed, sunk,
                 counted, progress>>

\* The upload raises an error and the job is FAILED, or the client closes the connection.  Neither
\* stops streamRecords.
SinkFails ==
  /\ \/ outcome = "open" /\ sink = "upload" /\ "s3" \in Faults /\ outcome' = "failed"
     \/ outcome \in {"open", "left open"} /\ sink = "response" /\ "abort" \in Faults
        /\ outcome' = "aborted"
  /\ UNCHANGED <<format, sink, size, offset, pages, input, output, written, closed, sunk,
                 counted, progress>>

StreamStep == FetchPage \/ FetchFails \/ FormatRow \/ FormatEnds \/ TakePiece \/ SinkEnds

Next == StreamStep \/ ReportProgress \/ ProgressFails \/ SinkFails

Spec == Init /\ [][Next]_vars

\* Queries are answered and what is due is run; the storage and the client take what is sent.
\* Each step uses up a page, a row or a piece.
FairSpec == Spec /\ WF_vars(StreamStep)

-----------------------------------------------------------------------------
(* Properties *)

\* What the export of n rows is to look like.
Document(n) ==
  CASE format = "ndjson" -> [k \in 1..n |-> Row(k)]
    [] format = "csv" ->
         [k \in 1..(IF n = 0 THEN 0 ELSE n + 1) |-> IF k = 1 THEN Mark("header") ELSE Row(k - 1)]
    [] format = "json" ->
         [k \in 1..(IF n = 0 THEN 2 ELSE 2 * n + 1) |->
            IF k = 1 THEN Mark("open")
            ELSE IF k = 2 * n + 1 \/ n = 0 THEN Mark("close")
            ELSE IF k % 2 = 0 THEN Row(k \div 2) ELSE Mark("comma")]

\* At any time, and whatever failed, a client has got a beginning of the document, every piece
\* in its place: rows in order, one comma between two of them, one header.
SunkIsPrefix ==
  /\ Len(sunk) <= Len(Document(size))
  /\ \A k \in DOMAIN sunk : sunk[k] = Document(size)[k]

\* A file that is reported as complete, and a response that ends, is the whole document: an error
\* never looks like the end of the table (streamRecords).
CompleteIsWhole == outcome = "complete" => sunk = Document(size)

\* An export comes to an end unless a query fails when a part of a JSON or CSV response has been
\* sent: that response stays open until the client gives up.
ExportEnds == <>(outcome # "open")

\* What README.md:31 says: memory does not grow with the table.  What waits between the
\* database and the reader would be a page and what the streams hold.
MemoryIsBounded == Len(input) + Len(output) <= PageSize + 2 * Hwm + 2
=============================================================================
