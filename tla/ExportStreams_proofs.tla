------------------------ MODULE ExportStreams_proofs ------------------------
(* Proofs about ExportStreams: for any table, page size and order of steps. *)
EXTENDS ExportStreams, SequenceTheorems, TLAPS

-----------------------------------------------------------------------------
(* Types *)

LEMMA PageLengthBounds ==
  ASSUME TypeOK
  PROVE  /\ PageLength \in 0..PageSize /\ PageLength <= size - offset
         /\ PageLength # PageSize => PageLength = size - offset
         /\ size \in Nat /\ offset \in 0..size
<1>1. size \in Nat /\ PageSize \in Nat \ {0}
  BY SizesAssumption DEF TypeOK
<1>2. offset \in 0..size
  BY DEF TypeOK
<1> QED
  BY <1>1, <1>2 DEF PageLength

LEMMA LeadType == Lead \in Seq(Piece) /\ (Lead = <<>> \/ \E p \in Piece : Lead = <<p>>)
<1>1. Mark("header") \in Piece /\ Mark("comma") \in Piece
  BY DEF Mark, Piece
<1>2. Lead = <<>> \/ Lead = <<Mark("header")>> \/ Lead = <<Mark("comma")>>
  BY DEF Lead
<1>3. <<>> \in Seq(Piece) /\ <<Mark("header")>> \in Seq(Piece) /\ <<Mark("comma")>> \in Seq(Piece)
  BY <1>1
<1>4. Lead \in Seq(Piece)
  BY <1>2, <1>3, Zenon
<1> QED
  BY <1>1, <1>2, <1>4

LEMMA TypesStep == ASSUME TypeOK, [Next]_vars PROVE TypeOK'
<1>1. CASE UNCHANGED vars
  BY <1>1 DEF vars, TypeOK
<1>2. CASE FetchPage
  <2>1. offset' \in 0..size /\ \A n \in 1..PageLength : offset + n \in 1..size
    BY <1>2, PageLengthBounds, SizesAssumption DEF FetchPage
  <2>2. [n \in 1..PageLength |-> offset + n] \in Seq(1..size)
    BY <2>1, PageLengthBounds, SizesAssumption
  <2>3. input \in Seq(1..size) /\ input' = input \o [n \in 1..PageLength |-> offset + n]
    BY <1>2 DEF FetchPage, TypeOK
  <2>4. input' \in Seq(1..size)
    BY <2>2, <2>3
  <2> QED
    BY <1>2, <2>1, <2>4 DEF FetchPage, TypeOK
<1>3. CASE FetchFails
  <2>1. AfterError \in {"open", "complete", "failed", "aborted", "left open", "dead"}
    BY DEF AfterError, TypeOK
  <2>2. pages' = "error" /\ outcome' = AfterError /\ input' = <<>> /\ output' = <<>>
    BY <1>3 DEF FetchFails, PagesAfterError
  <2>3. input' \in Seq(1..size) /\ output' \in Seq(Piece)
    BY <2>2
  <2> QED
    BY <1>3, <2>1, <2>2, <2>3 DEF FetchFails, TypeOK
<1>4. CASE FormatRow
  <2>0. input \in Seq(1..size) /\ input # <<>> /\ output \in Seq(Piece)
    BY <1>4 DEF FormatRow, TypeOK
  <2>1. input[1] \in 1..size /\ size \in Nat /\ Tail(input) \in Seq(1..size)
    BY <2>0, PageLengthBounds
  <2>2. Row(input[1]) \in Piece
    BY <2>1 DEF Row, Piece
  <2>3. output' \in Seq(Piece)
    <3>1. output \o Lead \in Seq(Piece) /\ <<Row(input[1])>> \in Seq(Piece)
      BY <2>0, <2>2, LeadType
    <3> QED
      BY <1>4, <3>1 DEF FormatRow
  <2> QED
    BY <1>4, <2>1, <2>3 DEF FormatRow, TypeOK
<1>5. CASE FormatEnds
  <2>1. Mark("close") \in Piece
    BY DEF Mark, Piece
  <2>2. output \in Seq(Piece) /\ (output' = output \/ output' = Append(output, Mark("close")))
    BY <1>5 DEF FormatEnds, TypeOK
  <2>3. output' \in Seq(Piece)
    BY <2>1, <2>2
  <2> QED
    BY <1>5, <2>3 DEF FormatEnds, TypeOK
<1>6. CASE TakePiece
  <2>1. output[1] \in Piece /\ Tail(output) \in Seq(Piece)
    BY <1>6 DEF TakePiece, TypeOK
  <2> QED
    BY <1>6, <2>1 DEF TakePiece, TypeOK
<1>7. CASE SinkEnds \/ ReportProgress \/ ProgressFails \/ SinkFails
  BY <1>7 DEF SinkEnds, ReportProgress, ProgressFails, SinkFails, TypeOK
<1> QED
  BY <1>1, <1>2, <1>3, <1>4, <1>5, <1>6, <1>7 DEF Next, StreamStep

LEMMA InitTypes == Init => TypeOK
<1> SUFFICES ASSUME Init PROVE TypeOK
  OBVIOUS
<1>1. Mark("open") \in Piece
  BY DEF Mark, Piece
<1>2. output \in Seq(Piece) /\ input \in Seq(1..size) /\ sunk \in Seq(Piece)
  BY <1>1 DEF Init
<1>3. size \in Nat /\ offset \in 0..size
  BY SizesAssumption DEF Init
<1> QED
  BY <1>2, <1>3 DEF Init, TypeOK

\* The type invariant holds for any tables, page sizes and faults.
THEOREM TypeCorrect == Spec => []TypeOK
BY InitTypes, TypesStep, PTL DEF Spec

-----------------------------------------------------------------------------
(* The document so far *)

\* Rows that were formatted, and how many pieces they make.
Formatted == offset - Len(input)
Emitted(r) ==
  IF format = "ndjson" THEN r
  ELSE IF format = "csv" THEN (IF r = 0 THEN 0 ELSE r + 1)
  ELSE (IF r = 0 THEN 1 ELSE 2 * r)

\* Pieces in their places, from the k-th on.
Fits(pieces, k) == \A n \in 1..Len(pieces) : pieces[n] = Document(size)[k + n]

LEMMA DocumentLength ==
  ASSUME TypeOK
  PROVE  /\ size \in Nat
         /\ format = "ndjson" => Len(Document(size)) = size
         /\ format = "csv" => Len(Document(size)) = IF size = 0 THEN 0 ELSE size + 1
         /\ format = "json" => Len(Document(size)) = IF size = 0 THEN 2 ELSE 2 * size + 1
<1>1. size \in Nat
  BY PageLengthBounds
<1> QED
  BY <1>1 DEF Document

LEMMA FitsJoined ==
  ASSUME NEW s \in Seq(Piece), NEW t \in Seq(Piece), NEW k \in Nat, Fits(s, k), Fits(t, k + Len(s))
  PROVE  Fits(s \o t, k) /\ s \o t \in Seq(Piece) /\ Len(s \o t) = Len(s) + Len(t)
<1>1. s \o t \in Seq(Piece) /\ Len(s \o t) = Len(s) + Len(t)
  OBVIOUS
<1>2. ASSUME NEW n \in 1..Len(s \o t) PROVE (s \o t)[n] = Document(size)[k + n]
  <2>1. CASE n <= Len(s)
    <3>1. (s \o t)[n] = s[n] /\ n \in 1..Len(s)
      BY <2>1
    <3> QED
      BY <3>1 DEF Fits
  <2>2. CASE n > Len(s)
    <3>1. (s \o t)[n] = t[n - Len(s)] /\ n - Len(s) \in 1..Len(t)
      BY <1>1, <2>2
    <3>2. t[n - Len(s)] = Document(size)[(k + Len(s)) + (n - Len(s))]
      BY <3>1 DEF Fits
    <3>3. (k + Len(s)) + (n - Len(s)) = k + n
      OBVIOUS
    <3> QED
      BY <3>1, <3>2, <3>3
  <2> QED
    BY <1>1, <2>1, <2>2
<1> QED
  BY <1>1, <1>2 DEF Fits

LEMMA FitsOne ==
  ASSUME NEW p \in Piece, NEW k \in Nat, Document(size)[k + 1] = p
  PROVE  Fits(<<p>>, k) /\ <<p>> \in Seq(Piece) /\ Len(<<p>>) = 1
<1>1. Len(<<p>>) = 1 /\ <<p>>[1] = p /\ <<p>> \in Seq(Piece)
  OBVIOUS
<1>2. \A n \in 1..Len(<<p>>) : n = 1
  BY <1>1
<1> QED
  BY <1>1, <1>2 DEF Fits

\* What goes before a row, and the row, have their places after the pieces of the rows before it.
LEMMA LeadFits ==
  ASSUME TypeOK, NEW r \in Nat, r < size, written <=> r > 0
  PROVE  /\ Fits(Lead, Emitted(r)) /\ Emitted(r) \in Nat
         /\ Emitted(r + 1) = Emitted(r) + Len(Lead) + 1
         /\ Document(size)[Emitted(r) + Len(Lead) + 1] = Row(r + 1)
<1>1. size \in Nat /\ format \in {"ndjson", "json", "csv"}
  BY PageLengthBounds, ChoicesAssumption DEF TypeOK
<1>0. Mark("header") \in Piece /\ Mark("comma") \in Piece
  BY DEF Mark, Piece
<1>e. ASSUME Lead = <<>> PROVE Fits(Lead, Emitted(r)) /\ Len(Lead) = 0
  BY <1>e DEF Fits
<1>2. CASE format = "ndjson"
  <2>1. Lead = <<>>
    BY <1>2 DEF Lead
  <2>2. Emitted(r) = r /\ Emitted(r + 1) = r + 1
    BY <1>2 DEF Emitted
  <2>3. Document(size)[r + 1] = Row(r + 1)
    BY <1>1, <1>2 DEF Document
  <2> QED
    BY <1>e, <2>1, <2>2, <2>3
<1>3. CASE format = "csv" /\ r = 0
  <2>0. ~written
    BY <1>3
  <2>1. Lead = <<Mark("header")>>
    BY <1>3, <2>0 DEF Lead
  <2>2. Emitted(r) = 0 /\ Emitted(r + 1) = 2
    BY <1>3 DEF Emitted
  <2>3. Document(size)[1] = Mark("header") /\ Document(size)[2] = Row(1)
    BY <1>1, <1>3 DEF Document
  <2>4. Fits(Lead, Emitted(r)) /\ Len(Lead) = 1
    BY <1>0, <2>1, <2>2, <2>3, FitsOne
  <2> QED
    BY <1>3, <2>2, <2>3, <2>4
<1>4. CASE format = "csv" /\ r # 0
  <2>0. written
    BY <1>4
  <2>1. Lead = <<>>
    BY <1>4, <2>0 DEF Lead
  <2>2. Emitted(r) = r + 1 /\ Emitted(r + 1) = r + 2
    BY <1>4 DEF Emitted
  <2>3. Document(size)[r + 2] = Row(r + 1)
    BY <1>1, <1>4 DEF Document
  <2> QED
    BY <1>e, <2>1, <2>2, <2>3
<1>5. CASE format = "json" /\ r = 0
  <2>0. ~written
    BY <1>5
  <2>1. Lead = <<>>
    BY <1>5, <2>0 DEF Lead
  <2>2. Emitted(r) = 1 /\ Emitted(r + 1) = 2
    BY <1>5 DEF Emitted
  <2>3. Document(size)[2] = Row(1)
    BY <1>1, <1>5 DEF Document
  <2> QED
    BY <1>e, <1>5, <2>1, <2>2, <2>3
<1>6. CASE format = "json" /\ r # 0
  <2>0. written
    BY <1>6
  <2>1. Lead = <<Mark("comma")>>
    BY <1>6, <2>0 DEF Lead
  <2>2. Emitted(r) = 2 * r /\ Emitted(r + 1) = 2 * r + 2
    BY <1>6 DEF Emitted
  <2>3. (2 * r + 1) % 2 = 1 /\ (2 * r + 2) % 2 = 0 /\ (2 * r + 2) \div 2 = r + 1
    OBVIOUS
  <2>4. Document(size)[2 * r + 1] = Mark("comma") /\ Document(size)[2 * r + 2] = Row(r + 1)
    BY <1>1, <1>6, <2>3 DEF Document
  <2>5. Fits(Lead, Emitted(r)) /\ Len(Lead) = 1
    BY <1>0, <2>1, <2>2, <2>4, FitsOne
  <2> QED
    BY <2>2, <2>4, <2>5
<1> QED
  BY <1>1, <1>2, <1>3, <1>4, <1>5, <1>6

LEMMA DocumentIsSeq == ASSUME TypeOK PROVE Document(size) \in Seq(Piece)
<1>1. size \in Nat /\ format \in {"ndjson", "json", "csv"}
  BY PageLengthBounds, ChoicesAssumption DEF TypeOK
<1>2. \A r \in Nat : Row(r) \in Piece
  BY DEF Row, Piece
<1>3. Mark("header") \in Piece /\ Mark("open") \in Piece /\ Mark("close") \in Piece /\ Mark("comma") \in Piece
  BY DEF Mark, Piece
<1>4. CASE format = "ndjson"
  <2>1. [k \in 1..size |-> Row(k)] \in Seq(Piece)
    BY <1>1, <1>2
  <2> QED
    BY <1>4, <2>1 DEF Document
<1>5. CASE format = "csv"
  <2>1. [k \in 1..(IF size = 0 THEN 0 ELSE size + 1) |->
           IF k = 1 THEN Mark("header") ELSE Row(k - 1)] \in Seq(Piece)
    <3>1. (IF size = 0 THEN 0 ELSE size + 1) \in Nat
      BY <1>1
    <3>2. \A k \in 1..(IF size = 0 THEN 0 ELSE size + 1) : (IF k = 1 THEN Mark("header") ELSE Row(k - 1)) \in Piece
      BY <1>1, <1>2, <1>3
    <3> QED
      BY <3>1, <3>2
  <2> QED
    BY <1>5, <2>1 DEF Document
<1>6. CASE format = "json"
  <2> DEFINE len == IF size = 0 THEN 2 ELSE 2 * size + 1
             piece(k) == IF k = 1 THEN Mark("open")
                         ELSE IF k = 2 * size + 1 \/ size = 0 THEN Mark("close")
                         ELSE IF k % 2 = 0 THEN Row(k \div 2) ELSE Mark("comma")
  <2>1. len \in Nat
    BY <1>1
  <2>2. \A k \in 1..len : piece(k) \in Piece
    <3> SUFFICES ASSUME NEW k \in 1..len PROVE piece(k) \in Piece
      OBVIOUS
    <3>1. k \div 2 \in Nat
      BY <2>1
    <3>2. Row(k \div 2) \in Piece
      BY <1>2, <3>1
    <3> QED
      BY <1>3, <3>2
  <2>3. Document(size) = [k \in 1..len |-> piece(k)]
    BY <1>6 DEF Document
  <2> HIDE DEF len, piece
  <2> QED
    BY <2>1, <2>2, <2>3
<1> QED
  BY <1>1, <1>4, <1>5, <1>6

\* How many pieces the rows read so far make at most.
Reach ==
  CASE format = "ndjson" -> offset [] format = "csv" -> offset + 1
    [] format = "json" -> 2 * offset + 1 + (IF offset = 0 THEN 1 ELSE 0)

LEMMA EmittedBounds ==
  ASSUME TypeOK, NEW r \in Nat, r <= offset
  PROVE  Emitted(r) \in Nat /\ Emitted(r) <= Len(Document(size)) /\ Emitted(r) <= Reach
<1>1. size \in Nat /\ offset \in 0..size /\ format \in {"ndjson", "json", "csv"}
  BY PageLengthBounds, ChoicesAssumption DEF TypeOK
<1>2. CASE format = "ndjson"
  BY <1>1, <1>2, DocumentLength DEF Emitted, Reach
<1>3. CASE format = "csv"
  BY <1>1, <1>3, DocumentLength DEF Emitted, Reach
<1>4. CASE format = "json"
  <2>1. Emitted(r) = (IF r = 0 THEN 1 ELSE 2 * r)
    BY <1>4 DEF Emitted
  <2>2. Reach = 2 * offset + 1 + (IF offset = 0 THEN 1 ELSE 0)
    BY <1>4 DEF Reach
  <2>3. Len(Document(size)) = IF size = 0 THEN 2 ELSE 2 * size + 1
    BY <1>4, DocumentLength
  <2> QED
    BY <1>1, <2>1, <2>2, <2>3
<1> QED
  BY <1>1, <1>2, <1>3, <1>4

-----------------------------------------------------------------------------
(* What was read, formatted and sent *)

\* Until an error, what waits are the rows that were read last, in their order.
InputInv ==
  pages # "error" =>
    /\ Len(input) <= offset
    /\ \A n \in 1..Len(input) : input[n] = Formatted + n
    /\ written <=> Formatted > 0
    /\ pages = "end" => offset = size

\* All that was formatted was sent or waits, and what ends is whole.
OutputInv ==
  IF pages = "error" THEN output = <<>> /\ input = <<>> /\ ~closed
  ELSE IF closed THEN /\ pages = "end" /\ input = <<>>
                      /\ Len(sunk) + Len(output) = Len(Document(size))
  ELSE Len(sunk) + Len(output) = Emitted(Formatted)

SentInv ==
  /\ Fits(sunk, 0) /\ Fits(output, Len(sunk))
  /\ Len(sunk) + Len(output) <= Len(Document(size))
  /\ Len(sunk) + Len(output) <= Reach
  /\ progress <= counted /\ counted <= Len(sunk)
  /\ outcome = "complete" => closed /\ output = <<>>

StreamInv == InputInv /\ OutputInv /\ SentInv

LEMMA SameDocument ==
  ASSUME size' = size, format' = format
  PROVE  /\ Document(size)' = Document(size)
         /\ \A r : Emitted(r)' = Emitted(r)
         /\ offset' = offset => Reach' = Reach
<1>1. Document(size)' = Document(size)
  BY DEF Document
<1>2. ASSUME NEW r PROVE Emitted(r)' = Emitted(r)
  BY DEF Emitted
<1>3. offset' = offset => Reach' = Reach
  BY DEF Reach
<1> QED
  BY <1>1, <1>2, <1>3

LEMMA StreamInit == ASSUME Init, TypeOK PROVE StreamInv
<1>1. size \in Nat /\ format \in {"ndjson", "json", "csv"} /\ offset = 0 /\ input = <<>> /\ sunk = <<>>
  BY PageLengthBounds, ChoicesAssumption DEF Init, TypeOK
<1>2. Formatted = 0 /\ Len(input) = 0 /\ Len(sunk) = 0
  <2>1. Len(input) = 0 /\ Len(sunk) = 0
    BY <1>1
  <2>2. Formatted = offset - Len(input)
    BY DEF Formatted
  <2>3. offset = 0
    BY <1>1
  <2> QED
    BY <2>1, <2>2, <2>3
<1>3. InputInv
  BY <1>1, <1>2 DEF Init, InputInv
<1>4. Emitted(0) \in Nat /\ Emitted(0) <= Len(Document(size)) /\ Emitted(0) <= Reach
  BY <1>1, EmittedBounds
<1>5. Fits(output, Len(sunk)) /\ Len(output) = Emitted(0)
  <2>1. CASE format = "json"
    <3>1. output = <<Mark("open")>> /\ Emitted(0) = 1
      BY <2>1 DEF Init, Emitted
    <3>2. Document(size)[1] = Mark("open") /\ Mark("open") \in Piece
      BY <1>1, <2>1 DEF Document, Mark, Piece
    <3> QED
      BY <1>2, <3>1, <3>2, FitsOne
  <2>2. CASE format # "json"
    <3>1. output = <<>> /\ Emitted(0) = 0
      BY <1>1, <2>2 DEF Init, Emitted
    <3> QED
      BY <3>1 DEF Fits
  <2> QED
    BY <2>1, <2>2
<1>6. OutputInv
  BY <1>2, <1>4, <1>5 DEF Init, OutputInv
<1>7. SentInv
  <2>1. Fits(sunk, 0)
    BY <1>1 DEF Fits
  <2>2. progress = 0 /\ counted = 0 /\ outcome = "open"
    BY DEF Init
  <2> QED
    BY <1>2, <1>4, <1>5, <2>1, <2>2 DEF SentInv
<1> QED
  BY <1>3, <1>6, <1>7 DEF StreamInv

LEMMA FetchKeeps == ASSUME TypeOK, StreamInv, FetchPage PROVE StreamInv'
<1>1. size' = size /\ format' = format /\ sunk' = sunk /\ output' = output /\ closed' = closed
      /\ written' = written /\ counted' = counted /\ progress' = progress /\ outcome' = outcome
  BY DEF FetchPage
<1>2. /\ pages = "more" /\ offset' = offset + PageLength /\ pages' \in {"more", "end"}
      /\ pages' = "end" => PageLength # PageSize
      /\ input' = input \o [n \in 1..PageLength |-> offset + n]
  BY DEF FetchPage
<1>3. /\ PageLength \in 0..PageSize /\ PageLength <= size - offset
      /\ PageLength # PageSize => PageLength = size - offset
      /\ size \in Nat /\ offset \in 0..size /\ PageSize \in Nat
  BY PageLengthBounds, SizesAssumption
<1>4. ~closed /\ Len(sunk) + Len(output) = Emitted(Formatted) /\ Len(input) <= offset
      /\ (\A n \in 1..Len(input) : input[n] = Formatted + n) /\ (written <=> Formatted > 0)
  BY <1>2 DEF StreamInv, InputInv, OutputInv
<1>5. input \in Seq(1..size) /\ Len(input) \in Nat
  <2>1. input \in Seq(1..size)
    BY DEF TypeOK
  <2> QED
    BY <2>1
<1>6. [n \in 1..PageLength |-> offset + n] \in Seq(Nat)
  BY <1>3
<1>7. /\ Len(input') = Len(input) + PageLength
      /\ \A n \in 1..Len(input) : input'[n] = input[n]
      /\ \A n \in Len(input) + 1..Len(input) + PageLength : input'[n] = offset + (n - Len(input))
  BY <1>2, <1>3, <1>5, <1>6
<1>8. Formatted' = Formatted /\ Formatted \in Nat
  BY <1>2, <1>3, <1>4, <1>5, <1>7 DEF Formatted
<1>9. InputInv'
  <2>1. Len(input') <= offset' /\ (pages' = "end" => offset' = size')
    BY <1>1, <1>2, <1>3, <1>4, <1>7
  <2>2. ASSUME NEW n \in 1..Len(input') PROVE input'[n] = Formatted' + n
    <3>1. CASE n \in 1..Len(input)
      BY <1>4, <1>7, <1>8, <3>1
    <3>2. CASE n \notin 1..Len(input)
      <4>1. n \in Len(input) + 1..Len(input) + PageLength
        BY <1>3, <1>5, <1>7, <3>2
      <4> QED
        BY <1>3, <1>5, <1>7, <1>8, <4>1 DEF Formatted
    <3> QED
      BY <3>1, <3>2
  <2>3. written' <=> Formatted' > 0
    BY <1>1, <1>4, <1>8
  <2> QED
    BY <2>1, <2>2, <2>3 DEF InputInv
<1>10. Document(size)' = Document(size) /\ Emitted(Formatted)' = Emitted(Formatted)
  BY <1>1, <1>8, SameDocument DEF Emitted
<1>11. OutputInv'
  BY <1>1, <1>2, <1>4, <1>10 DEF OutputInv
<1>12. SentInv'
  <2>1. Fits(sunk, 0)' /\ Fits(output, Len(sunk))'
    BY <1>1, <1>10 DEF StreamInv, SentInv, Fits
  <2>2. Len(sunk') + Len(output') <= Reach'
    <3>1. Reach \in Nat /\ Reach' \in Nat /\ Reach <= Reach'
      <4>1. CASE format = "ndjson"
        BY <1>1, <1>2, <1>3, <4>1 DEF Reach
      <4>2. CASE format = "csv"
        BY <1>1, <1>2, <1>3, <4>2 DEF Reach
      <4>3. CASE format = "json"
        <5>1. Reach = 2 * offset + 1 + (IF offset = 0 THEN 1 ELSE 0)
          BY <4>3 DEF Reach
        <5>2. Reach' = 2 * offset' + 1 + (IF offset' = 0 THEN 1 ELSE 0)
          BY <1>1, <4>3 DEF Reach
        <5> QED
          BY <1>2, <1>3, <5>1, <5>2
      <4> QED
        BY <4>1, <4>2, <4>3, ChoicesAssumption DEF TypeOK
    <3>2. Len(sunk) \in Nat /\ Len(output) \in Nat
      <4>1. sunk \in Seq(Piece) /\ output \in Seq(Piece)
        BY DEF TypeOK
      <4> QED
        BY <4>1
    <3> QED
      BY <1>1, <3>1, <3>2 DEF StreamInv, SentInv
  <2> QED
    BY <1>1, <1>10, <2>1, <2>2 DEF StreamInv, SentInv
<1> QED
  BY <1>9, <1>11, <1>12 DEF StreamInv

LEMMA FailKeeps == ASSUME TypeOK, StreamInv, FetchFails PROVE StreamInv'
<1>1. size' = size /\ format' = format /\ sunk' = sunk /\ offset' = offset /\ closed' = closed
      /\ counted' = counted /\ progress' = progress
  BY DEF FetchFails
<1>2. pages = "more" /\ pages' = "error" /\ outcome' = AfterError /\ input' = <<>> /\ output' = <<>>
  BY DEF FetchFails, PagesAfterError
<1>3. ~closed /\ outcome # "complete"
  BY <1>2 DEF StreamInv, OutputInv, SentInv
<1>4. outcome' # "complete"
  BY <1>2, <1>3 DEF AfterError
<1>5. InputInv' /\ OutputInv'
  BY <1>1, <1>2, <1>3 DEF InputInv, OutputInv
<1>6. Fits(sunk, 0)' /\ Fits(output, Len(sunk))'
  BY <1>1, <1>2, SameDocument DEF StreamInv, SentInv, Fits
<1>7. Len(output') = 0 /\ Len(output) \in Nat /\ Len(sunk) \in Nat
  <2>1. sunk \in Seq(Piece) /\ output \in Seq(Piece)
    BY DEF TypeOK
  <2> QED
    BY <1>2, <2>1
<1>8. /\ Len(sunk) + Len(output) <= Len(Document(size)) /\ Len(sunk) + Len(output) <= Reach
      /\ progress <= counted /\ counted <= Len(sunk)
  BY DEF StreamInv, SentInv
<1>9. Len(Document(size)) \in Nat /\ Reach \in Int
  <2>1. Document(size) \in Seq(Piece)
    BY DocumentIsSeq
  <2>2. Len(Document(size)) \in Nat
    BY <2>1
  <2>3. offset \in Nat /\ format \in {"ndjson", "json", "csv"}
    <3>1. offset \in Nat
      BY PageLengthBounds
    <3>2. format \in {"ndjson", "json", "csv"}
      BY ChoicesAssumption DEF TypeOK
    <3> QED
      BY <3>1, <3>2
  <2>4. Reach \in Int
    BY <2>3 DEF Reach
  <2> QED
    BY <2>2, <2>4
<1>10. Len(sunk') + Len(output') <= Len(Document(size)') /\ Len(sunk') + Len(output') <= Reach'
  <2>1. Document(size)' = Document(size) /\ Reach' = Reach
    BY <1>1, SameDocument
  <2> QED
    BY <1>1, <1>7, <1>8, <1>9, <2>1
<1> QED
  BY <1>1, <1>4, <1>5, <1>6, <1>8, <1>10 DEF StreamInv, SentInv

LEMMA FormatKeeps == ASSUME TypeOK, StreamInv, FormatRow PROVE StreamInv'
<1>1. size' = size /\ format' = format /\ sunk' = sunk /\ offset' = offset /\ closed' = closed
      /\ counted' = counted /\ progress' = progress /\ outcome' = outcome /\ pages' = pages
  BY DEF FormatRow
<1>2. /\ input # <<>> /\ input' = Tail(input) /\ written' = TRUE
      /\ output' = (output \o Lead) \o <<Row(input[1])>>
  BY DEF FormatRow
<1>3. size \in Nat /\ offset \in 0..size
  BY PageLengthBounds
<1>4. input \in Seq(1..size) /\ output \in Seq(Piece) /\ sunk \in Seq(Piece)
  BY DEF TypeOK
<1>5. Len(input) \in Nat \ {0} /\ Len(sunk) \in Nat /\ Len(output) \in Nat
  BY <1>2, <1>4
<1>6. pages # "error" /\ ~closed
  BY <1>2 DEF StreamInv, OutputInv
<1>7. /\ Len(input) <= offset /\ (written <=> Formatted > 0) /\ (pages = "end" => offset = size)
      /\ \A n \in 1..Len(input) : input[n] = Formatted + n
  BY <1>6 DEF StreamInv, InputInv
<1>8. Formatted \in Nat /\ Formatted < offset /\ Formatted < size
  BY <1>3, <1>5, <1>7 DEF Formatted
<1>9. Len(input') = Len(input) - 1 /\ \A n \in 1..Len(input') : input'[n] = input[n + 1]
  BY <1>2, <1>4
<1>10. Formatted' = Formatted + 1
  <2>1. Formatted = offset - Len(input) /\ Formatted' = offset' - Len(input')
    BY DEF Formatted
  <2> QED
    BY <1>1, <1>3, <1>5, <1>9, <2>1
<1>11. InputInv'
  <2>1. Len(input') <= offset' /\ (pages' = "end" => offset' = size') /\ (written' <=> Formatted' > 0)
    BY <1>1, <1>2, <1>3, <1>5, <1>7, <1>8, <1>9, <1>10
  <2>2. ASSUME NEW n \in 1..Len(input') PROVE input'[n] = Formatted' + n
    <3>1. n + 1 \in 1..Len(input)
      BY <1>5, <1>9
    <3> QED
      BY <1>7, <1>8, <1>9, <1>10, <3>1
  <2> QED
    BY <2>1, <2>2 DEF InputInv
<1>12. input[1] = Formatted + 1
  BY <1>5, <1>7
<1>13. /\ Fits(Lead, Emitted(Formatted)) /\ Emitted(Formatted) \in Nat
       /\ Emitted(Formatted + 1) = Emitted(Formatted) + Len(Lead) + 1
       /\ Document(size)[Emitted(Formatted) + Len(Lead) + 1] = Row(Formatted + 1)
  BY <1>7, <1>8, LeadFits
<1>14. Len(sunk) + Len(output) = Emitted(Formatted)
  BY <1>6 DEF StreamInv, OutputInv
<1>15. Fits(output, Len(sunk)) /\ Fits(sunk, 0)
  BY DEF StreamInv, SentInv
<1>16. Lead \in Seq(Piece) /\ Len(Lead) \in Nat
  <2>1. Lead \in Seq(Piece)
    BY LeadType
  <2> QED
    BY <2>1
<1>17. /\ Fits(output \o Lead, Len(sunk)) /\ output \o Lead \in Seq(Piece)
       /\ Len(output \o Lead) = Len(output) + Len(Lead)
  BY <1>4, <1>5, <1>13, <1>14, <1>15, <1>16, FitsJoined
<1>18. /\ Fits(<<Row(input[1])>>, Len(sunk) + Len(output \o Lead))
       /\ <<Row(input[1])>> \in Seq(Piece) /\ Len(<<Row(input[1])>>) = 1
  <2>1. Row(input[1]) \in Piece
    BY <1>8, <1>12 DEF Row, Piece
  <2>2. Len(sunk) + Len(output \o Lead) = Emitted(Formatted) + Len(Lead)
    BY <1>5, <1>14, <1>16, <1>17
  <2>3. Document(size)[(Emitted(Formatted) + Len(Lead)) + 1] = Row(input[1])
    BY <1>12, <1>13
  <2> QED
    BY <1>13, <1>16, <2>1, <2>2, <2>3, FitsOne
<1>19. Fits(output', Len(sunk)) /\ Len(output') = Len(output) + Len(Lead) + 1
  BY <1>2, <1>5, <1>17, <1>18, FitsJoined
<1>20. Document(size)' = Document(size) /\ Reach' = Reach /\ Emitted(Formatted)' = Emitted(Formatted + 1)
  BY <1>1, <1>10, SameDocument DEF Emitted
<1>21. Len(sunk) + Len(output') = Emitted(Formatted + 1)
  BY <1>5, <1>13, <1>14, <1>16, <1>19
<1>22. OutputInv'
  BY <1>1, <1>6, <1>20, <1>21 DEF OutputInv
<1>23. Emitted(Formatted + 1) <= Len(Document(size)) /\ Emitted(Formatted + 1) <= Reach
  BY <1>3, <1>8, EmittedBounds
<1>24. Fits(sunk, 0)' /\ Fits(output, Len(sunk))'
  BY <1>1, <1>15, <1>19, <1>20 DEF Fits
<1>25. outcome # "complete"
  BY <1>6 DEF StreamInv, SentInv
<1>26. SentInv'
  BY <1>1, <1>20, <1>21, <1>23, <1>24, <1>25 DEF StreamInv, SentInv
<1> QED
  BY <1>11, <1>22, <1>26 DEF StreamInv

LEMMA EndKeeps == ASSUME TypeOK, StreamInv, FormatEnds PROVE StreamInv'
<1>1. size' = size /\ format' = format /\ sunk' = sunk /\ offset' = offset /\ input' = input
      /\ counted' = counted /\ progress' = progress /\ outcome' = outcome /\ pages' = pages
      /\ written' = written
  BY DEF FormatEnds
<1>2. /\ pages = "end" /\ input = <<>> /\ ~closed /\ closed' = TRUE
      /\ output' = IF format = "json" THEN Append(output, Mark("close")) ELSE output
  BY DEF FormatEnds
<1>3. size \in Nat /\ offset = size /\ written = written'
  BY <1>1, <1>2, PageLengthBounds DEF StreamInv, InputInv
<1>4. output \in Seq(Piece) /\ sunk \in Seq(Piece) /\ Mark("close") \in Piece
  BY DEF TypeOK, Mark, Piece
<1>5. Len(sunk) \in Nat /\ Len(output) \in Nat
  BY <1>4
<1>6. Formatted = size
  <2>1. Len(input) = 0
    BY <1>2
  <2>2. Formatted = offset - Len(input)
    BY DEF Formatted
  <2> QED
    BY <1>3, <2>1, <2>2
<1>7. Len(sunk) + Len(output) = Emitted(size) /\ Fits(output, Len(sunk)) /\ Fits(sunk, 0)
  BY <1>2, <1>6 DEF StreamInv, OutputInv, SentInv
<1>8. format \in {"ndjson", "json", "csv"}
  BY ChoicesAssumption DEF TypeOK
<1>9. /\ Len(sunk) + Len(output') = Len(Document(size)) /\ Fits(output', Len(sunk))
      /\ Len(Document(size)) <= Reach
  <2>1. CASE format = "ndjson"
    <3>1. Emitted(size) = size /\ Len(Document(size)) = size /\ Reach = size
      BY <1>3, <2>1, DocumentLength DEF Emitted, Reach
    <3> QED
      BY <1>2, <1>3, <1>7, <2>1, <3>1
  <2>2. CASE format = "csv"
    <3>1. Emitted(size) = IF size = 0 THEN 0 ELSE size + 1
      BY <2>2 DEF Emitted
    <3>2. Len(Document(size)) = (IF size = 0 THEN 0 ELSE size + 1) /\ Reach = size + 1
      BY <1>3, <2>2, DocumentLength DEF Reach
    <3> QED
      BY <1>2, <1>3, <1>7, <2>2, <3>1, <3>2
  <2>3. CASE format = "json"
    <3>1. Emitted(size) = IF size = 0 THEN 1 ELSE 2 * size
      BY <2>3 DEF Emitted
    <3>2. Len(Document(size)) = IF size = 0 THEN 2 ELSE 2 * size + 1
      BY <2>3, DocumentLength
    <3>3. Reach = 2 * size + 1 + (IF size = 0 THEN 1 ELSE 0)
      BY <1>3, <2>3 DEF Reach
    <3>4. output' = output \o <<Mark("close")>>
      BY <1>2, <1>4, <2>3
    <3>5. Document(size)[Emitted(size) + 1] = Mark("close")
      <4>1. Document(size) = [k \in 1..(IF size = 0 THEN 2 ELSE 2 * size + 1) |->
              IF k = 1 THEN Mark("open")
              ELSE IF k = 2 * size + 1 \/ size = 0 THEN Mark("close")
              ELSE IF k % 2 = 0 THEN Row(k \div 2) ELSE Mark("comma")]
        BY <2>3 DEF Document
      <4>2. CASE size = 0
        BY <3>1, <4>1, <4>2
      <4>3. CASE size # 0
        BY <1>3, <3>1, <4>1, <4>3
      <4> QED
        BY <4>2, <4>3
    <3>6. Fits(<<Mark("close")>>, Len(sunk) + Len(output)) /\ <<Mark("close")>> \in Seq(Piece)
          /\ Len(<<Mark("close")>>) = 1
      BY <1>4, <1>5, <1>7, <3>5, FitsOne
    <3>7. Fits(output', Len(sunk)) /\ Len(output') = Len(output) + 1
      BY <1>4, <1>5, <1>7, <3>4, <3>6, FitsJoined
    <3> QED
      BY <1>3, <1>5, <1>7, <3>1, <3>2, <3>3, <3>7
  <2> QED
    BY <1>8, <2>1, <2>2, <2>3
<1>10. Document(size)' = Document(size) /\ Reach' = Reach /\ Formatted' = Formatted
  BY <1>1, SameDocument DEF Formatted
<1>11. InputInv'
  BY <1>1, <1>10 DEF StreamInv, InputInv
<1>12. OutputInv'
  BY <1>1, <1>2, <1>9, <1>10 DEF OutputInv
<1>13. outcome # "complete"
  BY <1>2 DEF StreamInv, SentInv
<1>14. Fits(sunk, 0)' /\ Fits(output, Len(sunk))'
  BY <1>1, <1>7, <1>9, <1>10 DEF Fits
<1>15. Len(sunk') + Len(output') <= Len(Document(size)')
  <2>1. Len(Document(size)) \in Nat
    BY <1>3, <1>8, DocumentLength
  <2> QED
    BY <1>1, <1>9, <1>10, <2>1
<1>16. SentInv'
  BY <1>1, <1>9, <1>10, <1>13, <1>14, <1>15 DEF StreamInv, SentInv
<1> QED
  BY <1>11, <1>12, <1>16 DEF StreamInv

LEMMA TakeKeeps == ASSUME TypeOK, StreamInv, TakePiece PROVE StreamInv'
<1>1. size' = size /\ format' = format /\ offset' = offset /\ input' = input
      /\ progress' = progress /\ outcome' = outcome /\ pages' = pages
      /\ written' = written /\ closed' = closed
  BY DEF TakePiece
<1>2. /\ output # <<>> /\ outcome = "open" /\ sunk' = Append(sunk, output[1]) /\ output' = Tail(output)
      /\ counted' = counted \/ counted' = counted + 1
  BY DEF TakePiece
<1>3. output \in Seq(Piece) /\ sunk \in Seq(Piece) /\ counted \in Nat /\ progress \in Nat
  BY DEF TypeOK
<1>4. Len(output) \in Nat \ {0} /\ Len(sunk) \in Nat /\ output[1] \in Piece
  BY <1>2, <1>3
<1>5. /\ Len(output') = Len(output) - 1 /\ (\A n \in 1..Len(output') : output'[n] = output[n + 1])
      /\ sunk' = sunk \o <<output[1]>>
  BY <1>2, <1>3, <1>4
<1>6. Fits(output, Len(sunk)) /\ Fits(sunk, 0)
  BY DEF StreamInv, SentInv
<1>7. Document(size)[Len(sunk) + 1] = output[1]
  BY <1>4, <1>6 DEF Fits
<1>8. Fits(<<output[1]>>, Len(sunk)) /\ <<output[1]>> \in Seq(Piece) /\ Len(<<output[1]>>) = 1
  BY <1>4, <1>7, FitsOne
<1>9. Fits(sunk', 0) /\ Len(sunk') = Len(sunk) + 1
  <2>1. Fits(<<output[1]>>, 0 + Len(sunk))
    BY <1>4, <1>8
  <2> QED
    BY <1>3, <1>5, <1>6, <1>8, <2>1, FitsJoined
<1>10. ASSUME NEW n \in 1..Len(output') PROVE output'[n] = Document(size)[Len(sunk') + n]
  <2>1. n + 1 \in 1..Len(output)
    BY <1>4, <1>5
  <2>2. output'[n] = Document(size)[Len(sunk) + (n + 1)]
    BY <1>5, <1>6, <2>1 DEF Fits
  <2>3. Len(sunk) + (n + 1) = Len(sunk') + n
    BY <1>4, <1>9
  <2> QED
    BY <2>2, <2>3
<1>11. Document(size)' = Document(size) /\ Reach' = Reach /\ Formatted' = Formatted
       /\ Emitted(Formatted)' = Emitted(Formatted)
  BY <1>1, SameDocument DEF Formatted, Emitted
<1>12. Fits(sunk, 0)' /\ Fits(output, Len(sunk))'
  BY <1>9, <1>10, <1>11 DEF Fits
<1>13. Len(sunk') + Len(output') = Len(sunk) + Len(output)
  BY <1>4, <1>5, <1>9
<1>14. InputInv'
  BY <1>1, <1>11 DEF StreamInv, InputInv
<1>15. OutputInv'
  BY <1>1, <1>2, <1>11, <1>13 DEF StreamInv, OutputInv
<1>16. progress' <= counted' /\ counted' <= Len(sunk')
  BY <1>1, <1>2, <1>3, <1>4, <1>9 DEF StreamInv, SentInv
<1>17. SentInv'
  BY <1>1, <1>2, <1>11, <1>12, <1>13, <1>16 DEF StreamInv, SentInv
<1> QED
  BY <1>14, <1>15, <1>17 DEF StreamInv

LEMMA RestKeeps ==
  ASSUME TypeOK, StreamInv,
         SinkEnds \/ ReportProgress \/ ProgressFails \/ SinkFails \/ UNCHANGED vars
  PROVE  StreamInv'
<1>1. size' = size /\ format' = format /\ offset' = offset /\ input' = input /\ output' = output
      /\ counted' = counted /\ pages' = pages /\ written' = written /\ closed' = closed /\ sunk' = sunk
  BY DEF SinkEnds, ReportProgress, ProgressFails, SinkFails, vars
<1>2. progress' \in {progress, counted}
  BY DEF SinkEnds, ReportProgress, ProgressFails, SinkFails, vars
<1>3. outcome' = "complete" => closed /\ output = <<>>
  BY DEF SinkEnds, ReportProgress, ProgressFails, SinkFails, vars, StreamInv, SentInv
<1>4. Document(size)' = Document(size) /\ Reach' = Reach /\ Formatted' = Formatted
      /\ Emitted(Formatted)' = Emitted(Formatted)
  BY <1>1, SameDocument DEF Formatted, Emitted
<1>5. InputInv' /\ OutputInv'
  BY <1>1, <1>4 DEF StreamInv, InputInv, OutputInv
<1>6. Fits(sunk, 0)' /\ Fits(output, Len(sunk))'
  BY <1>1, <1>4 DEF StreamInv, SentInv, Fits
<1>7. progress' <= counted'
  <2>1. progress <= counted /\ counted \in Nat
    BY DEF StreamInv, SentInv, TypeOK
  <2> QED
    BY <1>1, <1>2, <2>1
<1>8. SentInv'
  BY <1>1, <1>3, <1>4, <1>6, <1>7 DEF StreamInv, SentInv
<1> QED
  BY <1>5, <1>8 DEF StreamInv

LEMMA StreamHolds == Spec => [](TypeOK /\ StreamInv)
<1>1. Init => TypeOK /\ StreamInv
  BY InitTypes, StreamInit
<1>2. TypeOK /\ StreamInv /\ [Next]_vars => TypeOK' /\ StreamInv'
  <2> SUFFICES ASSUME TypeOK, StreamInv, [Next]_vars PROVE TypeOK' /\ StreamInv'
    OBVIOUS
  <2>1. TypeOK'
    BY TypesStep
  <2>2. StreamInv'
    BY FetchKeeps, FailKeeps, FormatKeeps, EndKeeps, TakeKeeps, RestKeeps DEF Next, StreamStep
  <2> QED
    BY <2>1, <2>2
<1> QED
  BY <1>1, <1>2, PTL DEF Spec

\* What the storage or a client has got is a beginning of the document.
THEOREM PrefixTheorem == Spec => []SunkIsPrefix
<1>1. TypeOK /\ StreamInv => SunkIsPrefix
  <2> SUFFICES ASSUME TypeOK, StreamInv PROVE SunkIsPrefix
    OBVIOUS
  <2>1. sunk \in Seq(Piece) /\ output \in Seq(Piece) /\ Document(size) \in Seq(Piece)
    BY DocumentIsSeq DEF TypeOK
  <2>2. /\ Len(sunk) \in Nat /\ Len(output) \in Nat /\ Len(Document(size)) \in Nat
        /\ DOMAIN sunk = 1..Len(sunk)
    BY <2>1
  <2>3. Len(sunk) <= Len(Document(size))
    BY <2>2 DEF StreamInv, SentInv
  <2>4. ASSUME NEW k \in DOMAIN sunk PROVE sunk[k] = Document(size)[k]
    <3>1. k \in 1..Len(sunk) /\ 0 + k = k
      BY <2>2
    <3> QED
      BY <3>1 DEF StreamInv, SentInv, Fits
  <2> QED
    BY <2>3, <2>4 DEF SunkIsPrefix
<1> QED
  BY <1>1, StreamHolds, PTL

\* What is reported as complete is the whole document.
THEOREM WholeTheorem == Spec => []CompleteIsWhole
<1>1. TypeOK /\ StreamInv => CompleteIsWhole
  <2> SUFFICES ASSUME TypeOK, StreamInv, outcome = "complete" PROVE sunk = Document(size)
    BY DEF CompleteIsWhole
  <2>1. sunk \in Seq(Piece) /\ Document(size) \in Seq(Piece)
    BY DocumentIsSeq DEF TypeOK
  <2>2. closed /\ output = <<>>
    BY DEF StreamInv, SentInv
  <2>3. Len(output) = 0 /\ Len(sunk) \in Nat
    BY <2>1, <2>2
  <2>4. Len(sunk) + Len(output) = Len(Document(size))
    BY <2>2 DEF StreamInv, OutputInv
  <2>5. Len(sunk) = Len(Document(size))
    BY <2>3, <2>4
  <2>6. ASSUME NEW k \in 1..Len(sunk) PROVE sunk[k] = Document(size)[k]
    <3>1. 0 + k = k
      BY <2>3
    <3> QED
      BY <3>1 DEF StreamInv, SentInv, Fits
  <2> QED
    BY <2>1, <2>5, <2>6, SeqEqual
<1> QED
  BY <1>1, StreamHolds, PTL

\* How wrong exportedRows of a running job can be: MetricsTransform counts pieces, where the DTO
\* speaks of rows, so that a job of n rows may show up to n + 1 for CSV and 2n + 1 for JSON.
THEOREM ProgressTheorem == Spec => [](progress <= Reach)
<1>1. TypeOK /\ StreamInv => progress <= Reach
  <2> SUFFICES ASSUME TypeOK, StreamInv PROVE progress <= Reach
    OBVIOUS
  <2>1. sunk \in Seq(Piece) /\ output \in Seq(Piece) /\ counted \in Nat /\ progress \in Nat
    BY DEF TypeOK
  <2>2. Len(sunk) \in Nat /\ Len(output) \in Nat
    BY <2>1
  <2>3. offset \in Nat
    BY PageLengthBounds
  <2>4. format \in {"ndjson", "json", "csv"}
    BY ChoicesAssumption DEF TypeOK
  <2>5. Reach \in Int
    BY <2>3, <2>4 DEF Reach
  <2>6. progress <= Reach
    BY <2>1, <2>2, <2>5 DEF StreamInv, SentInv
  <2> QED
    BY <2>6
<1> QED
  BY <1>1, StreamHolds, PTL

-----------------------------------------------------------------------------
(* No export stands still, and none goes on for ever *)

\* While an export is open, there is a page to read, a row to format, an end to write, a piece to
\* take or an end to report: back pressure never makes the two sides of a stream wait for each
\* other, whatever its highWaterMark and the page size (createExportStream, streamRecords).
SomethingGoesOn ==
  outcome = "open" =>
    \/ pages = "more"
    \/ input # <<>> /\ Taking
    \/ pages = "end" /\ input = <<>> /\ ~closed
    \/ output # <<>>
    \/ closed /\ output = <<>>

\* An open export has met no error: whoever reads it is told at once.
OpenInv == outcome = "open" => pages # "error"

LEMMA OpenStep == ASSUME TypeOK, OpenInv, [Next]_vars PROVE OpenInv'
<1>1. CASE FetchFails
  <2>1. outcome' = AfterError
    BY <1>1 DEF FetchFails, PagesAfterError
  <2>2. AfterError # "open"
    BY DEF AfterError
  <2> QED
    BY <2>1, <2>2 DEF OpenInv
<1>2. CASE UNCHANGED vars
  BY <1>2 DEF vars, OpenInv
<1> QED
  BY <1>1, <1>2 DEF OpenInv, Next, StreamStep, FetchPage, FormatRow, FormatEnds, TakePiece, SinkEnds,
     ReportProgress, ProgressFails, SinkFails

\* Neither side of a stream ever waits for the other without end.
THEOREM GoesOnTheorem == Spec => []SomethingGoesOn
<1>1. Init => OpenInv
  BY DEF Init, OpenInv
<1>2. TypeOK /\ OpenInv => SomethingGoesOn
  <2> SUFFICES ASSUME TypeOK, outcome = "open", pages = "end", input # <<>>, ~Taking
               PROVE  output # <<>>
    BY DEF OpenInv, SomethingGoesOn, TypeOK
  <2>1. Len(output) >= Hwm /\ Hwm \in Nat \ {0} /\ Len(<<>>) = 0
    BY SizesAssumption DEF Taking, TypeOK
  <2> QED
    BY <2>1
<1> QED
  BY <1>1, <1>2, OpenStep, TypeCorrect, PTL DEF Spec

\* Steps that are left: to read a row, to format it and to take its two pieces, and to end.
ToSend == 3 * Len(input) + Len(output)
ToRead == IF pages = "more" THEN 1 ELSE 0
ToClose == IF closed THEN 0 ELSE 2
ToEnd == IF outcome = "open" THEN 2 ELSE IF outcome = "left open" THEN 1 ELSE 0
Left == 4 * (size - offset) + ToSend + ToRead + ToClose + ToEnd

LeftIsBounded == Left \in 0..(4 * size + 6)

\* Every step but a report of progress uses up a row, a piece or the export itself, with faults or
\* without: no row is read, formatted or sent again, and nothing goes round in circles.
EveryStepCounts == [][IF ReportProgress THEN Left' = Left ELSE Left' < Left]_vars

LEMMA LeftTypes ==
  ASSUME TypeOK
  PROVE  /\ Len(input) \in Nat /\ Len(output) \in Nat /\ size \in Nat /\ size - offset \in Nat
         /\ offset \in 0..size
         /\ ToSend \in Nat /\ ToRead \in 0..1 /\ ToClose \in 0..2 /\ ToEnd \in 0..2 /\ Left \in Nat
<1>1. input \in Seq(1..size) /\ output \in Seq(Piece) /\ size \in Sizes /\ offset \in 0..size
  BY DEF TypeOK
<1>2. Len(input) \in Nat /\ Len(output) \in Nat /\ size \in Nat /\ size - offset \in Nat
  BY <1>1, SizesAssumption
<1>3. ToSend \in Nat /\ ToRead \in 0..1 /\ ToClose \in 0..2 /\ ToEnd \in 0..2
  BY <1>2 DEF ToSend, ToRead, ToClose, ToEnd
<1> QED
  BY <1>1, <1>2, <1>3 DEF Left

LEMMA LeadLength == Len(Lead) \in 0..1
<1>1. ASSUME NEW p PROVE Len(<<p>>) = 1 /\ Len(<<>>) = 0
  OBVIOUS
<1> QED
  BY <1>1, LeadType

\* An export that is closed has fewer steps left than one that is open.
LEMMA EndValues ==
  /\ outcome = "open" => ToEnd = 2
  /\ outcome = "left open" => ToEnd = 1
  /\ outcome # "open" /\ outcome # "left open" => ToEnd = 0
  /\ outcome' = "open" => ToEnd' = 2
  /\ outcome' = "left open" => ToEnd' = 1
  /\ outcome' # "open" /\ outcome' # "left open" => ToEnd' = 0
  /\ ToEnd \in 0..2 /\ ToEnd' \in 0..2
<1>1. ToEnd = 0 \/ ToEnd = 1 \/ ToEnd = 2
  BY DEF ToEnd
<1>2. ToEnd' = 0 \/ ToEnd' = 1 \/ ToEnd' = 2
  BY DEF ToEnd
<1>3. ToEnd \in 0..2 /\ ToEnd' \in 0..2
  BY <1>1, <1>2
<1> QED
  BY <1>3 DEF ToEnd

LEMMA LeftSum ==
  ASSUME NEW rows \in Nat, 4 * (size - offset) = rows, NEW rows1 \in Nat, 4 * (size' - offset') = rows1,
         NEW a \in Nat, ToSend = a, NEW a1 \in Nat, ToSend' = a1,
         NEW b \in Nat, ToRead = b, NEW b1 \in Nat, ToRead' = b1,
         NEW c \in Nat, ToClose = c, NEW c1 \in Nat, ToClose' = c1,
         NEW d \in Nat, ToEnd = d, NEW d1 \in Nat, ToEnd' = d1,
         rows1 + a1 + b1 + c1 + d1 < rows + a + b + c + d
  PROVE  Left' < Left
BY DEF Left

LEMMA LeftShrinks ==
  ASSUME TypeOK, StreamStep \/ ProgressFails \/ SinkFails
  PROVE  Left' < Left
<1>0. input \in Seq(1..size) /\ output \in Seq(Piece)
  BY DEF TypeOK
<1>1. /\ Len(input) \in Nat /\ Len(output) \in Nat /\ size \in Nat /\ size - offset \in Nat
      /\ offset \in 0..size /\ PageSize \in Nat \ {0}
      /\ ToSend \in Nat /\ ToRead \in 0..1 /\ ToClose \in 0..2 /\ ToEnd \in 0..2
  BY LeftTypes, SizesAssumption
<1>2. CASE FetchPage
  <2> DEFINE page == [n \in 1..PageLength |-> offset + n]
  <2>1. PageLength \in 0..PageSize /\ PageLength <= size - offset
    BY PageLengthBounds
  <2>2. page \in Seq(Int) /\ Len(page) = PageLength
    BY <1>1, <2>1
  <2>3. Len(input') = Len(input) + PageLength
    <3>1. input \in Seq(Int) /\ input' = input \o page
      BY <1>0, <1>1, <1>2 DEF FetchPage
    <3> HIDE DEF page
    <3> QED
      BY <2>2, <3>1
  <2>4. /\ offset' = offset + PageLength /\ pages = "more"
        /\ pages' = IF PageLength = PageSize THEN "more" ELSE "end"
        /\ size' = size /\ output' = output /\ closed' = closed /\ outcome' = outcome
    BY <1>2 DEF FetchPage
  <2>5. ToSend' = ToSend + 3 * PageLength /\ ToClose' = ToClose /\ ToEnd' = ToEnd
    BY <1>1, <2>1, <2>3, <2>4 DEF ToSend, ToClose, ToEnd
  <2>6. ToRead = 1 /\ ToRead' = IF PageLength = PageSize THEN 1 ELSE 0
    BY <2>4 DEF ToRead
  <2>7. CASE PageLength = PageSize
    BY <1>1, <2>1, <2>4, <2>5, <2>6, <2>7 DEF Left
  <2>8. CASE PageLength # PageSize
    BY <1>1, <2>1, <2>4, <2>5, <2>6, <2>8 DEF Left
  <2> QED
    BY <2>7, <2>8
<1>3. CASE FetchFails
  <2>1. /\ pages = "more" /\ pages' = "error" /\ closed' = closed
        /\ size' = size /\ offset' = offset
    BY <1>3 DEF FetchFails, PagesAfterError
  <2>2. Len(input') = 0 /\ Len(output') = 0 /\ outcome' = AfterError
    BY <1>3 DEF FetchFails, PagesAfterError
  <2>3. outcome = "open" \/ AfterError = outcome \/ AfterError = "dead"
    BY DEF AfterError
  <2>4. AfterError # "open" \/ outcome = "open"
    BY DEF AfterError
  <2>5. ToSend' = 0 /\ ToClose' = ToClose /\ ToRead = 1 /\ ToRead' = 0
    BY <2>1, <2>2 DEF ToSend, ToClose, ToRead
  <2>6. ToEnd' \in 0..2 /\ ToEnd' <= ToEnd
    <3>1. CASE outcome = "open"
      <4>1. ToEnd = 2 /\ ToEnd' \in 0..2
        BY <3>1, EndValues
      <4> QED
        BY <4>1
    <3>2. CASE outcome # "open"
      <4>1. outcome' = outcome \/ outcome' = "dead"
        BY <2>2, <2>3, <3>2
      <4>2. ToEnd' = ToEnd \/ ToEnd' = 0
        <5>1. outcome' = outcome => ToEnd' = ToEnd
          BY DEF ToEnd
        <5> QED
          BY <4>1, <5>1, EndValues
      <4> QED
        BY <1>1, <4>2
    <3> QED
      BY <3>1, <3>2
  <2>7. 4 * (size - offset) \in Nat /\ 4 * (size' - offset') = 4 * (size - offset)
    BY <1>1, <2>1
  <2> QED
    BY <1>1, <2>5, <2>6, <2>7, LeftSum
<1>4. CASE FormatRow
  <2>1. Len(input') = Len(input) - 1
    BY <1>0, <1>1, <1>4 DEF FormatRow
  <2>2. Len(output') = Len(output) + Len(Lead) + 1
    <3>1. input[1] \in Nat
      BY <1>0, <1>1, <1>4 DEF FormatRow
    <3>2. output \o Lead \in Seq(Piece) /\ Len(output \o Lead) = Len(output) + Len(Lead)
      BY <1>0, <1>1, LeadType
    <3>3. Row(input[1]) \in Piece
      BY <3>1 DEF Row, Piece
    <3>4. output' = (output \o Lead) \o <<Row(input[1])>>
      BY <1>4 DEF FormatRow
    <3> QED
      BY <3>2, <3>3, <3>4
  <2>3. /\ size' = size /\ offset' = offset /\ pages' = pages /\ closed' = closed /\ outcome' = outcome
    BY <1>4 DEF FormatRow
  <2>4. ToSend' = ToSend - 2 + Len(Lead)
    BY <1>1, <2>1, <2>2, LeadLength DEF ToSend
  <2>5. ToRead' = ToRead /\ ToClose' = ToClose /\ ToEnd' = ToEnd
    BY <2>3 DEF ToRead, ToClose, ToEnd
  <2>6. 4 * (size - offset) \in Nat /\ 4 * (size' - offset') = 4 * (size - offset)
    BY <1>1, <2>3
  <2>7. ToSend' \in Nat /\ ToSend' < ToSend
    <3>1. Len(output') \in Nat /\ Len(input') \in Nat
      <4>1. Len(input) # 0
        BY <1>0, <1>4 DEF FormatRow
      <4> QED
        BY <1>1, <2>1, <2>2, <4>1, LeadLength
    <3>2. ToSend' \in Nat
      BY <3>1 DEF ToSend
    <3>3. \A n \in 0..1 : ToSend - 2 + n < ToSend
      BY <1>1
    <3> QED
      BY <2>4, <3>2, <3>3, LeadLength
  <2> QED
    BY <1>1, <2>5, <2>6, <2>7, LeftSum
<1>5. CASE FormatEnds
  <2>1. Len(output') <= Len(output) + 1 /\ Len(output') \in Nat
    BY <1>0, <1>1, <1>5 DEF FormatEnds
  <2>2. /\ size' = size /\ offset' = offset /\ pages' = pages /\ ~closed /\ closed' /\ outcome' = outcome
        /\ input' = input
    BY <1>5 DEF FormatEnds
  <2>3. ToSend' <= ToSend + 1 /\ ToSend' \in Nat
    BY <1>1, <2>1, <2>2 DEF ToSend
  <2>4. ToRead' = ToRead /\ ToClose = 2 /\ ToClose' = 0 /\ ToEnd' = ToEnd
    BY <2>2 DEF ToRead, ToClose, ToEnd
  <2>5. 4 * (size - offset) \in Nat /\ 4 * (size' - offset') = 4 * (size - offset)
    BY <1>1, <2>2
  <2> QED
    BY <1>1, <2>3, <2>4, <2>5, LeftSum
<1>6. CASE TakePiece
  <2>1. Len(output') = Len(output) - 1
    BY <1>0, <1>1, <1>6 DEF TakePiece
  <2>2. /\ size' = size /\ offset' = offset /\ pages' = pages /\ closed' = closed /\ outcome' = outcome
        /\ input' = input
    BY <1>6 DEF TakePiece
  <2>3. ToSend' = ToSend - 1
    BY <1>1, <2>1, <2>2 DEF ToSend
  <2>4. ToRead' = ToRead /\ ToClose' = ToClose /\ ToEnd' = ToEnd
    BY <2>2 DEF ToRead, ToClose, ToEnd
  <2> QED
    BY <1>1, <2>2, <2>3, <2>4 DEF Left
<1>7. CASE SinkEnds \/ ProgressFails \/ SinkFails
  <2>1. /\ size' = size /\ offset' = offset /\ pages' = pages /\ closed' = closed
        /\ input' = input /\ output' = output
    BY <1>7 DEF SinkEnds, ProgressFails, SinkFails
  <2>2. ToSend' = ToSend /\ ToRead' = ToRead /\ ToClose' = ToClose
    BY <2>1 DEF ToSend, ToRead, ToClose
  <2>3. ToEnd \in 1..2 /\ ToEnd' = 0
    <3>1. (outcome = "open" \/ outcome = "left open") /\ outcome' # "open" /\ outcome' # "left open"
      BY <1>7 DEF SinkEnds, ProgressFails, SinkFails
    <3>2. (ToEnd = 1 \/ ToEnd = 2) /\ ToEnd' = 0
      BY <3>1, EndValues
    <3> QED
      BY <3>2
  <2>4. 4 * (size - offset) \in Nat /\ 4 * (size' - offset') = 4 * (size - offset)
    BY <1>1, <2>1
  <2> QED
    BY <1>1, <2>2, <2>3, <2>4, LeftSum
<1> QED
  BY <1>2, <1>3, <1>4, <1>5, <1>6, <1>7 DEF StreamStep

\* An export of n rows takes 4n + 6 steps at most, reports of its progress apart: with
\* GoesOnTheorem, it ends if only something that can go on is always let go on.
THEOREM StepsTheorem == Spec => []LeftIsBounded /\ EveryStepCounts
<1>1. Init => LeftIsBounded
  <2> SUFFICES ASSUME Init PROVE LeftIsBounded
    OBVIOUS
  <2>1. size \in Nat /\ offset = 0 /\ Len(input) = 0 /\ Len(output) \in 0..1
    BY SizesAssumption DEF Init
  <2> QED
    BY <2>1 DEF Init, Left, ToSend, ToRead, ToClose, ToEnd, LeftIsBounded
<1>2. TypeOK /\ [Next]_vars => [IF ReportProgress THEN Left' = Left ELSE Left' < Left]_vars
  <2>1. ASSUME ReportProgress PROVE Left' = Left
    BY <2>1 DEF ReportProgress, Left, ToSend, ToRead, ToClose, ToEnd
  <2>2. ASSUME TypeOK, Next, ~ReportProgress PROVE Left' < Left
    BY <2>2, LeftShrinks DEF Next
  <2> QED
    BY <2>1, <2>2
<1>3. TypeOK => Left \in Nat
  BY LeftTypes
<1>4. TypeOK /\ Left \in Nat /\ (Left \in Nat)' /\ LeftIsBounded /\ [Next]_vars => LeftIsBounded'
  <2> SUFFICES ASSUME TypeOK, Left \in Nat, Left' \in Nat, LeftIsBounded, [Next]_vars
               PROVE  LeftIsBounded'
    OBVIOUS
  <2>1. size' = size /\ size \in Nat
    BY LeftTypes
       DEF Next, vars, StreamStep, FetchPage, FetchFails, FormatRow, FormatEnds, TakePiece, SinkEnds,
       ReportProgress, ProgressFails, SinkFails
  <2>2. Left' <= Left
    <3>1. CASE UNCHANGED vars
      <4>1. Left' = Left
        BY <3>1 DEF vars, Left, ToSend, ToRead, ToClose, ToEnd
      <4> QED
        BY <4>1
    <3>2. CASE ~UNCHANGED vars
      BY <1>2, <3>2
    <3> QED
      BY <3>1, <3>2
  <2> QED
    BY <2>1, <2>2 DEF LeftIsBounded
<1> QED
  BY <1>1, <1>2, <1>3, <1>4, TypeCorrect, PTL DEF Spec, EveryStepCounts
=============================================================================
