------------------------- MODULE ImportStreams_proofs -------------------------
(* Proofs about ImportStreams: for any files, chunks, batches and failures. *)
EXTENDS ImportStreams, SequenceTheorems, FiniteSetTheorems, TLAPS

-----------------------------------------------------------------------------
(* Texts and lines *)

LEMMA LinesOfText ==
  ASSUME NEW t \in Text
  PROVE  t \in Seq(Seq(Piece)) /\ Len(t) \in Nat \ {0} /\ \A n \in 1..Len(t) : t[n] \in Seq(Piece)
<1>1. t \in Seq(Seq(Piece)) /\ t # <<>>
  BY DEF Text
<1> QED
  BY <1>1

LEMMA IsText ==
  ASSUME NEW t \in Seq(Seq(Piece)), Len(t) > 0
  PROVE  t \in Text
<1>1. t # <<>>
  OBVIOUS
<1> QED
  BY <1>1 DEF Text

LEMMA JoinType ==
  ASSUME NEW s \in Text, NEW t \in Text
  PROVE  Join(s, t) \in Text /\ Len(Join(s, t)) = Len(s) + Len(t) - 1
<1> DEFINE len == Len(s) + Len(t) - 1
           line(n) == IF n < Len(s) THEN s[n] ELSE IF n = Len(s) THEN s[n] \o t[1] ELSE t[n - Len(s) + 1]
<1>1. len \in Nat /\ len > 0
  BY LinesOfText
<1>2. ASSUME NEW n \in 1..len PROVE line(n) \in Seq(Piece)
  <2>1. CASE n < Len(s)
    <3>1. n \in 1..Len(s)
      BY <2>1, LinesOfText
    <3> QED
      BY <2>1, <3>1, LinesOfText
  <2>2. CASE n = Len(s)
    <3>1. s[n] \in Seq(Piece) /\ t[1] \in Seq(Piece)
      BY <2>2, LinesOfText
    <3>2. s[n] \o t[1] \in Seq(Piece)
      BY <3>1
    <3>3. ~(n < Len(s))
      BY <2>2, LinesOfText
    <3>4. line(n) = s[n] \o t[1]
      BY <2>2, <3>3
    <3> QED
      BY <3>2, <3>4
  <2>3. CASE n > Len(s)
    <3>1. n - Len(s) + 1 \in 1..Len(t)
      BY <2>3, LinesOfText
    <3>2. line(n) = t[n - Len(s) + 1]
      BY <2>3, LinesOfText
    <3> QED
      BY <3>1, <3>2, LinesOfText
  <2> QED
    BY <2>1, <2>2, <2>3, LinesOfText
<1>3. Join(s, t) = [n \in 1..len |-> line(n)]
  BY DEF Join
<1> HIDE DEF len, line
<1>4. Join(s, t) \in Seq(Seq(Piece)) /\ Len(Join(s, t)) = len
  BY <1>1, <1>2, <1>3
<1> QED
  BY <1>1, <1>4, IsText DEF len

LEMMA TrimType == ASSUME NEW s \in Seq(Piece) PROVE Trim(s) \in Seq(Piece)
<1> DEFINE from == IF s # <<>> /\ s[1] = "space" THEN 2 ELSE 1
           to == IF s # <<>> /\ s[Len(s)] = "space" THEN Len(s) - 1 ELSE Len(s)
<1>1. from \in {1, 2} /\ to \in Int /\ to <= Len(s)
  OBVIOUS
<1>2. Trim(s) = SubSeq(s, from, to)
  BY DEF Trim
<1> HIDE DEF from, to
<1>3. SubSeq(s, from, to) \in Seq(Piece)
  BY <1>1
<1> QED
  BY <1>2, <1>3

LEMMA TakenType ==
  ASSUME rest \in Text, NEW n \in Nat, n < Len(rest), NEW k \in 0..Len(rest[n + 1])
  PROVE  /\ Taken(n, k) \in Text /\ Len(Taken(n, k)) = n + 1
         /\ Left(n, k) \in Text /\ Len(Left(n, k)) = Len(rest) - n
<1>1. rest \in Seq(Seq(Piece)) /\ Len(rest) \in Nat /\ n + 1 \in 1..Len(rest)
  BY LinesOfText
<1>2. rest[n + 1] \in Seq(Piece)
  BY <1>1
<1>3. SubSeq(rest[n + 1], 1, k) \in Seq(Piece) /\ SubSeq(rest[n + 1], k + 1, Len(rest[n + 1])) \in Seq(Piece)
  BY <1>2
<1>4. SubSeq(rest, 1, n) \in Seq(Seq(Piece)) /\ Len(SubSeq(rest, 1, n)) = n
  BY <1>1
<1>5. Taken(n, k) \in Seq(Seq(Piece)) /\ Len(Taken(n, k)) = n + 1
  BY <1>3, <1>4 DEF Taken
<1>6. /\ SubSeq(rest, n + 2, Len(rest)) \in Seq(Seq(Piece))
      /\ Len(SubSeq(rest, n + 2, Len(rest))) = Len(rest) - n - 1
  BY <1>1
<1>7. /\ <<SubSeq(rest[n + 1], k + 1, Len(rest[n + 1]))>> \in Seq(Seq(Piece))
      /\ Len(<<SubSeq(rest[n + 1], k + 1, Len(rest[n + 1]))>>) = 1
  BY <1>3
<1>8. Left(n, k) \in Seq(Seq(Piece)) /\ Len(Left(n, k)) = Len(rest) - n
  BY <1>1, <1>6, <1>7 DEF Left
<1> QED
  BY <1>1, <1>5, <1>8, IsText

LEMMA DecodedType ==
  ASSUME NEW t \in Text
  PROVE  Decoded(t) \in Text /\ Len(Decoded(t)) = Len(t)
<1> DEFINE piece(n, k) == IF (t[n][k] = "lead" /\ k = Len(t[n])) \/ (t[n][k] = "cont" /\ k = 1)
                          THEN "bad" ELSE t[n][k]
<1>1. t \in Seq(Seq(Piece)) /\ Len(t) \in Nat \ {0} /\ DOMAIN t = 1..Len(t)
  BY LinesOfText
<1>2. ASSUME NEW n \in DOMAIN t PROVE [k \in DOMAIN t[n] |-> piece(n, k)] \in Seq(Piece)
  <2>1. t[n] \in Seq(Piece) /\ DOMAIN t[n] = 1..Len(t[n]) /\ Len(t[n]) \in Nat
    BY <1>1
  <2>2. \A k \in 1..Len(t[n]) : piece(n, k) \in Piece
    <3> SUFFICES ASSUME NEW k \in 1..Len(t[n]) PROVE piece(n, k) \in Piece
      OBVIOUS
    <3>1. t[n][k] \in Piece
      BY <2>1
    <3>2. "bad" \in Piece
      BY DEF Piece
    <3> QED
      BY <3>1, <3>2, Zenon
  <2> HIDE DEF piece
  <2> QED
    BY <2>1, <2>2
<1>3. Decoded(t) = [n \in 1..Len(t) |-> [k \in DOMAIN t[n] |-> piece(n, k)]]
  BY <1>1 DEF Decoded
<1> HIDE DEF piece
<1>4. Decoded(t) \in Seq(Seq(Piece)) /\ Len(Decoded(t)) = Len(t)
  <2> DEFINE line(n) == [k \in DOMAIN t[n] |-> piece(n, k)]
  <2>1. \A n \in 1..Len(t) : line(n) \in Seq(Piece)
    BY <1>1, <1>2
  <2>2. Decoded(t) = [n \in 1..Len(t) |-> line(n)]
    BY <1>3
  <2> HIDE DEF line
  <2> QED
    BY <1>1, <2>1, <2>2
<1> QED
  BY <1>1, <1>4, IsText

LEMMA NumberedType ==
  ASSUME NEW items \in Seq(Item), NEW startRow \in Nat \ {0}
  PROVE  Numbered(items, startRow) \in Seq(Item) /\ Len(Numbered(items, startRow)) = Len(items)
<1> DEFINE item(n) == [line |-> startRow + n - 1, text |-> items[n].text]
<1>1. DOMAIN items = 1..Len(items) /\ Len(items) \in Nat
  OBVIOUS
<1>2. ASSUME NEW n \in 1..Len(items) PROVE item(n) \in Item
  <2>1. items[n] \in Item /\ startRow + n - 1 \in Nat
    BY <1>1
  <2> QED
    BY <2>1 DEF Item
<1>3. Numbered(items, startRow) = [n \in 1..Len(items) |-> item(n)]
  BY <1>1 DEF Numbered
<1> HIDE DEF item
<1> QED
  BY <1>1, <1>2, <1>3

LEMMA ReportsType ==
  ASSUME NEW bad \in SUBSET Nat, NEW entries \in Reports(bad)
  PROVE  entries \in Seq(Nat)
<1>1. PICK n \in 0..MaxReport : entries \in [1..n -> bad]
  BY DEF Reports
<1>2. n \in Nat
  BY SizesAssumption
<1>3. entries = [i \in 1..n |-> entries[i]] /\ \A i \in 1..n : entries[i] \in Nat
  BY <1>1
<1> QED
  BY <1>2, <1>3

LEMMA AppendedType ==
  ASSUME errors \in Seq(Nat), NEW entries \in Seq(Nat)
  PROVE  /\ Appended(entries) \in Seq(Nat)
         /\ Len(errors) <= MaxErrors => Len(Appended(entries)) <= MaxErrors
<1> DEFINE room == MaxErrors - Len(errors)
           to == IF Len(entries) < room THEN Len(entries) ELSE room
<1>1. CASE Room
  <2>1. room \in Nat \ {0} /\ Len(errors) \in Nat /\ Len(entries) \in Nat
    BY <1>1, SizesAssumption DEF Room
  <2>2. to \in Nat /\ to <= Len(entries) /\ to <= room
    BY <2>1
  <2>3. Appended(entries) = errors \o SubSeq(entries, 1, to)
    BY <1>1 DEF Appended
  <2> HIDE DEF to
  <2>4. SubSeq(entries, 1, to) \in Seq(Nat) /\ Len(SubSeq(entries, 1, to)) = to
    BY <2>1, <2>2
  <2>5. Appended(entries) \in Seq(Nat) /\ Len(Appended(entries)) = Len(errors) + to
    BY <2>3, <2>4
  <2>6. Len(errors) + to <= MaxErrors
    BY <2>1, <2>2, SizesAssumption
  <2> QED
    BY <2>5, <2>6
<1>2. CASE ~Room
  BY <1>2 DEF Appended
<1> QED
  BY <1>1, <1>2

LEMMA ParsedType ==
  ASSUME lineNumber \in Nat, NEW s \in Seq(Piece)
  PROVE  Parsed(s) \in Item
<1>1. Trim(s) \in Seq(Piece)
  BY TrimType
<1> QED
  BY <1>1 DEF Parsed, Item

LEMMA PushType ==
  ASSUME TypeOK, NEW s \in Seq(Piece), Push(s)
  PROVE  lineNumber' \in Nat /\ queue' \in Seq(Item) /\ Len(queue') <= Len(queue) + 1
<1>1. queue \in Seq(Item) /\ lineNumber \in Nat
  BY DEF TypeOK
<1>2. Parsed(s) \in Item
  BY <1>1, ParsedType
<1>3. Append(queue, Parsed(s)) \in Seq(Item) /\ Len(Append(queue, Parsed(s))) = Len(queue) + 1
  BY <1>1, <1>2
<1>4. Len(queue) \in Nat
  BY <1>1
<1> QED
  BY <1>1, <1>3, <1>4 DEF Push

-----------------------------------------------------------------------------
(* Types *)

\* What the source has not sent is no longer than the file.
TypeInv == TypeOK /\ Len(rest) <= Len(file)

LEMMA InitTypes == Init => TypeInv
<1> SUFFICES ASSUME Init PROVE TypeInv
  OBVIOUS
<1>1. file \in Text
  BY FilesAssumption DEF Init
<1>2. << <<>> >> \in Text /\ Len(<< <<>> >>) = 1
  <2>1. <<>> \in Seq(Piece)
    OBVIOUS
  <2>2. << <<>> >> \in Seq(Seq(Piece)) /\ Len(<< <<>> >>) = 1
    BY <2>1
  <2>3. << <<>> >> # <<>>
    BY <2>2
  <2> QED
    BY <2>2, <2>3 DEF Text
<1>3. Zero \in Counters
  BY DEF Zero, Counters
<1>4. /\ lines = <<>> /\ queue = <<>> /\ batch = <<>> /\ ready = <<>> /\ work = <<>> /\ valid = <<>>
      /\ errors = <<>> /\ taken = <<>>
  BY DEF Init
<1>5. /\ lines \in Seq(Seq(Piece)) /\ queue \in Seq(Item) /\ batch \in Seq(Item) /\ ready \in Seq(Seq(Item))
      /\ work \in Seq(Item) /\ valid \in Seq(Item) /\ errors \in Seq(Nat) /\ taken \in Seq(Item)
  BY <1>4
<1>6. Len(batch) < BatchSize /\ DOMAIN ready = {}
  BY <1>4, SizesAssumption
<1>7. TypeOK
  BY <1>1, <1>2, <1>3, <1>5, <1>6 DEF Init, TypeOK
<1>8. rest = file /\ Len(file) \in Nat
  BY <1>1, LinesOfText DEF Init
<1> QED
  BY <1>7, <1>8 DEF TypeInv

LEMMA SendTypes ==
  ASSUME TypeInv, NEW n \in Nat, n < Len(rest), NEW k \in 0..Len(rest[n + 1]), SendChunk(n, k)
  PROVE  TypeInv' /\ (format # "json" => Len(lines') = n)
<1> DEFINE chunk == IF format = "ndjson" THEN Decoded(Taken(n, k)) ELSE Taken(n, k)
           text == Join(buffer, chunk)
<1>1. rest \in Text /\ buffer \in Text /\ file \in Text /\ cuts \in SUBSET Nat
      /\ (format # "json" => Len(buffer) = 1) /\ lines \in Seq(Seq(Piece))
  BY FilesAssumption DEF TypeInv, TypeOK
<1>2. /\ Taken(n, k) \in Text /\ Len(Taken(n, k)) = n + 1
      /\ Left(n, k) \in Text /\ Len(Left(n, k)) = Len(rest) - n
  BY <1>1, TakenType
<1>3. chunk \in Text /\ Len(chunk) = n + 1
  BY <1>2, DecodedType
<1>4. text \in Text /\ Len(text) = Len(buffer) + n
  <2>1. Len(buffer) \in Nat
    BY <1>1, LinesOfText
  <2> HIDE DEF chunk
  <2> QED
    BY <1>1, <1>3, <2>1, JoinType
<1>5. Len(file) \in Nat /\ Len(rest) \in Nat /\ Len(rest) <= Len(file)
  BY <1>1, LinesOfText DEF TypeInv
<1>6. rest' \in Text /\ Len(rest') <= Len(file) /\ file' = file
  BY <1>2, <1>5 DEF SendChunk
<1>7. cuts' \in SUBSET Nat
  <2>1. Len(file) - Len(rest) + n + 1 \in Nat
    BY <1>5
  <2>2. cuts' = cuts \/ cuts' = cuts \cup {Len(file) - Len(rest) + n + 1}
    BY DEF SendChunk
  <2> QED
    BY <1>1, <2>1, <2>2
<1>8. /\ buffer' \in Text /\ (format # "json" => Len(buffer') = 1)
      /\ lines' \in Seq(Seq(Piece)) /\ (format # "json" => Len(lines') = n)
  <2> HIDE DEF chunk
  <2>1. CASE format = "json"
    <3>1. buffer' = text /\ lines' = lines
      BY <2>1 DEF SendChunk, chunk
    <3> QED
      BY <1>1, <1>4, <2>1, <3>1
  <2>2. CASE format # "json"
    <3>1. buffer' = <<text[Len(text)]>> /\ lines' = SubSeq(text, 1, Len(text) - 1)
      BY <2>2 DEF SendChunk, chunk
    <3>2. Len(text) = n + 1 /\ text \in Seq(Seq(Piece))
      <4> HIDE DEF text
      <4>1. Len(buffer) = 1
        BY <1>1, <2>2
      <4>2. Len(text) = n + 1
        BY <1>4, <4>1
      <4> QED
        BY <1>4, <4>2, LinesOfText
    <3> HIDE DEF text
    <3>3. text[Len(text)] \in Seq(Piece)
      BY <3>2
    <3>4. <<text[Len(text)]>> \in Seq(Seq(Piece)) /\ Len(<<text[Len(text)]>>) = 1
      BY <3>3
    <3>5. lines' \in Seq(Seq(Piece)) /\ Len(lines') = n
      BY <3>1, <3>2
    <3>6. <<text[Len(text)]>> # <<>>
      BY <3>4
    <3>7. <<text[Len(text)]>> \in Text
      BY <3>4, <3>6 DEF Text
    <3> QED
      BY <3>1, <3>4, <3>5, <3>7
  <2> QED
    BY <2>1, <2>2
<1>9. UNCHANGED <<format, file, source, lineNumber, parser, queue, batch, ready, batches,
                  loop, work, valid, batchNumber, counts, errors, row, taken, failures, again>>
  BY DEF SendChunk, batchVars, loopVars, tallyVars
<1>10. TypeOK'
  BY <1>6, <1>7, <1>8, <1>9 DEF TypeInv, TypeOK
<1> QED
  BY <1>6, <1>8, <1>10 DEF TypeInv

LEMMA ParserTypes ==
  ASSUME TypeInv, SourceEnds \/ SourceBreaks \/ ParseLine \/ ParserEnds \/ ParserFails \/ ParseArray
  PROVE  TypeInv'
<1>0. TypeOK /\ Len(rest) <= Len(file)
  BY DEF TypeInv
<1>1. CASE SourceEnds \/ SourceBreaks \/ ParserFails
  BY <1>0, <1>1 DEF SourceEnds, SourceBreaks, ParserFails, parserVars, batchVars, loopVars, tallyVars, sourceVars,
     TypeInv, TypeOK
<1>2. CASE ParseLine
  <2>1. lines \in Seq(Seq(Piece)) /\ lines # <<>>
    BY <1>0, <1>2 DEF ParseLine, TypeOK
  <2>2. lines[1] \in Seq(Piece) /\ Tail(lines) \in Seq(Seq(Piece))
    BY <2>1
  <2>3. lineNumber' \in Nat /\ queue' \in Seq(Item)
    BY <1>0, <1>2, <2>2, PushType DEF ParseLine
  <2> QED
    BY <1>0, <1>2, <2>2, <2>3 DEF ParseLine, sourceVars, batchVars, loopVars, tallyVars, TypeInv, TypeOK
<1>3. CASE ParserEnds
  <2>1. buffer \in Text /\ Len(buffer) = 1
    BY <1>0, <1>3 DEF ParserEnds, TypeOK
  <2>2. buffer[1] \in Seq(Piece)
    BY <2>1, LinesOfText
  <2>3. lineNumber' \in Nat /\ queue' \in Seq(Item)
    BY <1>0, <1>3, <2>2, PushType DEF ParserEnds, Flush, TypeOK
  <2>4. buffer' \in Text /\ Len(buffer') = 1
    <3>1. buffer' = << <<>> >> /\ <<>> \in Seq(Piece)
      BY <1>3 DEF ParserEnds
    <3>2. buffer' \in Seq(Seq(Piece)) /\ Len(buffer') = 1 /\ buffer' # <<>>
      BY <3>1
    <3> QED
      BY <3>2 DEF Text
  <2> QED
    BY <1>0, <1>3, <2>3, <2>4 DEF ParserEnds, sourceVars, batchVars, loopVars, tallyVars, TypeInv, TypeOK
<1>4. CASE ParseArray
  <2>1. buffer \in Seq(Seq(Piece)) /\ Len(buffer) \in Nat
    BY <1>0, LinesOfText DEF TypeOK
  <2>2. Cardinality({n \in DOMAIN buffer : ~Blank(buffer[n])}) \in Nat
    <3>1. IsFiniteSet(DOMAIN buffer)
      BY <2>1, FS_Interval
    <3>2. IsFiniteSet({n \in DOMAIN buffer : ~Blank(buffer[n])})
      BY <3>1, FS_Subset
    <3> QED
      BY <3>2, FS_CardinalityType
  <2>3. counts \in Counters
    BY <1>0 DEF TypeOK
  <2>4. [counts EXCEPT !.total = Cardinality({n \in DOMAIN buffer : ~Blank(buffer[n])})] \in Counters
    BY <2>2, <2>3 DEF Counters
  <2>5. counts' \in Counters /\ lines' \in Seq(Seq(Piece)) /\ loop' \in {loop, "failed"}
    BY <1>0, <1>4, <2>1, <2>3, <2>4 DEF ParseArray, TypeOK
  <2> QED
    BY <1>0, <1>4, <2>5 DEF ParseArray, sourceVars, batchVars, tallyVars, TypeInv, TypeOK
<1> QED
  BY <1>1, <1>2, <1>3, <1>4

LEMMA BatchTypes == ASSUME TypeInv, AddToBatch \/ BatchesEnd PROVE TypeInv'
<1>0. TypeOK /\ Len(rest) <= Len(file)
  BY DEF TypeInv
<1>1. queue \in Seq(Item) /\ batch \in Seq(Item) /\ ready \in Seq(Seq(Item)) /\ Len(batch) < BatchSize
  BY <1>0 DEF TypeOK
<1>2. \A n \in 1..Len(ready) : Len(ready[n]) \in 1..BatchSize
  BY <1>0, <1>1 DEF TypeOK
<1>3. BatchSize \in Nat \ {0} /\ Len(batch) \in Nat
  BY <1>1, SizesAssumption
<1>4. ASSUME NEW items \in Seq(Item), Len(items) \in 1..BatchSize
      PROVE  /\ Append(ready, items) \in Seq(Seq(Item))
             /\ \A n \in DOMAIN Append(ready, items) : Len(Append(ready, items)[n]) \in 1..BatchSize
  <2>1. /\ Append(ready, items) \in Seq(Seq(Item)) /\ Len(Append(ready, items)) = Len(ready) + 1
        /\ \A n \in 1..Len(ready) : Append(ready, items)[n] = ready[n]
        /\ Append(ready, items)[Len(ready) + 1] = items
        /\ DOMAIN Append(ready, items) = 1..Len(ready) + 1 /\ Len(ready) \in Nat
    BY <1>1
  <2> QED
    BY <1>2, <1>4, <2>1
<1>5. CASE AddToBatch
  <2> DEFINE items == Append(batch, queue[1])
  <2>1. queue # <<>> /\ queue' = Tail(queue)
    BY <1>5 DEF AddToBatch
  <2>2. queue' \in Seq(Item) /\ queue[1] \in Item
    BY <1>1, <2>1
  <2>3. items \in Seq(Item) /\ Len(items) = Len(batch) + 1
    BY <1>1, <2>2
  <2>4. CASE Full(items)
    <3>1. ready' = Append(ready, items) /\ batch' = <<>>
      BY <1>5, <2>4 DEF AddToBatch
    <3>2. Len(items) \in 1..BatchSize
      BY <1>1, <1>3, <2>3
    <3>3. batch' \in Seq(Item) /\ Len(batch') < BatchSize
      BY <1>3, <3>1
    <3> HIDE DEF items
    <3> QED
      BY <1>0, <1>4, <1>5, <2>2, <2>3, <3>1, <3>2, <3>3 DEF AddToBatch, sourceVars, parserVars, loopVars, tallyVars, TypeInv, TypeOK
  <2>5. CASE ~Full(items)
    <3>1. ready' = ready /\ batch' = items
      BY <1>5, <2>5 DEF AddToBatch
    <3>2. Len(items) < BatchSize
      BY <1>3, <2>3, <2>5 DEF Full
    <3> HIDE DEF items
    <3> QED
      BY <1>0, <1>5, <2>2, <2>3, <3>1, <3>2 DEF AddToBatch, sourceVars, parserVars, loopVars, tallyVars, TypeInv, TypeOK
  <2> QED
    BY <2>4, <2>5
<1>6. CASE BatchesEnd
  <2>1. batch' = <<>> /\ batches' = "ended" /\ ready' = IF batch = <<>> THEN ready ELSE Append(ready, batch)
    BY <1>6 DEF BatchesEnd
  <2>2. batch' \in Seq(Item) /\ Len(batch') < BatchSize
    BY <1>3, <2>1
  <2>3. ready' \in Seq(Seq(Item)) /\ \A n \in DOMAIN ready' : Len(ready'[n]) \in 1..BatchSize
    <3>1. CASE batch = <<>>
      BY <1>0, <2>1, <3>1 DEF TypeOK
    <3>2. CASE batch # <<>>
      <4>1. Len(batch) \in 1..BatchSize
        BY <1>1, <1>3, <3>2
      <4> QED
        BY <1>1, <1>4, <2>1, <3>2, <4>1
    <3> QED
      BY <3>1, <3>2
  <2> QED
    BY <1>0, <1>6, <2>1, <2>2, <2>3 DEF BatchesEnd, sourceVars, parserVars, loopVars, tallyVars, TypeInv, TypeOK
<1> QED
  BY <1>5, <1>6

LEMMA TakeBatchTypes == ASSUME TypeInv, TakeBatch PROVE TypeInv'
<1>0. TypeOK /\ Len(rest) <= Len(file)
  BY DEF TypeInv
<1> DEFINE items == IF format = "csv" THEN Numbered(ready[1], batchNumber * BatchSize + 1) ELSE ready[1]
<1>1. ready \in Seq(Seq(Item)) /\ ready # <<>> /\ batchNumber \in Nat /\ taken \in Seq(Item)
      /\ counts \in Counters /\ BatchSize \in Nat
  BY <1>0, SizesAssumption DEF TakeBatch, TypeOK
<1>2. ready[1] \in Seq(Item) /\ Tail(ready) \in Seq(Seq(Item)) /\ 1 \in DOMAIN ready
  BY <1>1
<1>3. \A n \in DOMAIN Tail(ready) : n + 1 \in DOMAIN ready /\ Tail(ready)[n] = ready[n + 1]
  BY <1>1
<1>4. \A n \in DOMAIN Tail(ready) : Len(Tail(ready)[n]) \in 1..BatchSize
  BY <1>0, <1>3 DEF TypeOK
<1>5. batchNumber * BatchSize \in Nat
  BY <1>1
<1>6. items \in Seq(Item)
  <2>1. batchNumber * BatchSize + 1 \in Nat \ {0}
    BY <1>5
  <2> QED
    BY <1>2, <2>1, NumberedType
<1>7. taken' = taken \o items /\ counts' = [counts EXCEPT !.total = @ + Len(items)]
      /\ valid' \in {valid, items} /\ work' \in {work, items} /\ loop' \in {"records", "scan"}
      /\ ready' = Tail(ready) /\ batchNumber' = batchNumber + 1
  BY DEF TakeBatch
<1>8. UNCHANGED <<format, file, rest, source, cuts, buffer, lines, lineNumber, parser, queue, batch,
                  batches, errors, row, failures, again>>
  BY DEF TakeBatch, sourceVars, parserVars, tallyVars
<1> HIDE DEF items
<1>9. taken' \in Seq(Item) /\ Len(items) \in Nat
  BY <1>1, <1>6, <1>7
<1>10. counts' \in Counters
  <2>1. counts.total + Len(items) \in Nat
    BY <1>1, <1>9 DEF Counters
  <2>2. counts' = [counts EXCEPT !.total = @ + Len(items)]
    BY <1>7
  <2> QED
    BY <1>1, <2>1, <2>2 DEF Counters
<1>11. valid' \in Seq(Item) /\ work' \in Seq(Item)
  <2>1. valid \in Seq(Item) /\ work \in Seq(Item)
    BY <1>0 DEF TypeOK
  <2>2. valid' \in {valid, items} /\ work' \in {work, items}
    BY <1>7
  <2> QED
    BY <1>6, <2>1, <2>2
<1>12. batchNumber' \in Nat /\ loop' \in {"records", "scan"}
  BY <1>1, <1>7
<1>13. ready' \in Seq(Seq(Item)) /\ \A n \in DOMAIN ready' : Len(ready'[n]) \in 1..BatchSize
  BY <1>2, <1>4, <1>7
<1> QED
  BY <1>0, <1>8, <1>9, <1>10, <1>11, <1>12, <1>13 DEF TypeInv, TypeOK

LEMMA TakeSliceTypes == ASSUME TypeInv, TakeSlice PROVE TypeInv'
<1>0. TypeOK /\ Len(rest) <= Len(file)
  BY DEF TypeInv
<1> DEFINE size == IF Len(queue) < BatchSize THEN Len(queue) ELSE BatchSize
           slice == SubSeq(queue, 1, size)
           items == Numbered(slice, batchNumber * BatchSize + 1)
<1>1. queue \in Seq(Item) /\ batchNumber \in Nat /\ taken \in Seq(Item) /\ BatchSize \in Nat
  BY <1>0, SizesAssumption DEF TypeOK
<1>2. size \in Nat /\ size <= Len(queue) /\ Len(queue) \in Nat
  BY <1>1
<1>3. taken' = taken \o items /\ valid' = items /\ queue' = SubSeq(queue, size + 1, Len(queue))
      /\ loop' = "records" /\ batchNumber' = batchNumber + 1
  BY DEF TakeSlice
<1>4. UNCHANGED <<format, file, rest, source, cuts, buffer, lines, lineNumber, parser, batch, ready,
                  batches, work, counts, errors, row, failures, again>>
  BY DEF TakeSlice, sourceVars, parserVars, batchVars, tallyVars
<1> HIDE DEF size
<1>5. slice \in Seq(Item) /\ queue' \in Seq(Item)
  BY <1>1, <1>2, <1>3
<1>6. batchNumber * BatchSize \in Nat
  BY <1>1
<1>7. batchNumber * BatchSize + 1 \in Nat \ {0}
  BY <1>6
<1> HIDE DEF slice
<1>8. items \in Seq(Item)
  BY <1>5, <1>7, NumberedType
<1> HIDE DEF items
<1>9. taken' \in Seq(Item)
  BY <1>1, <1>3, <1>8
<1> QED
  BY <1>0, <1>1, <1>3, <1>4, <1>5, <1>8, <1>9 DEF TypeInv, TypeOK

LEMMA LoopTypes ==
  ASSUME TypeInv, ScanItem \/ ScanEnds \/ ValidationFails \/ DatabaseFails \/ UpdateJobProgress \/ Complete
  PROVE  TypeInv'
<1>0. TypeOK /\ Len(rest) <= Len(file)
  BY DEF TypeInv
<1>1. CASE ScanItem
  <2>1. work \in Seq(Item) /\ work # <<>> /\ valid \in Seq(Item) /\ counts \in Counters /\ errors \in Seq(Nat)
    BY <1>0, <1>1 DEF ScanItem, TypeOK
  <2>2. work[1] \in Item /\ Tail(work) \in Seq(Item)
    BY <2>1
  <2>3. work[1].line \in Nat
    BY <2>2 DEF Item
  <2>4. errors' \in Seq(Nat)
    <3>1. errors' = errors \/ errors' = Append(errors, work[1].line)
      BY <1>1 DEF ScanItem
    <3> QED
      BY SMTT(30), <2>1, <2>3, <3>1
  <2>5. counts' \in Counters
    <3>1. counts' = counts \/ counts' = [counts EXCEPT !.failed = @ + 1]
      BY <1>1 DEF ScanItem
    <3> QED
      BY <2>1, <3>1 DEF Counters
  <2>6. valid' \in Seq(Item)
    <3>1. valid' = valid \/ valid' = Append(valid, work[1])
      BY <1>1 DEF ScanItem
    <3>2. Append(valid, work[1]) \in Seq(Item)
      BY <2>1, <2>2
    <3> QED
      BY <2>1, <3>1, <3>2
  <2>7. failures' \in SUBSET Nat /\ again' = again
    <3>1. failures \in SUBSET Nat
      BY <1>0 DEF TypeOK
    <3> QED
      BY <1>1, <2>3, <3>1 DEF ScanItem
  <2> QED
    BY <1>0, <1>1, <2>2, <2>4, <2>5, <2>6, <2>7 DEF ScanItem, sourceVars, parserVars, batchVars, tallyVars, TypeInv, TypeOK
<1>2. CASE ScanEnds
  BY <1>0, <1>2 DEF ScanEnds, AfterBatch, sourceVars, parserVars, batchVars, tallyVars, TypeInv, TypeOK
<1>3. CASE ValidationFails \/ DatabaseFails \/ UpdateJobProgress \/ Complete
  BY <1>0, <1>3 DEF ValidationFails, DatabaseFails, UpdateJobProgress, Complete,
     sourceVars, parserVars, batchVars, tallyVars, TypeInv, TypeOK
<1> QED
  BY <1>1, <1>2, <1>3

LEMMA RecordsTypes == ASSUME TypeInv, ProcessRecords PROVE TypeInv'
<1>0. TypeOK /\ Len(rest) <= Len(file)
  BY DEF TypeInv
<1>1. valid \in Seq(Item) /\ counts \in Counters /\ errors \in Seq(Nat)
  BY <1>0 DEF TypeOK
<1>2. PICK good \in SUBSET DOMAIN valid, wrong \in SUBSET DOMAIN valid, all \in SUBSET DOMAIN valid :
        /\ counts' = [counts EXCEPT
             !.processed = @ + Processed(wrong),
             !.successful = @ + Cardinality(good),
             !.failed = @ + Cardinality(wrong) + Cardinality(all)]
        /\ again' = again + Cardinality(good \cap wrong) + Cardinality(all)
        /\ failures' = failures \cup {valid[n].line : n \in wrong \cup all}
        /\ \E entries \in Reports({valid[n].line : n \in wrong \cup all}) : errors' = Appended(entries)
  BY DEF ProcessRecords
<1>3. PICK entries \in Reports({valid[n].line : n \in wrong \cup all}) : errors' = Appended(entries)
  BY <1>2
<1>4. {valid[n].line : n \in wrong \cup all} \in SUBSET Nat
  <2>1. ASSUME NEW n \in wrong \cup all PROVE valid[n].line \in Nat
    <3>1. valid[n] \in Item
      BY <1>1, <1>2
    <3> QED
      BY <3>1 DEF Item
  <2> QED
    BY <2>1
<1>5. errors' \in Seq(Nat) /\ failures' \in SUBSET Nat
  <2>1. errors' \in Seq(Nat)
    BY <1>1, <1>3, <1>4, ReportsType, AppendedType
  <2>2. failures \in SUBSET Nat
    BY <1>0 DEF TypeOK
  <2> QED
    BY <1>2, <1>4, <2>1, <2>2
<1>6. \A some \in SUBSET DOMAIN valid : Cardinality(some) \in Nat
  <2> SUFFICES ASSUME NEW some \in SUBSET DOMAIN valid PROVE Cardinality(some) \in Nat
    OBVIOUS
  <2>1. DOMAIN valid = 1..Len(valid) /\ Len(valid) \in Nat
    BY <1>1
  <2>2. IsFiniteSet(1..Len(valid))
    BY <2>1, FS_Interval
  <2>3. IsFiniteSet(some)
    BY <2>1, <2>2, FS_Subset
  <2> QED
    BY <2>3, FS_CardinalityType
<1>7. counts' \in Counters /\ again' \in Nat
  <2>1. counts.processed \in Nat /\ counts.successful \in Nat /\ counts.failed \in Nat /\ again \in Nat
    BY <1>0, <1>1 DEF Counters, TypeOK
  <2>2. /\ Len(valid) \in Nat /\ Cardinality(good) \in Nat /\ Cardinality(wrong) \in Nat
        /\ Cardinality(all) \in Nat /\ Cardinality(good \cap wrong) \in Nat
    BY <1>1, <1>2, <1>6
  <2>3. /\ counts.processed + Processed(wrong) \in Nat
        /\ counts.successful + Cardinality(good) \in Nat
        /\ counts.failed + Cardinality(wrong) + Cardinality(all) \in Nat
        /\ again' \in Nat
    <3>1. \A a, b, c \in Nat : a + b \in Nat /\ a + b + c \in Nat
      OBVIOUS
    <3>2. Processed(wrong) \in Nat
      BY <2>2 DEF Processed
    <3>3. again' = again + Cardinality(good \cap wrong) + Cardinality(all)
      BY <1>2
    <3> QED
      BY <2>1, <2>2, <3>1, <3>2, <3>3
  <2> QED
    BY <1>1, <1>2, <2>3 DEF Counters
<1>8. valid' \in Seq(Item) /\ loop' \in {"wait", "progress"}
  BY DEF ProcessRecords, AfterBatch
<1>9. UNCHANGED <<format, file, rest, source, cuts, buffer, lines, lineNumber, parser, queue, batch,
                  ready, batches, work, batchNumber, row, taken>>
  BY DEF ProcessRecords, sourceVars, parserVars, batchVars
<1> QED
  BY <1>0, <1>5, <1>7, <1>8, <1>9 DEF TypeInv, TypeOK

LEMMA TypesStep == ASSUME TypeInv, [Next]_vars PROVE TypeInv'
<1>1. CASE UNCHANGED vars
  BY <1>1 DEF vars, TypeInv, TypeOK
<1>2. CASE \E n \in {m \in 0..ChunkLines : m < Len(rest)} : \E k \in 0..Len(rest[n + 1]) : SendChunk(n, k)
  <2>0. PICK n \in {m \in 0..ChunkLines : m < Len(rest)} : \E k \in 0..Len(rest[n + 1]) : SendChunk(n, k)
    BY <1>2
  <2>1. PICK k \in 0..Len(rest[n + 1]) : SendChunk(n, k)
    BY <2>0
  <2>2. n \in Nat /\ n < Len(rest)
    BY SizesAssumption
  <2> QED
    BY <2>1, <2>2, SendTypes
<1> QED
  BY <1>1, <1>2, ParserTypes, BatchTypes, TakeBatchTypes, TakeSliceTypes, LoopTypes, RecordsTypes
     DEF Next, SourceStep, ParserStep, BatchStep, LoopStep

LEMMA TypesHold == Spec => []TypeInv
BY InitTypes, TypesStep, PTL DEF Spec

\* The type invariant, for any files and chunks.
THEOREM TypeCorrect == Spec => []TypeOK
<1>1. TypeInv => TypeOK
  BY DEF TypeInv
<1> QED
  BY <1>1, TypesHold, PTL

-----------------------------------------------------------------------------
(* Back pressure *)

\* What ends has nothing before it, and the end of a stream may add one last item to what waits.
EndInv ==
  /\ parser = "ended" => source = "ended"
  /\ parser = "ended" /\ format # "json" => lines = <<>>
  /\ batches = "ended" => format # "json" /\ parser = "ended" /\ queue = <<>> /\ batch = <<>>

WaitInv ==
  format # "json" =>
    /\ Len(lines) + Len(queue) <= Hwm + ChunkLines - (IF parser = "open" THEN 1 ELSE 0)
    /\ Len(ready) <= Hwm + (IF batches = "open" THEN 0 ELSE 1)

LEMMA Lengths ==
  ASSUME TypeInv
  PROVE  /\ Len(lines) \in Nat /\ Len(queue) \in Nat /\ Len(ready) \in Nat /\ Len(batch) \in Nat
         /\ Hwm \in Nat \ {0} /\ ChunkLines \in Nat /\ BatchSize \in Nat \ {0}
<1>1. lines \in Seq(Seq(Piece)) /\ queue \in Seq(Item) /\ ready \in Seq(Seq(Item)) /\ batch \in Seq(Item)
  BY DEF TypeInv, TypeOK
<1> QED
  BY <1>1, SizesAssumption

LEMMA WaitInit == Init /\ TypeInv => EndInv /\ WaitInv
<1> SUFFICES ASSUME Init, TypeInv PROVE EndInv /\ WaitInv
  OBVIOUS
<1>1. lines = <<>> /\ queue = <<>> /\ ready = <<>> /\ parser = "open" /\ batches = "open"
  BY DEF Init
<1>2. Len(lines) = 0 /\ Len(queue) = 0 /\ Len(ready) = 0
  BY <1>1
<1> QED
  BY <1>1, <1>2, Lengths DEF EndInv, WaitInv

LEMMA WaitStep == ASSUME TypeInv, TypeInv', EndInv, WaitInv, [Next]_vars PROVE EndInv' /\ WaitInv'
<1>0. /\ Len(lines) \in Nat /\ Len(queue) \in Nat /\ Len(ready) \in Nat /\ Len(batch) \in Nat
      /\ Hwm \in Nat \ {0} /\ ChunkLines \in Nat /\ BatchSize \in Nat \ {0}
  BY Lengths
<1>t. /\ lines \in Seq(Seq(Piece)) /\ queue \in Seq(Item) /\ ready \in Seq(Seq(Item))
      /\ parser \in {"open", "ended"} /\ batches \in {"open", "ended"}
  BY DEF TypeInv, TypeOK
<1>1. CASE UNCHANGED <<format, source, lines, queue, parser, batch, ready, batches>>
  BY <1>1 DEF EndInv, WaitInv
<1>2. CASE \E n \in {m \in 0..ChunkLines : m < Len(rest)} : \E k \in 0..Len(rest[n + 1]) : SendChunk(n, k)
  <2>0. PICK n \in {m \in 0..ChunkLines : m < Len(rest)} : \E k \in 0..Len(rest[n + 1]) : SendChunk(n, k)
    BY <1>2
  <2>1. PICK k \in 0..Len(rest[n + 1]) : SendChunk(n, k)
    BY <2>0
  <2>2. n \in Nat /\ n < Len(rest) /\ n <= ChunkLines
    BY <1>0
  <2>3. format # "json" => Len(lines') = n
    BY <2>1, <2>2, SendTypes
  <2>4. /\ format' = format /\ queue' = queue /\ parser' = parser /\ source' = source /\ source = "open"
        /\ batch' = batch /\ ready' = ready /\ batches' = batches /\ (format # "json" => Len(queue) < Hwm)
    BY <2>1 DEF SendChunk, Drained, batchVars
  <2>5. parser = "open"
    BY <2>4, <1>t DEF EndInv
  <2>6. EndInv'
    BY <2>4, <2>5 DEF EndInv
  <2>7. WaitInv'
    BY <1>0, <2>2, <2>3, <2>4, <2>5 DEF WaitInv
  <2> QED
    BY <2>6, <2>7
<1>3. CASE SourceEnds \/ SourceBreaks
  <2>1. source = "open"
    BY <1>3 DEF SourceEnds, SourceBreaks
  <2>2. parser = "open"
    BY <1>t, <2>1 DEF EndInv
  <2>3. UNCHANGED <<format, lines, queue, parser, batch, ready, batches>>
    BY <1>3 DEF SourceEnds, SourceBreaks, parserVars, batchVars
  <2> QED
    BY <2>2, <2>3 DEF EndInv, WaitInv
<1>4. CASE ParseLine
  <2>1. /\ lines # <<>> /\ lines' = Tail(lines) /\ Push(lines[1])
        /\ UNCHANGED <<format, source, parser, batch, ready, batches>>
    BY <1>4 DEF ParseLine, sourceVars, batchVars
  <2>2. Len(lines') = Len(lines) - 1
    BY <1>t, <2>1
  <2>3. lines[1] \in Seq(Piece)
    BY <1>t, <2>1
  <2>4. Len(queue') <= Len(queue) + 1 /\ Len(queue') \in Nat
    BY <2>1, <2>3, PushType DEF TypeInv
  <2>5. parser = "open" \/ format = "json"
    BY <1>t, <2>1 DEF EndInv
  <2>6. EndInv'
    <3>1. CASE batches = "open"
      BY <2>1, <2>5, <3>1 DEF EndInv
    <3>2. CASE batches = "ended"
      BY <2>1, <2>5, <3>2 DEF EndInv
    <3> QED
      BY <1>t, <3>1, <3>2
  <2>7. Len(lines') + Len(queue') <= Len(lines) + Len(queue)
    BY <1>0, <2>1, <2>2, <2>4
  <2>8. WaitInv'
    <3>1. CASE format = "json"
      BY <2>1, <3>1 DEF WaitInv
    <3>2. CASE format # "json"
      BY <1>0, <2>1, <2>2, <2>4, <2>5, <2>7, <3>2 DEF WaitInv
    <3> QED
      BY <3>1, <3>2
  <2> QED
    BY <2>6, <2>8
<1>5. CASE ParserEnds
  <2>1. /\ format # "json" /\ source = "ended" /\ lines = <<>> /\ parser = "open" /\ parser' = "ended"
        /\ UNCHANGED <<format, source, lines, batch, ready, batches>> /\ Flush
    BY <1>5 DEF ParserEnds, sourceVars, batchVars
  <2>2. buffer[1] \in Seq(Piece)
    <3>1. buffer \in Text /\ Len(buffer) = 1
      BY <2>1 DEF TypeInv, TypeOK
    <3> QED
      BY <3>1, LinesOfText
  <2>3. Len(queue') <= Len(queue) + 1 /\ Len(queue') \in Nat
    BY <1>0, <2>1, <2>2, PushType DEF TypeInv, Flush
  <2>4. batches = "open"
    BY <1>t, <2>1 DEF EndInv
  <2> QED
    BY <1>0, <2>1, <2>3, <2>4 DEF EndInv, WaitInv
<1>6. CASE ParseArray
  <2>1. /\ format = "json" /\ source = "ended" /\ parser = "open"
        /\ UNCHANGED <<format, source, queue, batch, ready, batches>>
    BY <1>6 DEF ParseArray, sourceVars, batchVars
  <2> QED
    BY <2>1 DEF EndInv, WaitInv
<1>7. CASE AddToBatch
  <2> DEFINE items == Append(batch, queue[1])
  <2>1. /\ queue # <<>> /\ queue' = Tail(queue) /\ Len(ready) < Hwm /\ format # "json"
        /\ ready' = ready \/ ready' = Append(ready, items)
        /\ UNCHANGED <<format, source, lines, parser, batches>>
    BY <1>7 DEF AddToBatch, sourceVars, parserVars
  <2>2. Len(queue') = Len(queue) - 1
    BY <1>t, <2>1
  <2> HIDE DEF items
  <2>3. Len(ready') <= Len(ready) + 1 /\ Len(ready') \in Nat
    BY <1>0, <1>t, <2>1
  <2>4. batches = "open"
    BY <1>t, <2>1 DEF EndInv
  <2> QED
    BY <1>0, <1>t, <2>1, <2>2, <2>3, <2>4 DEF EndInv, WaitInv
<1>8. CASE BatchesEnd
  <2>1. /\ parser = "ended" /\ queue = <<>> /\ batches = "open" /\ batches' = "ended" /\ batch' = <<>>
        /\ format # "json"
        /\ ready' = ready \/ ready' = Append(ready, batch)
        /\ UNCHANGED <<format, source, lines, parser, queue>>
    BY <1>8 DEF BatchesEnd, sourceVars, parserVars
  <2>2. Len(ready') <= Len(ready) + 1 /\ Len(ready') \in Nat
    BY <1>0, <1>t, <2>1
  <2> QED
    BY <1>0, <2>1, <2>2 DEF EndInv, WaitInv
<1>9. CASE TakeBatch
  <2>1. /\ ready # <<>> /\ ready' = Tail(ready)
        /\ UNCHANGED <<format, source, lines, parser, queue, batch, batches>>
    BY <1>9 DEF TakeBatch, sourceVars, parserVars
  <2>2. Len(ready') = Len(ready) - 1
    BY <1>t, <2>1
  <2> QED
    BY <1>0, <2>1, <2>2 DEF EndInv, WaitInv
<1>10. CASE TakeSlice
  <2>1. format = "json" /\ UNCHANGED <<format, source, lines, parser, batch, ready, batches>> /\ queue # <<>>
    BY <1>10 DEF TakeSlice, sourceVars, parserVars, batchVars
  <2>2. batches = "open"
    BY <1>t, <2>1 DEF EndInv
  <2> QED
    BY <2>1, <2>2 DEF EndInv, WaitInv
<1>11. CASE UNCHANGED vars \/ ParserFails \/ ScanItem \/ ScanEnds \/ ProcessRecords \/ ValidationFails
            \/ DatabaseFails \/ UpdateJobProgress \/ Complete
  BY <1>1, <1>11 DEF vars, ParserFails, ScanItem, ScanEnds, ProcessRecords, ValidationFails, DatabaseFails,
     UpdateJobProgress, Complete, sourceVars, parserVars, batchVars
<1> QED
  BY <1>2, <1>3, <1>4, <1>5, <1>6, <1>7, <1>8, <1>9, <1>10, <1>11
     DEF Next, SourceStep, ParserStep, BatchStep, LoopStep

LEMMA WaitHolds == Spec => [](TypeInv /\ EndInv /\ WaitInv)
<1>1. Init => TypeInv /\ EndInv /\ WaitInv
  BY InitTypes, WaitInit
<1>2. TypeInv /\ EndInv /\ WaitInv /\ [Next]_vars => TypeInv' /\ EndInv' /\ WaitInv'
  BY TypesStep, WaitStep
<1> QED
  BY <1>1, <1>2, PTL DEF Spec

-----------------------------------------------------------------------------
(* Lines of the file *)

\* No line begins or ends inside of a character.
WholeCharacters ==
  "ndjson" \in Formats =>
    \A f \in Files : \A n \in DOMAIN f : \A k \in DOMAIN f[n] :
      /\ f[n][k] = "lead" => k < Len(f[n]) /\ f[n][k + 1] = "cont"
      /\ f[n][k] = "cont" => k > 1 /\ f[n][k - 1] = "lead"

\* A text agrees with the beginning of the n-th line but for characters that were cut.
Lost(n, c) == format = "ndjson" /\ (WholeCharacters => n \in c)
Damaged(n) == Lost(n, cuts)
LikeBut(s, n, c) ==
  \A k \in 1..Len(s) :
    s[k] = file[n][k] \/ (Lost(n, c) /\ s[k] = "bad" /\ file[n][k] \in {"lead", "cont"})
Like(s, n) == LikeBut(s, n, cuts)
WholeLine(s, n) == n \in 1..Len(file) /\ Len(s) = Len(file[n]) /\ Like(s, n)

Sent == Len(file) - Len(rest)
Kept == buffer[Len(buffer)]

RestInv ==
  /\ \A i \in 2..Len(rest) : rest[i] = file[Sent + i]
  /\ source = "ended" => rest = << <<>> >>

KeptInv ==
  parser = "open" =>
    /\ Len(Kept) + Len(rest[1]) = Len(file[Sent + 1])
    /\ Like(Kept, Sent + 1)
    /\ \A k \in 1..Len(rest[1]) : rest[1][k] = file[Sent + 1][Len(Kept) + k]
    /\ format = "ndjson" /\ Kept # <<>> /\ rest[1] # <<>> /\ rest[1][1] = "cont" => Damaged(Sent + 1)
    /\ format = "json" => Len(buffer) = Sent + 1 /\ \A i \in 1..Sent : buffer[i] = file[i]

LineInv ==
  /\ \A j \in 1..Len(lines) : WholeLine(lines[j], lineNumber + j)
  /\ parser = "open" => IF format = "json" THEN lineNumber = 0 /\ lines = <<>>
                        ELSE lineNumber + Len(lines) = Sent
  /\ parser = "ended" /\ format = "json" /\ Running => lineNumber + Len(lines) = Len(file)
  /\ parser = "ended" /\ format # "json" => lines = <<>> /\ Rank(lineNumber) = Rank(Len(file))

TextInv == RestInv /\ KeptInv /\ LineInv

LEMMA FileLines ==
  ASSUME TypeInv
  PROVE  /\ file \in Seq(Seq(Piece)) /\ Len(file) \in Nat \ {0} /\ \A n \in 1..Len(file) : file[n] \in Seq(Piece)
         /\ rest \in Seq(Seq(Piece)) /\ Len(rest) \in Nat \ {0} /\ \A n \in 1..Len(rest) : rest[n] \in Seq(Piece)
         /\ buffer \in Seq(Seq(Piece)) /\ Len(buffer) \in Nat \ {0} /\ Kept \in Seq(Piece)
         /\ Sent \in Nat /\ Sent < Len(file) /\ Sent + Len(rest) = Len(file)
<1>1. file \in Text /\ rest \in Text /\ buffer \in Text
  BY FilesAssumption DEF TypeInv, TypeOK
<1>2. Len(buffer) \in 1..Len(buffer)
  BY <1>1, LinesOfText
<1>3. Kept \in Seq(Piece)
  BY <1>1, <1>2, LinesOfText DEF Kept
<1>4. Len(rest) <= Len(file)
  BY DEF TypeInv
<1>5. Len(file) \in Nat \ {0} /\ Len(rest) \in Nat \ {0}
  BY <1>1, LinesOfText
<1>6. Sent \in Nat /\ Sent < Len(file) /\ Sent + Len(rest) = Len(file)
  BY <1>4, <1>5 DEF Sent
<1> QED
  BY <1>1, <1>3, <1>5, <1>6, LinesOfText

\* Ranks grow by one at every row.
LEMMA RankStep ==
  /\ Rank(0) = 0
  /\ \A n \in Nat : Rank(n) \in Nat /\ Rank(n + 1) = Rank(n) + (IF IsRow(n + 1) THEN 1 ELSE 0)
<1> DEFINE rows(n) == {m \in 1..n : IsRow(m)}
<1>1. \A n \in Nat : IsFiniteSet(rows(n)) /\ Cardinality(rows(n)) \in Nat
  <2> SUFFICES ASSUME NEW n \in Nat PROVE IsFiniteSet(rows(n)) /\ Cardinality(rows(n)) \in Nat
    OBVIOUS
  <2>1. IsFiniteSet(1..n)
    BY FS_Interval
  <2>2. IsFiniteSet(rows(n))
    BY <2>1, FS_Subset
  <2> QED
    BY <2>2, FS_CardinalityType
<1>2. Rank(0) = 0
  <2>1. rows(0) = {}
    OBVIOUS
  <2> QED
    BY <2>1, FS_EmptySet DEF Rank
<1>3. ASSUME NEW n \in Nat PROVE Rank(n) \in Nat /\ Rank(n + 1) = Rank(n) + (IF IsRow(n + 1) THEN 1 ELSE 0)
  <2>1. Rank(n) = Cardinality(rows(n)) /\ Rank(n + 1) = Cardinality(rows(n + 1)) /\ Rank(n) \in Nat
    BY <1>1 DEF Rank
  <2>2. CASE IsRow(n + 1)
    <3>1. rows(n + 1) = rows(n) \cup {n + 1} /\ n + 1 \notin rows(n)
      BY <2>2
    <3>2. Cardinality(rows(n) \cup {n + 1}) = Cardinality(rows(n)) + 1
      BY <1>1, <3>1, FS_AddElement
    <3> QED
      BY <2>1, <2>2, <3>1, <3>2
  <2>3. CASE ~IsRow(n + 1)
    <3>1. rows(n + 1) = rows(n)
      BY <2>3
    <3> QED
      BY <2>1, <2>3, <3>1
  <2> QED
    BY <2>2, <2>3
<1> QED
  BY <1>2, <1>3

-----------------------------------------------------------------------------
(* White space *)

LEMMA TrimParts ==
  ASSUME NEW s \in Seq(Piece), NEW t \in Seq(Piece), Len(s) = Len(t),
         \A k \in 1..Len(s) : s[k] = "space" <=> t[k] = "space"
  PROVE  \E from \in {1, 2} : \E to \in Int :
           /\ to <= Len(s) /\ Trim(s) = SubSeq(s, from, to) /\ Trim(t) = SubSeq(t, from, to)
<1> DEFINE from(r) == IF r # <<>> /\ r[1] = "space" THEN 2 ELSE 1
           to(r) == IF r # <<>> /\ r[Len(r)] = "space" THEN Len(r) - 1 ELSE Len(r)
<1>1. Len(s) \in Nat /\ (s # <<>> <=> Len(s) > 0) /\ (t # <<>> <=> Len(s) > 0)
  OBVIOUS
<1>2. Len(s) > 0 => 1 \in 1..Len(s) /\ Len(s) \in 1..Len(s)
  BY <1>1
<1>3. from(s) = from(t) /\ from(s) \in {1, 2}
  BY <1>1, <1>2
<1>4. to(s) = to(t) /\ to(s) \in Int /\ to(s) <= Len(s)
  BY <1>1, <1>2
<1>5. Trim(s) = SubSeq(s, from(s), to(s)) /\ Trim(t) = SubSeq(t, from(t), to(t))
  BY DEF Trim
<1> HIDE DEF from, to
<1> QED
  BY <1>3, <1>4, <1>5

LEMMA SubSeqItems ==
  ASSUME NEW s \in Seq(Piece), NEW from \in {1, 2}, NEW to \in Int, to <= Len(s)
  PROVE  /\ SubSeq(s, from, to) \in Seq(Piece)
         /\ Len(SubSeq(s, from, to)) = IF from <= to THEN to - from + 1 ELSE 0
         /\ \A k \in 1..Len(SubSeq(s, from, to)) :
              SubSeq(s, from, to)[k] = s[from + k - 1] /\ from + k - 1 \in 1..Len(s)
OBVIOUS

\* What the text of an item looks like, next to its line.
TextOf(t, n) == IF Damaged(n) THEN Legible(t, Trim(file[n])) ELSE t = Trim(file[n])

LEMMA SameText ==
  ASSUME TypeInv, NEW s \in Seq(Piece), NEW n \in 1..Len(file), WholeLine(s, n), ~Damaged(n)
  PROVE  s = file[n]
<1>1. file[n] \in Seq(Piece) /\ Len(s) = Len(file[n])
  BY FileLines DEF WholeLine
<1>2. \A k \in 1..Len(s) : s[k] = file[n][k]
  BY DEF WholeLine, Like, LikeBut, Damaged
<1> QED
  BY <1>1, <1>2, SeqEqual

LEMMA TrimmedLine ==
  ASSUME TypeInv, NEW s \in Seq(Piece), NEW n, WholeLine(s, n)
  PROVE  /\ Blank(s) <=> ~IsRow(n)
         /\ TextOf(Trim(s), n)
<1>1. n \in 1..Len(file) /\ file[n] \in Seq(Piece) /\ Len(s) = Len(file[n]) /\ n \in DOMAIN file
  BY FileLines DEF WholeLine
<1>2. \A k \in 1..Len(s) : s[k] = "space" <=> file[n][k] = "space"
  BY <1>1 DEF WholeLine, Like, LikeBut, Damaged
<1>3. PICK from \in {1, 2}, to \in Int :
        /\ to <= Len(s) /\ Trim(s) = SubSeq(s, from, to) /\ Trim(file[n]) = SubSeq(file[n], from, to)
  BY <1>1, <1>2, TrimParts
<1>4. /\ Trim(s) \in Seq(Piece) /\ Trim(file[n]) \in Seq(Piece) /\ Len(Trim(s)) = Len(Trim(file[n]))
      /\ \A k \in 1..Len(Trim(s)) : /\ Trim(s)[k] = s[from + k - 1] /\ from + k - 1 \in 1..Len(s)
                                    /\ Trim(file[n])[k] = file[n][from + k - 1]
  BY <1>1, <1>3, SubSeqItems
<1>5. Trim(s) = <<>> <=> Trim(file[n]) = <<>>
  BY <1>4
<1>6. Blank(s) <=> ~IsRow(n)
  BY <1>1, <1>5 DEF Blank, IsRow
<1>7. CASE Damaged(n)
  <2>1. DOMAIN Trim(s) = 1..Len(Trim(s))
    BY <1>4
  <2>2. ASSUME NEW k \in DOMAIN Trim(s)
        PROVE  \/ Trim(s)[k] = Trim(file[n])[k]
               \/ Trim(s)[k] = "bad" /\ Trim(file[n])[k] \in {"lead", "cont"}
    BY <1>4, <2>1 DEF WholeLine, Like, LikeBut, Damaged
  <2> QED
    BY <1>4, <1>6, <1>7, <2>2 DEF TextOf, Legible
<1>8. CASE ~Damaged(n)
  BY <1>1, <1>6, <1>8, SameText DEF TextOf
<1> QED
  BY <1>7, <1>8

-----------------------------------------------------------------------------
(* A chunk *)

Chunk(n, k) == IF format = "ndjson" THEN Decoded(Taken(n, k)) ELSE Taken(n, k)

\* Where the first lines of a chunk go on.
Behind(i) == IF i = 1 THEN Len(Kept) ELSE 0

LEMMA TakenLines ==
  ASSUME TypeInv, NEW n \in Nat, n < Len(rest), NEW k \in 0..Len(rest[n + 1])
  PROVE  /\ \A i \in 1..n : Taken(n, k)[i] = rest[i]
         /\ Taken(n, k)[n + 1] = SubSeq(rest[n + 1], 1, k)
         /\ Left(n, k)[1] = SubSeq(rest[n + 1], k + 1, Len(rest[n + 1]))
         /\ \A i \in 2..Len(rest) - n : Left(n, k)[i] = rest[n + i]
<1>1. rest \in Seq(Seq(Piece)) /\ Len(rest) \in Nat \ {0}
  BY FileLines
<1>2. rest[n + 1] \in Seq(Piece)
  BY <1>1
<1> DEFINE head == SubSeq(rest, 1, n)
           part == SubSeq(rest[n + 1], 1, k)
           left == SubSeq(rest[n + 1], k + 1, Len(rest[n + 1]))
           tail == SubSeq(rest, n + 2, Len(rest))
<1>3. /\ head \in Seq(Seq(Piece)) /\ Len(head) = n /\ \A i \in 1..n : head[i] = rest[i]
  BY <1>1
<1>4. part \in Seq(Piece) /\ left \in Seq(Piece)
  BY <1>2
<1>5. /\ tail \in Seq(Seq(Piece)) /\ Len(tail) = Len(rest) - n - 1
      /\ \A i \in 1..Len(rest) - n - 1 : tail[i] = rest[n + 1 + i]
  BY <1>1
<1>6. Taken(n, k) = Append(head, part) /\ Left(n, k) = <<left>> \o tail
  BY DEF Taken, Left
<1> HIDE DEF head, part, left, tail
<1>7. /\ \A i \in 1..n : Append(head, part)[i] = head[i]
      /\ Append(head, part)[n + 1] = part
  BY <1>3, <1>4
<1>8. <<left>> \in Seq(Seq(Piece)) /\ Len(<<left>>) = 1 /\ <<left>>[1] = left
  BY <1>4
<1>9. (<<left>> \o tail)[1] = left
  BY <1>5, <1>8
<1>10. ASSUME NEW i \in 2..Len(rest) - n PROVE (<<left>> \o tail)[i] = rest[n + i]
  <2>1. (<<left>> \o tail)[i] = tail[i - 1]
    BY SMTT(60), <1>1, <1>5, <1>8
  <2>2. i - 1 \in 1..Len(rest) - n - 1 /\ n + 1 + (i - 1) = n + i
    BY <1>1
  <2> QED
    BY <1>5, <2>1, <2>2
<1> QED
  BY <1>3, <1>6, <1>7, <1>9, <1>10 DEF part, left

\* Pieces of a chunk before decoding are pieces of the file.
LEMMA TakenLike ==
  ASSUME TypeInv, RestInv, KeptInv, parser = "open",
         NEW n \in Nat, n < Len(rest), NEW k \in 0..Len(rest[n + 1]), NEW i \in 1..n + 1
  PROVE  /\ Taken(n, k)[i] \in Seq(Piece) /\ Len(Taken(n, k)[i]) = IF i = n + 1 THEN k ELSE Len(rest[i])
         /\ \A j \in 1..Len(Taken(n, k)[i]) :
              Taken(n, k)[i][j] = rest[i][j] /\ rest[i][j] = file[Sent + i][Behind(i) + j]
         /\ rest[i] \in Seq(Piece) /\ Len(rest[i]) + Behind(i) = Len(file[Sent + i])
         /\ \A j \in 1..Len(rest[i]) : rest[i][j] = file[Sent + i][Behind(i) + j]
<1>1. /\ rest \in Seq(Seq(Piece)) /\ Len(rest) \in Nat \ {0} /\ Sent \in Nat /\ Kept \in Seq(Piece)
      /\ \A m \in 1..Len(rest) : rest[m] \in Seq(Piece)
  BY FileLines
<1>2. i \in 1..Len(rest) /\ rest[i] \in Seq(Piece) /\ n + 1 \in 1..Len(rest) /\ Len(rest[i]) \in Nat
  BY <1>1
<1>3. /\ Len(rest[i]) + Behind(i) = Len(file[Sent + i])
      /\ \A j \in 1..Len(rest[i]) : rest[i][j] = file[Sent + i][Behind(i) + j]
  <2>1. CASE i = 1
    <3>1. Behind(i) = Len(Kept)
      BY <2>1 DEF Behind
    <3>2. Len(Kept) + Len(rest[1]) = Len(file[Sent + 1]) /\ Len(Kept) \in Nat /\ Len(rest[1]) \in Nat
      BY <1>1, <1>2, <2>1 DEF KeptInv
    <3>3. \A j \in 1..Len(rest[1]) : rest[1][j] = file[Sent + 1][Len(Kept) + j]
      BY DEF KeptInv
    <3>4. Len(rest[1]) + Len(Kept) = Len(file[Sent + 1])
      BY <3>2
    <3> QED
      BY <2>1, <3>1, <3>3, <3>4, Zenon
  <2>2. CASE i # 1
    <3>1. Behind(i) = 0 /\ rest[i] = file[Sent + i]
      BY <1>2, <2>2 DEF Behind, RestInv
    <3>2. \A j \in 1..Len(rest[i]) : 0 + j = j
      OBVIOUS
    <3> QED
      BY <1>2, <3>1, <3>2
  <2> QED
    BY <2>1, <2>2
<1>4. CASE i <= n
  <2>1. i \in 1..n
    BY <1>4
  <2>2. Taken(n, k)[i] = rest[i]
    <3>1. \A m \in 1..n : Taken(n, k)[m] = rest[m]
      BY TakenLines
    <3> QED
      BY <2>1, <3>1
  <2>3. i # n + 1
    BY <1>4
  <2> QED
    BY <1>2, <1>3, <2>2, <2>3
<1>5. CASE i = n + 1
  <2>1. Taken(n, k)[i] = SubSeq(rest[i], 1, k) /\ k \in 0..Len(rest[i])
    BY <1>5, TakenLines
  <2>2. /\ SubSeq(rest[i], 1, k) \in Seq(Piece) /\ Len(SubSeq(rest[i], 1, k)) = k
        /\ \A j \in 1..k : SubSeq(rest[i], 1, k)[j] = rest[i][j] /\ j \in 1..Len(rest[i])
    BY <1>2, <2>1
  <2> QED
    BY <1>2, <1>3, <1>5, <2>1, <2>2
<1> QED
  BY <1>4, <1>5

LEMMA DecodedLines ==
  ASSUME NEW t \in Text, NEW i \in 1..Len(t)
  PROVE  /\ Len(Decoded(t)[i]) = Len(t[i])
         /\ \A j \in 1..Len(t[i]) :
              \/ Decoded(t)[i][j] = t[i][j]
              \/ /\ Decoded(t)[i][j] = "bad"
                 /\ ((t[i][j] = "lead" /\ j = Len(t[i])) \/ (t[i][j] = "cont" /\ j = 1))
<1>1. DOMAIN t = 1..Len(t) /\ t[i] \in Seq(Piece)
  BY LinesOfText
<1>2. DOMAIN t[i] = 1..Len(t[i]) /\ Len(t[i]) \in Nat
  BY <1>1
<1>3. Decoded(t)[i] = [j \in 1..Len(t[i]) |->
        IF (t[i][j] = "lead" /\ j = Len(t[i])) \/ (t[i][j] = "cont" /\ j = 1) THEN "bad" ELSE t[i][j]]
  BY <1>1, <1>2 DEF Decoded
<1>4. Len(Decoded(t)[i]) = Len(t[i])
  BY <1>2, <1>3
<1>5. ASSUME NEW j \in 1..Len(t[i])
      PROVE  \/ Decoded(t)[i][j] = t[i][j]
             \/ /\ Decoded(t)[i][j] = "bad"
                /\ ((t[i][j] = "lead" /\ j = Len(t[i])) \/ (t[i][j] = "cont" /\ j = 1))
  <2>1. Decoded(t)[i][j] =
          IF (t[i][j] = "lead" /\ j = Len(t[i])) \/ (t[i][j] = "cont" /\ j = 1) THEN "bad" ELSE t[i][j]
    BY <1>3
  <2>2. CASE (t[i][j] = "lead" /\ j = Len(t[i])) \/ (t[i][j] = "cont" /\ j = 1)
    BY <2>1, <2>2, Zenon
  <2>3. CASE ~((t[i][j] = "lead" /\ j = Len(t[i])) \/ (t[i][j] = "cont" /\ j = 1))
    BY <2>1, <2>3, Zenon
  <2> QED
    BY <2>2, <2>3
<1> QED
  BY <1>4, <1>5

\* What decoding a chunk loses are the two halves of a character it was cut in.
LEMMA ChunkLike ==
  ASSUME TypeInv, RestInv, KeptInv, parser = "open",
         NEW n \in Nat, n < Len(rest), NEW k \in 0..Len(rest[n + 1]), SendChunk(n, k), NEW i \in 1..n + 1
  PROVE  /\ Chunk(n, k)[i] \in Seq(Piece) /\ Len(Chunk(n, k)[i]) = Len(Taken(n, k)[i])
         /\ \A j \in 1..Len(Chunk(n, k)[i]) :
              \/ Chunk(n, k)[i][j] = file[Sent + i][Behind(i) + j]
              \/ /\ Lost(Sent + i, cuts') /\ Chunk(n, k)[i][j] = "bad"
                 /\ file[Sent + i][Behind(i) + j] \in {"lead", "cont"}
<1>1. Taken(n, k) \in Text /\ Len(Taken(n, k)) = n + 1
  BY TakenType DEF TypeInv, TypeOK
<1>2. /\ Taken(n, k)[i] \in Seq(Piece) /\ Len(Taken(n, k)[i]) = IF i = n + 1 THEN k ELSE Len(rest[i])
      /\ \A j \in 1..Len(Taken(n, k)[i]) :
           Taken(n, k)[i][j] = rest[i][j] /\ rest[i][j] = file[Sent + i][Behind(i) + j]
      /\ rest[i] \in Seq(Piece) /\ Len(rest[i]) + Behind(i) = Len(file[Sent + i])
      /\ \A j \in 1..Len(rest[i]) : rest[i][j] = file[Sent + i][Behind(i) + j]
  BY TakenLike
<1>3. CASE format # "ndjson"
  BY <1>2, <1>3 DEF Chunk
<1>4. CASE format = "ndjson"
  <2>1. Chunk(n, k) = Decoded(Taken(n, k))
    BY <1>4 DEF Chunk
  <2>2. i \in 1..Len(Taken(n, k))
    BY <1>1
  <2>3. Chunk(n, k)[i] \in Seq(Piece)
    <3>1. Decoded(Taken(n, k)) \in Text /\ Len(Decoded(Taken(n, k))) = n + 1
      BY <1>1, DecodedType
    <3> QED
      BY <2>1, <3>1, LinesOfText
  <2>4. /\ Len(Chunk(n, k)[i]) = Len(Taken(n, k)[i])
        /\ \A j \in 1..Len(Taken(n, k)[i]) :
              \/ Chunk(n, k)[i][j] = Taken(n, k)[i][j]
              \/ /\ Chunk(n, k)[i][j] = "bad"
                 /\ ((Taken(n, k)[i][j] = "lead" /\ j = Len(Taken(n, k)[i])) \/ (Taken(n, k)[i][j] = "cont" /\ j = 1))
    BY <1>1, <2>1, <2>2, DecodedLines
  <2>5. ASSUME NEW j \in 1..Len(Taken(n, k)[i]),
               ((Taken(n, k)[i][j] = "lead" /\ j = Len(Taken(n, k)[i])) \/ (Taken(n, k)[i][j] = "cont" /\ j = 1)),
               WholeCharacters
        PROVE  Sent + i \in cuts'
    <3> DEFINE line == file[Sent + i]
               at == Behind(i) + j
    <3>1. /\ file \in Files /\ "ndjson" \in Formats
      BY <1>4 DEF TypeInv, TypeOK
    <3>2. /\ Sent \in Nat /\ Sent + Len(rest) = Len(file) /\ Len(rest) \in Nat /\ file \in Seq(Seq(Piece))
          /\ Kept \in Seq(Piece)
      BY FileLines
    <3>3. Sent + i \in DOMAIN file /\ line \in Seq(Piece)
      BY <3>2
    <3>4. Behind(i) \in Nat /\ Len(rest[i]) \in Nat /\ Len(line) \in Nat
      <4>1. Len(Kept) \in Nat /\ rest[i] \in Seq(Piece)
        BY <1>2, <3>2
      <4>2. Behind(i) \in Nat
        BY <4>1 DEF Behind
      <4>3. Len(rest[i]) \in Nat
        BY <4>1
      <4>4. Len(line) \in Nat
        BY <3>3
      <4> QED
        BY <4>2, <4>3, <4>4
    <3>5. j \in 1..Len(rest[i]) /\ rest[i][j] = line[at] /\ Taken(n, k)[i][j] = line[at]
      BY <1>2, <3>4
    <3>6. at \in 1..Len(line)
      <4>1. Len(rest[i]) + Behind(i) = Len(line) /\ j \in 1..Len(rest[i])
        BY <1>2, <3>5
      <4> HIDE DEF line
      <4> QED
        BY <3>4, <4>1
    <3>7. /\ line[at] = "lead" => at < Len(line) /\ line[at + 1] = "cont"
          /\ line[at] = "cont" => at > 1 /\ line[at - 1] = "lead"
      <4>1. at \in DOMAIN line
        BY <3>3, <3>6
      <4> QED
        BY <2>5, <3>1, <3>3, <4>1 DEF WholeCharacters
    <3>8. CASE Taken(n, k)[i][j] = "lead" /\ j = Len(Taken(n, k)[i])
      <4>1. at < Len(line) /\ line[at + 1] = "cont"
        BY <3>5, <3>7, <3>8
      <4>2. j < Len(rest[i])
        BY <1>2, <3>4, <4>1
      <4>3. i = n + 1 /\ j = k
        BY <1>2, <3>8, <4>2
      <4>4. rest[i][j + 1] = "cont"
        <5>1. j + 1 \in 1..Len(rest[i]) /\ Behind(i) + (j + 1) = at + 1
          BY <3>4, <4>2
        <5> QED
          BY <1>2, <4>1, <5>1
      <4>5. Cut(n, k)
        BY <3>4, <3>5, <3>8, <4>2, <4>3, <4>4 DEF Cut
      <4>6. Sent + n + 1 \in cuts'
        BY <4>5 DEF SendChunk, Sent
      <4> QED
        BY <3>2, <4>3, <4>6
    <3>9. CASE Taken(n, k)[i][j] = "cont" /\ j = 1
      <4>1. at > 1
        BY <3>5, <3>7, <3>9
      <4>2. i = 1 /\ Kept # <<>>
        BY <3>4, <3>9, <4>1 DEF Behind
      <4>3. rest[1] # <<>> /\ rest[1][1] = "cont"
        BY <3>5, <3>9, <4>2
      <4>4. Damaged(Sent + 1)
        BY <1>4, <4>2, <4>3 DEF KeptInv
      <4>5. Sent + 1 \in cuts /\ cuts \subseteq cuts'
        BY <2>5, <4>4 DEF Damaged, Lost, SendChunk
      <4> QED
        BY <4>2, <4>5
    <3> QED
      BY <2>5, <3>8, <3>9
  <2>6. ASSUME NEW j \in 1..Len(Chunk(n, k)[i])
        PROVE  \/ Chunk(n, k)[i][j] = file[Sent + i][Behind(i) + j]
               \/ /\ Lost(Sent + i, cuts') /\ Chunk(n, k)[i][j] = "bad"
                  /\ file[Sent + i][Behind(i) + j] \in {"lead", "cont"}
    <3>1. j \in 1..Len(Taken(n, k)[i])
      BY <2>4
    <3>2. Taken(n, k)[i][j] = file[Sent + i][Behind(i) + j]
      BY <1>2, <3>1
    <3>3. CASE Chunk(n, k)[i][j] = Taken(n, k)[i][j]
      BY <3>2, <3>3
    <3>4. CASE /\ Chunk(n, k)[i][j] = "bad"
               /\ ((Taken(n, k)[i][j] = "lead" /\ j = Len(Taken(n, k)[i])) \/ (Taken(n, k)[i][j] = "cont" /\ j = 1))
      <4>1. WholeCharacters => Sent + i \in cuts'
        BY <2>5, <3>1, <3>4
      <4>2. Lost(Sent + i, cuts')
        BY <1>4, <4>1 DEF Lost
      <4>3. file[Sent + i][Behind(i) + j] \in {"lead", "cont"}
        BY <3>2, <3>4
      <4> QED
        BY <3>4, <4>2, <4>3
    <3> QED
      BY <2>4, <3>1, <3>3, <3>4
  <2> QED
    BY <2>3, <2>4, <2>6
<1> QED
  BY <1>3, <1>4

LEMMA JoinLines ==
  ASSUME NEW s \in Text, NEW t \in Text
  PROVE  /\ \A m \in 1..Len(s) - 1 : Join(s, t)[m] = s[m]
         /\ Join(s, t)[Len(s)] = s[Len(s)] \o t[1]
         /\ \A i \in 2..Len(t) : Join(s, t)[Len(s) + i - 1] = t[i]
<1> DEFINE len == Len(s) + Len(t) - 1
           line(n) == IF n < Len(s) THEN s[n] ELSE IF n = Len(s) THEN s[n] \o t[1] ELSE t[n - Len(s) + 1]
<1>1. Len(s) \in Nat \ {0} /\ Len(t) \in Nat \ {0}
  BY LinesOfText
<1>2. \A n \in 1..len : Join(s, t)[n] = line(n)
  BY DEF Join
<1>3. ASSUME NEW m \in 1..Len(s) - 1 PROVE Join(s, t)[m] = s[m]
  <2>1. m \in 1..len /\ m < Len(s)
    BY <1>1
  <2> QED
    BY <1>2, <2>1
<1>4. Join(s, t)[Len(s)] = s[Len(s)] \o t[1]
  <2>1. Len(s) \in 1..len /\ ~(Len(s) < Len(s))
    BY <1>1
  <2> QED
    BY <1>2, <2>1
<1>5. ASSUME NEW i \in 2..Len(t) PROVE Join(s, t)[Len(s) + i - 1] = t[i]
  <2> DEFINE m == Len(s) + i - 1
  <2>1. m \in 1..len /\ ~(m < Len(s)) /\ m # Len(s) /\ m - Len(s) + 1 = i
    BY <1>1
  <2>2. Join(s, t)[m] = line(m)
    BY <1>2, <2>1
  <2>3. line(m) = t[m - Len(s) + 1]
    BY <2>1
  <2> QED
    BY <2>1, <2>2, <2>3
<1> QED
  BY <1>3, <1>4, <1>5

\* What is in the buffer and in a chunk, line by line.
Arrived(n, k, i) == Join(buffer, Chunk(n, k))[Len(buffer) + i - 1]

LEMMA ArrivedLike ==
  ASSUME TypeInv, RestInv, KeptInv, parser = "open",
         NEW n \in Nat, n < Len(rest), NEW k \in 0..Len(rest[n + 1]), SendChunk(n, k), NEW i \in 1..n + 1
  PROVE  /\ Arrived(n, k, i) \in Seq(Piece)
         /\ Len(Arrived(n, k, i)) = Behind(i) + (IF i = n + 1 THEN k ELSE Len(rest[i]))
         /\ \A j \in 1..Len(Arrived(n, k, i)) :
              \/ Arrived(n, k, i)[j] = file[Sent + i][j]
              \/ /\ Lost(Sent + i, cuts') /\ Arrived(n, k, i)[j] = "bad"
                 /\ file[Sent + i][j] \in {"lead", "cont"}
<1> DEFINE c == Chunk(n, k)
           a == Arrived(n, k, i)
<1>1. buffer \in Text /\ Kept \in Seq(Piece) /\ Len(buffer) \in Nat \ {0}
  BY FileLines DEF TypeInv, TypeOK
<1>2. c \in Text /\ Len(c) = n + 1
  <2>1. Taken(n, k) \in Text /\ Len(Taken(n, k)) = n + 1
    BY TakenType DEF TypeInv, TypeOK
  <2> QED
    BY <2>1, DecodedType DEF Chunk
<1>3. /\ c[i] \in Seq(Piece) /\ Len(c[i]) = IF i = n + 1 THEN k ELSE Len(rest[i])
      /\ \A j \in 1..Len(c[i]) :
           \/ c[i][j] = file[Sent + i][Behind(i) + j]
           \/ /\ Lost(Sent + i, cuts') /\ c[i][j] = "bad"
              /\ file[Sent + i][Behind(i) + j] \in {"lead", "cont"}
  <2>1. Len(Taken(n, k)[i]) = IF i = n + 1 THEN k ELSE Len(rest[i])
    BY TakenLike
  <2>2. /\ c[i] \in Seq(Piece) /\ Len(c[i]) = Len(Taken(n, k)[i])
        /\ \A j \in 1..Len(c[i]) :
             \/ c[i][j] = file[Sent + i][Behind(i) + j]
             \/ /\ Lost(Sent + i, cuts') /\ c[i][j] = "bad"
                /\ file[Sent + i][Behind(i) + j] \in {"lead", "cont"}
    BY ChunkLike
  <2> HIDE DEF c
  <2> QED
    BY <2>1, <2>2
<1>4. CASE i # 1
  <2>1. i \in 2..Len(c)
    BY <1>2, <1>4
  <2>2. a = c[i]
    BY <1>1, <1>2, <2>1, JoinLines DEF Arrived
  <2>3. Behind(i) = 0 /\ Len(c[i]) \in Nat
    BY <1>3, <1>4 DEF Behind
  <2>4. \A j \in 1..Len(c[i]) : 0 + j = j
    OBVIOUS
  <2> HIDE DEF c, a
  <2>5. Len(a) = Behind(i) + (IF i = n + 1 THEN k ELSE Len(rest[i]))
    BY <1>3, <2>2, <2>3
  <2>6. \A j \in 1..Len(a) :
           \/ a[j] = file[Sent + i][j]
           \/ Lost(Sent + i, cuts') /\ a[j] = "bad" /\ file[Sent + i][j] \in {"lead", "cont"}
    BY <1>3, <2>2, <2>3, <2>4
  <2> QED
    BY <1>3, <2>2, <2>5, <2>6 DEF a
<1>5. CASE i = 1
  <2>1. a = Kept \o c[1]
    <3>1. Len(buffer) + i - 1 = Len(buffer)
      BY <1>1, <1>5
    <3>2. Join(buffer, c)[Len(buffer)] = buffer[Len(buffer)] \o c[1]
      BY <1>1, <1>2, JoinLines
    <3>3. a = Join(buffer, c)[Len(buffer) + i - 1]
      BY DEF Arrived
    <3> HIDE DEF c, a
    <3> QED
      BY <3>1, <3>2, <3>3 DEF Kept
  <2>2. Behind(1) = Len(Kept) /\ Len(Kept) \in Nat
    BY <1>1 DEF Behind
  <2> HIDE DEF c, a
  <2>3. /\ a \in Seq(Piece) /\ Len(a) = Len(Kept) + Len(c[1]) /\ Len(c[1]) \in Nat
        /\ \A j \in 1..Len(Kept) : a[j] = Kept[j]
        /\ \A j \in 1..Len(c[1]) : a[Len(Kept) + j] = c[1][j]
    BY <1>1, <1>3, <1>5, <2>1
  <2>4. ASSUME NEW j \in 1..Len(a)
        PROVE  \/ a[j] = file[Sent + 1][j]
               \/ Lost(Sent + 1, cuts') /\ a[j] = "bad" /\ file[Sent + 1][j] \in {"lead", "cont"}
    <3>1. CASE j \in 1..Len(Kept)
      <4>1. \/ Kept[j] = file[Sent + 1][j]
            \/ Damaged(Sent + 1) /\ Kept[j] = "bad" /\ file[Sent + 1][j] \in {"lead", "cont"}
        BY <3>1 DEF KeptInv, Like, LikeBut, Damaged
      <4>2. Damaged(Sent + 1) => Lost(Sent + 1, cuts')
        BY DEF Damaged, Lost, SendChunk
      <4> QED
        BY <2>3, <3>1, <4>1, <4>2
    <3>2. CASE j \notin 1..Len(Kept)
      <4>1. PICK m \in 1..Len(c[1]) : j = Len(Kept) + m
        <5>1. j - Len(Kept) \in 1..Len(c[1]) /\ j = Len(Kept) + (j - Len(Kept))
          BY <2>2, <2>3, <3>2
        <5> QED
          BY <5>1
      <4>2. a[j] = c[1][m]
        BY <2>3, <4>1
      <4> QED
        BY <1>3, <1>5, <2>2, <4>1, <4>2
    <3> QED
      BY <3>1, <3>2
  <2>5. Len(a) = Behind(i) + (IF i = n + 1 THEN k ELSE Len(rest[i]))
    BY <1>3, <1>5, <2>2, <2>3
  <2> QED
    BY <1>5, <2>3, <2>4, <2>5 DEF a
<1> QED
  BY <1>4, <1>5

LEMMA SendText ==
  ASSUME TypeInv, EndInv, TextInv, TypeInv',
         NEW n \in Nat, n < Len(rest), NEW k \in 0..Len(rest[n + 1]), SendChunk(n, k)
  PROVE  TextInv'
<1> DEFINE a(i) == Arrived(n, k, i)
           text == Join(buffer, Chunk(n, k))
<1>0. RestInv /\ KeptInv /\ LineInv
  BY DEF TextInv
<1>1. /\ source = "open" /\ lines = <<>> /\ n + k > 0 /\ rest' = Left(n, k)
      /\ cuts' = IF Cut(n, k) THEN cuts \cup {Len(file) - Len(rest) + n + 1} ELSE cuts
      /\ UNCHANGED <<format, file, source, lineNumber, parser, loop>>
  BY DEF SendChunk, loopVars
<1>2. parser = "open"
  BY <1>1 DEF EndInv, TypeInv, TypeOK
<1>3. /\ Len(file) \in Nat \ {0} /\ Len(rest) \in Nat \ {0} /\ Sent \in Nat /\ Sent + Len(rest) = Len(file)
      /\ rest[n + 1] \in Seq(Piece) /\ buffer \in Text /\ Len(buffer) \in Nat \ {0}
      /\ Kept \in Seq(Piece)
  <2>1. buffer \in Text
    BY DEF TypeInv, TypeOK
  <2>2. n + 1 \in 1..Len(rest)
    BY FileLines
  <2> QED
    BY <2>1, <2>2, FileLines
<1>4. Len(rest') = Len(rest) - n
  BY <1>1, TakenType DEF TypeInv, TypeOK
<1>5. Sent' = Sent + n
  BY <1>1, <1>3, <1>4 DEF Sent
<1>6. /\ rest'[1] = SubSeq(rest[n + 1], k + 1, Len(rest[n + 1]))
      /\ \A i \in 2..Len(rest') : rest'[i] = rest[n + i]
  BY <1>1, <1>4, TakenLines
<1>7. RestInv'
  <2>1. ASSUME NEW i \in 2..Len(rest') PROVE rest'[i] = file'[Sent' + i]
    <3>1. n + i \in 2..Len(rest) /\ Sent + (n + i) = Sent' + i
      BY <1>3, <1>4, <1>5
    <3>2. rest[n + i] = file[Sent + (n + i)]
      BY <1>0, <3>1 DEF RestInv
    <3>3. rest'[i] = rest[n + i]
      BY <1>6
    <3> QED
      BY <1>1, <3>1, <3>2, <3>3
  <2> QED
    BY <1>1, <2>1 DEF RestInv
<1>8. ASSUME NEW i \in 1..n + 1
      PROVE  /\ a(i) \in Seq(Piece) /\ Len(a(i)) = Behind(i) + (IF i = n + 1 THEN k ELSE Len(rest[i]))
             /\ Len(rest[i]) + Behind(i) = Len(file[Sent + i]) /\ Len(rest[i]) \in Nat /\ Behind(i) \in Nat
             /\ \A j \in 1..Len(a(i)) :
                  \/ a(i)[j] = file[Sent + i][j]
                  \/ Lost(Sent + i, cuts') /\ a(i)[j] = "bad" /\ file[Sent + i][j] \in {"lead", "cont"}
             /\ \A j \in 1..Len(rest[i]) : rest[i][j] = file[Sent + i][Behind(i) + j]
  <2>1. /\ a(i) \in Seq(Piece) /\ Len(a(i)) = Behind(i) + (IF i = n + 1 THEN k ELSE Len(rest[i]))
        /\ \A j \in 1..Len(a(i)) :
             \/ a(i)[j] = file[Sent + i][j]
             \/ Lost(Sent + i, cuts') /\ a(i)[j] = "bad" /\ file[Sent + i][j] \in {"lead", "cont"}
    BY <1>0, <1>2, ArrivedLike
  <2>2. /\ rest[i] \in Seq(Piece) /\ Len(rest[i]) + Behind(i) = Len(file[Sent + i])
        /\ \A j \in 1..Len(rest[i]) : rest[i][j] = file[Sent + i][Behind(i) + j]
    BY <1>0, <1>2, TakenLike
  <2>3. Len(rest[i]) \in Nat /\ Len(Kept) \in Nat
    BY <1>3, <2>2
  <2>4. Behind(i) \in Nat
    BY <2>3 DEF Behind
  <2> HIDE DEF a
  <2> QED
    BY <2>1, <2>2, <2>3, <2>4
<1>9. text \in Text /\ Len(text) = Len(buffer) + n
  <2>1. Taken(n, k) \in Text /\ Len(Taken(n, k)) = n + 1
    BY TakenType DEF TypeInv, TypeOK
  <2>2. Chunk(n, k) \in Text /\ Len(Chunk(n, k)) = n + 1
    BY <2>1, DecodedType DEF Chunk
  <2> QED
    BY <1>3, <2>2, JoinType
<1>10. \A i \in 1..n + 1 : a(i) = text[Len(buffer) + i - 1]
  BY DEF Arrived
<1>11. IF format = "json" THEN buffer' = text /\ lines' = lines
       ELSE buffer' = <<text[Len(text)]>> /\ lines' = SubSeq(text, 1, Len(text) - 1) /\ Len(buffer) = 1
  BY DEF SendChunk, Chunk, TypeInv, TypeOK
<1>e. n + 1 \in 1..n + 1 /\ Len(buffer) + (n + 1) - 1 = Len(text)
  BY <1>3, <1>9
<1> HIDE DEF a, text
<1>12. Kept' = a(n + 1)
  <2>1. a(n + 1) = text[Len(text)]
    BY <1>10, <1>e
  <2>2. CASE format = "json"
    BY <1>11, <2>1, <2>2 DEF Kept
  <2>3. CASE format # "json"
    <3>1. buffer' = <<text[Len(text)]>> /\ Len(buffer') = 1
      BY <1>11, <2>3
    <3> QED
      BY <2>1, <3>1 DEF Kept
  <2> QED
    BY <2>2, <2>3
<1>13. ASSUME NEW i \in 1..n + 1 PROVE LikeBut(a(i), Sent + i, cuts')
  BY <1>8 DEF LikeBut
<1>14. ASSUME NEW i \in 1..n
       PROVE  Sent + i \in 1..Len(file) /\ Len(a(i)) = Len(file[Sent + i])
  <2>1. i \in 1..n + 1 /\ i # n + 1 /\ Sent + i \in 1..Len(file)
    BY <1>3
  <2>2. Len(a(i)) = Behind(i) + Len(rest[i])
    BY <1>8, <2>1
  <2>3. Len(rest[i]) + Behind(i) = Len(file[Sent + i]) /\ Len(rest[i]) \in Nat /\ Behind(i) \in Nat
    BY <1>8, <2>1
  <2> QED
    BY <2>1, <2>2, <2>3
<1>15. LineInv'
  <2>1. parser' = "open" /\ Running' = Running
    BY <1>1, <1>2 DEF Running
  <2>2. CASE format = "json"
    <3>1. lines' = <<>> /\ lineNumber' = 0
      BY <1>0, <1>1, <1>2, <1>11, <2>2 DEF LineInv
    <3>2. Len(lines') = 0
      BY <3>1
    <3> QED
      BY <1>1, <2>1, <2>2, <3>1, <3>2 DEF LineInv
  <2>3. CASE format # "json"
    <3>1. lines' = SubSeq(text, 1, Len(text) - 1) /\ Len(buffer) = 1 /\ Len(text) = n + 1
      <4>1. lines' = SubSeq(text, 1, Len(text) - 1) /\ Len(buffer) = 1
        BY <1>11, <2>3
      <4>2. Len(text) = n + 1
        BY <1>9, <4>1
      <4> QED
        BY <4>1, <4>2
    <3>2. text \in Seq(Seq(Piece))
      BY <1>9, LinesOfText
    <3>3. Len(lines') = n /\ \A j \in 1..n : lines'[j] = text[j]
      BY <3>1, <3>2
    <3>4. lineNumber = Sent
      <4>1. lineNumber + Len(lines) = Sent
        BY <1>0, <1>2, <2>3 DEF LineInv
      <4>2. Len(lines) = 0 /\ lineNumber \in Nat
        BY <1>1 DEF TypeInv, TypeOK
      <4> QED
        BY <4>1, <4>2
    <3>5. ASSUME NEW j \in 1..Len(lines')
          PROVE  /\ lineNumber' + j \in 1..Len(file') /\ Len(lines'[j]) = Len(file'[lineNumber' + j])
                 /\ LikeBut(lines'[j], lineNumber' + j, cuts')
      <4>1. j \in 1..n /\ j \in 1..n + 1
        BY <3>3
      <4>2. lines'[j] = a(j)
        <5>1. Len(buffer) + j - 1 = j
          BY <3>1
        <5>2. a(j) = text[j]
          BY <1>10, <4>1, <5>1
        <5> QED
          BY <3>3, <4>1, <5>2
      <4>3. lineNumber' + j = Sent + j /\ file' = file
        BY <1>1, <3>4
      <4> QED
        BY <1>13, <1>14, <4>1, <4>2, <4>3
    <3>6. \A j \in 1..Len(lines') : WholeLine(lines[j], lineNumber + j)'
      BY <1>1, <3>5 DEF WholeLine, Like, LikeBut, Lost
    <3>7. lineNumber' + Len(lines') = Sent'
      BY <1>1, <1>5, <3>3, <3>4
    <3> QED
      BY <1>1, <2>1, <2>3, <3>6, <3>7 DEF LineInv
  <2> QED
    BY <2>2, <2>3
<1>16. KeptInv'
  <2>1. n + 1 \in 1..n + 1 /\ Sent' + 1 = Sent + (n + 1)
    BY <1>3, <1>5
  <2>l. PICK line : line = file[Sent + (n + 1)]
    OBVIOUS
  <2>b. PICK at \in Nat : at = Behind(n + 1)
    BY <1>8, <2>1
  <2>2. /\ Len(a(n + 1)) = at + k /\ Len(rest[n + 1]) + at = Len(line)
        /\ at \in Nat /\ Len(rest[n + 1]) \in Nat
        /\ \A j \in 1..Len(rest[n + 1]) : rest[n + 1][j] = line[at + j]
        /\ a(n + 1) \in Seq(Piece)
    BY <1>8, <2>1, <2>l, <2>b
  <2>3. file'[Sent' + 1] = line /\ file' = file
    BY <1>1, <2>1, <2>l
  <2>4. /\ Len(rest'[1]) = Len(rest[n + 1]) - k
        /\ \A j \in 1..Len(rest'[1]) : rest'[1][j] = rest[n + 1][k + j] /\ k + j \in 1..Len(rest[n + 1])
    <3> DEFINE r == rest[n + 1]
    <3>1. r \in Seq(Piece) /\ k \in 0..Len(r) /\ rest'[1] = SubSeq(r, k + 1, Len(r))
      BY <1>3, <1>6
    <3> HIDE DEF r
    <3>2. /\ Len(rest'[1]) = Len(r) - k
          /\ \A j \in 1..Len(rest'[1]) : rest'[1][j] = r[k + j] /\ k + j \in 1..Len(r)
      <4>1. Len(r) \in Nat
        BY <3>1
      <4> QED
        BY <3>1, <4>1
    <3> QED
      BY <3>2 DEF r
  <2>k. Len(Kept') = at + k
    BY <1>12, <2>2
  <2>5. Len(Kept') + Len(rest'[1]) = Len(file'[Sent' + 1])
    <3>1. PICK l \in Nat : l = Len(rest[n + 1])
      BY <2>2
    <3>2. l + at = Len(line) /\ Len(rest'[1]) = l - k /\ k \in Int
      BY <2>2, <2>4, <3>1
    <3>3. Len(Kept') + Len(rest'[1]) = Len(line)
      BY <2>k, <3>2
    <3> QED
      BY <2>3, <3>3
  <2>6. \A j \in 1..Len(rest'[1]) : rest'[1][j] = file'[Sent' + 1][Len(Kept') + j]
    <3> SUFFICES ASSUME NEW j \in 1..Len(rest'[1]) PROVE rest'[1][j] = line[Len(Kept') + j]
      BY <2>3
    <3>1. at + (k + j) = Len(Kept') + j
      BY <2>2, <2>k
    <3> QED
      BY <2>2, <2>4, <3>1
  <2>7. Like(Kept, Sent + 1)'
    <3>1. LikeBut(Kept', Sent' + 1, cuts')
      BY <1>12, <1>13, <2>1
    <3> QED
      BY <1>1, <3>1 DEF Like, LikeBut, Lost
  <2>8. ASSUME format' = "ndjson", Kept' # <<>>, rest'[1] # <<>>, rest'[1][1] = "cont", WholeCharacters
        PROVE  Sent' + 1 \in cuts'
    <3>1. Len(rest'[1]) \in Nat \ {0}
      <4>1. rest'[1] \in Seq(Piece)
        BY <1>3, <1>6
      <4> QED
        BY <2>8, <4>1
    <3>2. rest[n + 1][k + 1] = "cont" /\ k + 1 \in 1..Len(rest[n + 1])
      BY <2>4, <2>8, <3>1
    <3>3. k > 0
      <4> SUFFICES ASSUME k = 0 PROVE FALSE
        OBVIOUS
      <4>1. n + 1 # 1
        BY <1>1
      <4>2. at = 0
        BY <2>b, <4>1 DEF Behind
      <4>3. Len(Kept') = 0
        BY <1>12, <2>2, <4>2
      <4> QED
        BY <1>12, <2>2, <2>8, <4>3
    <3>4. rest[n + 1][k] = "lead"
      <4>1. file \in Files /\ "ndjson" \in Formats
        BY <1>1, <2>8 DEF TypeInv, TypeOK
      <4>2. Sent + (n + 1) \in DOMAIN file /\ line \in Seq(Piece)
        <5>1. Sent + (n + 1) \in 1..Len(file)
          BY <1>3
        <5> QED
          BY <2>l, <5>1, FileLines
      <4>3. at + (k + 1) \in DOMAIN line /\ line[at + (k + 1)] = "cont"
        <5>1. at + (k + 1) \in 1..Len(line)
          BY <2>2, <3>2
        <5> QED
          BY <2>2, <3>2, <4>2, <5>1
      <4>4. line[at + (k + 1) - 1] = "lead"
        <5>1. \A m \in DOMAIN line : line[m] = "cont" => line[m - 1] = "lead"
          BY <2>8, <2>l, <4>1, <4>2 DEF WholeCharacters
        <5> QED
          BY <4>3, <5>1
      <4>5. at + (k + 1) - 1 = at + k /\ k \in 1..Len(rest[n + 1])
        BY <2>2, <3>2, <3>3
      <4> QED
        BY <2>2, <4>4, <4>5
    <3>5. Cut(n, k)
      BY <2>2, <3>2, <3>3, <3>4 DEF Cut
    <3>6. Len(file) - Len(rest) + n + 1 \in cuts'
      BY <1>1, <3>5
    <3> QED
      BY <1>5, <3>6 DEF Sent
  <2>9. format' = "ndjson" /\ Kept' # <<>> /\ rest'[1] # <<>> /\ rest'[1][1] = "cont" => Damaged(Sent + 1)'
    BY <2>8 DEF Damaged, Lost
  <2>10. ASSUME format' = "json"
         PROVE  Len(buffer') = Sent' + 1 /\ \A i \in 1..Sent' : buffer'[i] = file'[i]
    <3>1. format = "json" /\ buffer' = text
      BY <1>1, <1>11, <2>10
    <3>2. Len(buffer) = Sent + 1 /\ \A i \in 1..Sent : buffer[i] = file[i]
      BY <1>0, <1>2, <3>1 DEF KeptInv
    <3>3. Len(buffer') = Sent' + 1
      BY <1>3, <1>5, <1>9, <3>1, <3>2
    <3>4. ASSUME NEW i \in 1..Sent' PROVE buffer'[i] = file'[i]
      <4>1. CASE i <= Sent
        <5>1. i \in 1..Len(buffer) - 1 /\ i \in 1..Sent
          BY <1>3, <3>2, <4>1
        <5>2. text[i] = buffer[i]
          <6>1. Taken(n, k) \in Text /\ Len(Taken(n, k)) = n + 1
            BY TakenType DEF TypeInv, TypeOK
          <6>2. Chunk(n, k) \in Text
            BY <6>1, DecodedType DEF Chunk
          <6> QED
            BY <1>3, <5>1, <6>2, JoinLines DEF text
        <5> QED
          BY <1>1, <3>1, <3>2, <5>1, <5>2
      <4>2. CASE i > Sent
        <5>1. i - Sent \in 1..n /\ Len(buffer) + (i - Sent) - 1 = i /\ Sent + (i - Sent) = i
          <6>1. Len(buffer) = Sent + 1 /\ Sent' = Sent + n /\ Sent \in Nat
            BY <1>3, <1>5, <3>2
          <6> QED
            BY <4>2, <6>1
        <5>2. a(i - Sent) = text[i] /\ a(i - Sent) \in Seq(Piece)
          <6>1. i - Sent \in 1..n + 1
            BY <5>1
          <6>2. a(i - Sent) = text[Len(buffer) + (i - Sent) - 1]
            BY <1>10, <6>1
          <6>3. a(i - Sent) \in Seq(Piece)
            BY <1>8, <6>1
          <6> QED
            BY <5>1, <6>2, <6>3
        <5>3. Len(a(i - Sent)) = Len(file[i]) /\ i \in 1..Len(file)
          BY <1>14, <5>1
        <5>4. file[i] \in Seq(Piece)
          BY <5>3, FileLines
        <5>5. \A j \in 1..Len(a(i - Sent)) : a(i - Sent)[j] = file[i][j]
          BY <1>13, <3>1, <5>1 DEF LikeBut, Lost
        <5>6. a(i - Sent) = file[i]
          BY <5>2, <5>3, <5>4, <5>5, SeqEqual
        <5> QED
          BY <1>1, <3>1, <5>2, <5>6
      <4> QED
        BY <1>3, <1>5, <4>1, <4>2
    <3> QED
      BY <3>3, <3>4
  <2> QED
    BY <2>5, <2>6, <2>7, <2>9, <2>10 DEF KeptInv
<1> QED
  BY <1>7, <1>15, <1>16 DEF TextInv

LEMMA TextInit == Init /\ TypeInv => TextInv
<1> SUFFICES ASSUME Init, TypeInv PROVE TextInv
  OBVIOUS
<1>1. /\ rest = file /\ source = "open" /\ cuts = {} /\ buffer = << <<>> >> /\ lines = <<>>
      /\ lineNumber = 0 /\ parser = "open"
  BY DEF Init
<1>2. Len(file) \in Nat \ {0} /\ file[1] \in Seq(Piece)
  BY FileLines
<1>3. Sent = 0
  BY <1>1, <1>2 DEF Sent
<1>4. Len(buffer) = 1 /\ Kept = <<>> /\ Len(Kept) = 0
  BY <1>1 DEF Kept
<1>5. RestInv
  <2>1. \A i \in 2..Len(rest) : 0 + i = i
    OBVIOUS
  <2> QED
    BY <1>1, <1>3, <2>1 DEF RestInv
<1>6. KeptInv
  <2>1. \A j \in 1..Len(rest[1]) : Len(Kept) + j = j
    BY <1>4
  <2>2. Len(Kept) + Len(rest[1]) = Len(file[0 + 1])
    BY <1>1, <1>2, <1>4
  <2>3. Like(Kept, 0 + 1)
    BY <1>4 DEF Like, LikeBut
  <2>4. Len(buffer) = Sent + 1 /\ \A i \in 1..Sent : buffer[i] = file[i]
    BY <1>3, <1>4
  <2>5. \A j \in 1..Len(rest[1]) : rest[1][j] = file[0 + 1][Len(Kept) + j]
    BY <1>1, <2>1
  <2> QED
    BY <1>3, <1>4, <2>2, <2>3, <2>4, <2>5 DEF KeptInv
<1>7. LineInv
  <2>1. Len(lines) = 0
    BY <1>1
  <2> QED
    BY <1>1, <1>3, <2>1 DEF LineInv
<1> QED
  BY <1>5, <1>6, <1>7 DEF TextInv

\* What a parser has to keep of a text that has come to its end is the last line.
LEMMA LastLine ==
  ASSUME TypeInv, TextInv, parser = "open", source = "ended"
  PROVE  Sent + 1 = Len(file) /\ WholeLine(Kept, Len(file))
<1>1. rest = << <<>> >> /\ Len(rest) = 1 /\ Len(rest[1]) = 0
  <2>1. rest = << <<>> >>
    BY DEF TextInv, RestInv
  <2> QED
    BY <2>1
<1>2. Sent + 1 = Len(file) /\ Len(file) \in Nat \ {0} /\ Kept \in Seq(Piece)
  BY <1>1, FileLines DEF Sent
<1>3. Len(Kept) = Len(file[Len(file)]) /\ Like(Kept, Len(file))
  <2>1. Len(Kept) \in Nat
    BY <1>2
  <2> QED
    BY <1>1, <1>2, <2>1 DEF TextInv, KeptInv
<1> QED
  BY <1>2, <1>3 DEF WholeLine

LEMMA TextStep ==
  ASSUME TypeInv, EndInv, TextInv, TypeInv', [Next]_vars
  PROVE  TextInv'
<1>0. RestInv /\ KeptInv /\ LineInv
  BY DEF TextInv
<1>t. lines \in Seq(Seq(Piece)) /\ lineNumber \in Nat /\ parser \in {"open", "ended"}
  BY DEF TypeInv, TypeOK
<1>1. CASE \E n \in {m \in 0..ChunkLines : m < Len(rest)} : \E k \in 0..Len(rest[n + 1]) : SendChunk(n, k)
  <2>0. PICK n \in {m \in 0..ChunkLines : m < Len(rest)} : \E k \in 0..Len(rest[n + 1]) : SendChunk(n, k)
    BY <1>1
  <2>1. PICK k \in 0..Len(rest[n + 1]) : SendChunk(n, k)
    BY <2>0
  <2>2. n \in Nat /\ n < Len(rest)
    BY SizesAssumption
  <2> QED
    BY <2>1, <2>2, SendText
<1>2. CASE /\ UNCHANGED <<format, file, rest, buffer, lines, lineNumber, parser, cuts>>
           /\ source' = "ended" => rest = << <<>> >>
           /\ Running' => Running
  <2>1. Kept' = Kept /\ Sent' = Sent
    BY <1>2 DEF Kept, Sent
  <2>2. RestInv'
    BY <1>0, <1>2, <2>1 DEF RestInv
  <2>3. KeptInv'
    BY <1>0, <1>2, <2>1 DEF KeptInv, Like, LikeBut, Damaged, Lost
  <2>4. \A j \in 1..Len(lines) : WholeLine(lines[j], lineNumber + j)'
    BY <1>0, <1>2 DEF LineInv, WholeLine, Like, LikeBut, Lost
  <2>5. Rank(lineNumber)' = Rank(lineNumber) /\ Rank(Len(file))' = Rank(Len(file))
    BY <1>2 DEF Rank, IsRow
  <2>6. LineInv'
    BY <1>0, <1>2, <2>1, <2>4, <2>5 DEF LineInv
  <2> QED
    BY <2>2, <2>3, <2>6 DEF TextInv
<1>3. CASE ParseLine
  <2>1. /\ lines # <<>> /\ lines' = Tail(lines) /\ lineNumber' = lineNumber + 1
        /\ UNCHANGED <<format, file, rest, source, buffer, parser, cuts, loop>>
    BY <1>3 DEF ParseLine, Push, sourceVars, batchVars, loopVars
  <2>2. /\ Len(lines') = Len(lines) - 1 /\ Len(lines) \in Nat \ {0}
        /\ \A j \in 1..Len(lines') : lines'[j] = lines[j + 1] /\ j + 1 \in 1..Len(lines)
    BY <1>t, <2>1
  <2>3. Kept' = Kept /\ Sent' = Sent /\ Running' = Running
    BY <2>1 DEF Kept, Sent, Running
  <2>4. RestInv'
    BY <1>0, <2>1, <2>3 DEF RestInv
  <2>5. KeptInv'
    BY <1>0, <2>1, <2>3 DEF KeptInv, Like, LikeBut, Damaged, Lost
  <2>6. ASSUME NEW j \in 1..Len(lines') PROVE WholeLine(lines[j], lineNumber + j)'
    <3>1. WholeLine(lines[j + 1], lineNumber + (j + 1))
      BY <1>0, <2>2 DEF LineInv
    <3>2. lineNumber' + j = lineNumber + (j + 1)
      BY <1>t, <2>1
    <3> QED
      BY <2>1, <2>2, <3>1, <3>2 DEF WholeLine, Like, LikeBut, Lost
  <2>7. lineNumber' + Len(lines') = lineNumber + Len(lines)
    BY <1>t, <2>1, <2>2
  <2>8. /\ parser = "open" => format # "json" /\ lineNumber + Len(lines) = Sent
        /\ parser = "ended" => format = "json" /\ (Running => lineNumber + Len(lines) = Len(file))
    BY <1>0, <2>1 DEF LineInv
  <2>9. LineInv'
    BY <2>1, <2>3, <2>6, <2>7, <2>8 DEF LineInv
  <2> QED
    BY <2>4, <2>5, <2>9 DEF TextInv
<1>4. CASE ParserEnds
  <2>1. /\ source = "ended" /\ parser = "open" /\ parser' = "ended" /\ lines = <<>> /\ format # "json"
        /\ UNCHANGED <<format, file, rest, source, lines, cuts>> /\ Flush
    BY <1>4 DEF ParserEnds, sourceVars, batchVars
  <2>2. Sent + 1 = Len(file) /\ WholeLine(Kept, Len(file)) /\ Sent \in Nat /\ Kept \in Seq(Piece)
    BY <2>1, LastLine, FileLines
  <2>3. Kept = buffer[1]
    BY <2>1 DEF Kept, TypeInv, TypeOK
  <2>4. lineNumber = Sent
    <3>1. Len(lines) = 0 /\ lineNumber + Len(lines) = Sent
      BY <1>0, <2>1 DEF LineInv
    <3> QED
      BY <1>t, <3>1
  <2>5. Rank(lineNumber') = Rank(Len(file))
    <3>1. CASE Blank(Kept)
      <4>1. lineNumber' = lineNumber /\ ~IsRow(Len(file))
        BY <2>1, <2>2, <2>3, <3>1, TrimmedLine DEF Flush
      <4>2. Rank(Sent + 1) = Rank(Sent) + 0 /\ Rank(Sent) \in Nat
        BY <2>2, <4>1, RankStep
      <4> QED
        BY <2>2, <2>4, <4>1, <4>2
    <3>2. CASE ~Blank(Kept)
      BY <2>1, <2>2, <2>3, <2>4, <3>2 DEF Flush, Push
    <3> QED
      BY <3>1, <3>2
  <2>6. Rank(lineNumber)' = Rank(lineNumber') /\ Rank(Len(file))' = Rank(Len(file))
    BY <2>1 DEF Rank, IsRow
  <2>7. RestInv' /\ KeptInv'
    BY <1>0, <2>1 DEF RestInv, KeptInv, Sent
  <2>8. LineInv'
    BY <2>1, <2>5, <2>6 DEF LineInv
  <2> QED
    BY <2>7, <2>8 DEF TextInv
<1>5. CASE ParseArray
  <2>1. /\ source = "ended" /\ parser = "open" /\ parser' = "ended" /\ format = "json"
        /\ UNCHANGED <<format, file, rest, source, lineNumber, cuts, buffer>>
        /\ \/ loop' = "failed" /\ lines' = lines
           \/ lines' = buffer
    BY <1>5 DEF ParseArray, sourceVars, batchVars
  <2>2. Sent + 1 = Len(file) /\ WholeLine(Kept, Len(file)) /\ Sent \in Nat /\ Kept \in Seq(Piece)
    BY <2>1, LastLine, FileLines
  <2>3. lineNumber = 0 /\ lines = <<>>
    BY <1>0, <2>1 DEF LineInv
  <2>4. Len(buffer) = Len(file) /\ \A i \in 1..Sent : buffer[i] = file[i]
    BY <1>0, <2>1, <2>2 DEF KeptInv
  <2>5. \A j \in 1..Len(buffer) : WholeLine(buffer[j], lineNumber + j)
    <3> SUFFICES ASSUME NEW j \in 1..Len(buffer) PROVE WholeLine(buffer[j], j)
      BY <2>3
    <3>1. CASE j = Len(buffer)
      BY <2>2, <2>4, <3>1 DEF Kept
    <3>2. CASE j # Len(buffer)
      <4>1. j \in 1..Sent /\ j \in 1..Len(file)
        BY <2>2, <2>4, <3>2
      <4> QED
        BY <2>4, <4>1 DEF WholeLine, Like, LikeBut
    <3> QED
      BY <3>1, <3>2
  <2>6. RestInv' /\ KeptInv'
    BY <1>0, <2>1 DEF RestInv, KeptInv, Sent
  <2>7. \A j \in 1..Len(lines') : WholeLine(lines[j], lineNumber + j)'
    <3>1. CASE lines' = buffer
      BY <2>1, <2>5, <3>1 DEF WholeLine, Like, LikeBut, Lost
    <3>2. CASE lines' = lines
      BY <2>3, <3>2
    <3> QED
      BY <2>1, <3>1, <3>2
  <2>8. Running' => lineNumber' + Len(lines') = Len(file')
    <3> SUFFICES ASSUME Running' PROVE lineNumber' + Len(lines') = Len(file')
      OBVIOUS
    <3>1. lines' = buffer
      BY <2>1 DEF Running
    <3>2. Len(buffer) = Len(file) /\ Len(file) \in Nat
      BY <2>2, <2>4
    <3> QED
      BY <2>1, <2>3, <3>1, <3>2
  <2>9. LineInv'
    BY <2>1, <2>7, <2>8 DEF LineInv
  <2> QED
    BY <2>6, <2>9 DEF TextInv
<1>6. CASE UNCHANGED vars
  BY <1>0, <1>2, <1>6 DEF vars, Running, RestInv
<1>7. CASE SourceEnds \/ SourceBreaks
  BY <1>2, <1>7 DEF SourceEnds, SourceBreaks, Running, parserVars, batchVars
<1>8. CASE AddToBatch \/ BatchesEnd \/ TakeBatch \/ TakeSlice
  BY <1>0, <1>2, <1>8 DEF AddToBatch, BatchesEnd, TakeBatch, TakeSlice, Running, sourceVars, parserVars, RestInv
<1>9. CASE ParserFails \/ ScanItem \/ ScanEnds \/ ProcessRecords \/ ValidationFails
           \/ DatabaseFails \/ UpdateJobProgress \/ Complete
  BY <1>0, <1>2, <1>9 DEF ParserFails, ScanItem, ScanEnds, ProcessRecords, ValidationFails, DatabaseFails,
     UpdateJobProgress, Complete, Running, sourceVars, parserVars, RestInv
<1> QED
  BY <1>1, <1>3, <1>4, <1>5, <1>6, <1>7, <1>8, <1>9
     DEF Next, SourceStep, ParserStep, BatchStep, LoopStep

-----------------------------------------------------------------------------
(* Items on their way to the loop *)

TextBut(t, n, c) == IF Lost(n, c) THEN Legible(t, Trim(file[n])) ELSE t = Trim(file[n])

\* The item is the r-th row.
GoodBut(item, r, c) ==
  \E n \in 1..Len(file) :
    IsRow(n) /\ Rank(n) = r /\ (format = "ndjson" => item.line = n) /\ TextBut(item.text, n, c)
Good(item, r) == GoodBut(item, r, cuts)

LEMMA StillGood ==
  ASSUME TypeInv, NEW item, NEW r, GoodBut(item, r, cuts), NEW c, cuts \subseteq c
  PROVE  GoodBut(item, r, c)
<1>1. PICK n \in 1..Len(file) :
        IsRow(n) /\ Rank(n) = r /\ (format = "ndjson" => item.line = n) /\ TextBut(item.text, n, cuts)
  BY DEF GoodBut
<1>2. TextBut(item.text, n, c)
  <2>1. CASE Lost(n, c) /\ ~Lost(n, cuts)
    <3>1. item.text = Trim(file[n])
      BY <1>1, <2>1 DEF TextBut
    <3>2. Legible(Trim(file[n]), Trim(file[n]))
      BY DEF Legible
    <3> QED
      BY <2>1, <3>1, <3>2 DEF TextBut
  <2>2. CASE Lost(n, cuts)
    <3>1. Lost(n, c)
      BY <2>2 DEF Lost
    <3> QED
      BY <1>1, <2>2, <3>1 DEF TextBut
  <2>3. CASE ~Lost(n, c)
    <3>1. ~Lost(n, cuts)
      BY <2>3 DEF Lost
    <3> QED
      BY <1>1, <2>3, <3>1 DEF TextBut
  <2> QED
    BY <2>1, <2>2, <2>3
<1> QED
  BY <1>1, <1>2 DEF GoodBut

\* Rows before the n-th batch.
Start(n) == n * BatchSize

LEMMA Starts ==
  /\ Start(0) = 0
  /\ \A n \in Nat : Start(n) \in Nat /\ Start(n + 1) = Start(n) + BatchSize
<1>1. BatchSize \in Nat
  BY SizesAssumption
<1>2. Start(0) = 0
  BY <1>1 DEF Start
<1>3. ASSUME NEW n \in Nat PROVE Start(n) \in Nat /\ Start(n + 1) = Start(n) + BatchSize
  BY <1>1 DEF Start
<1> QED
  BY <1>2, <1>3

Collected == Start(batchNumber + Len(ready))

ReadyInv == \A b \in 1..Len(ready) : \A i \in 1..Len(ready[b]) : Good(ready[b][i], Start(batchNumber + b - 1) + i)

\* As long as batches come, they are full.
OpenInv ==
  /\ \A b \in 1..Len(ready) : Len(ready[b]) = BatchSize
  /\ \A i \in 1..Len(batch) : Good(batch[i], Collected + i)
  /\ \A i \in 1..Len(queue) : Good(queue[i], Collected + Len(batch) + i)
  /\ Rank(lineNumber) = Collected + Len(batch) + Len(queue)
  /\ Len(taken) = Start(batchNumber)

\* The last one need not be.
EndedInv ==
  /\ \A b \in 1..Len(ready) - 1 : Len(ready[b]) = BatchSize
  /\ ready # <<>> => /\ Len(taken) = Start(batchNumber)
                     /\ Rank(lineNumber) = Start(batchNumber + Len(ready) - 1) + Len(ready[Len(ready)])
  /\ ready = <<>> => Rank(lineNumber) = Len(taken)

ArrayInv ==
  /\ ready = <<>>
  /\ Rank(lineNumber) = Len(taken) + Len(queue)
  /\ \A i \in 1..Len(queue) : Good(queue[i], Len(taken) + i)
  /\ queue # <<>> => Len(taken) = Start(batchNumber)
  /\ lines # <<>> \/ parser = "open" => taken = <<>> /\ batchNumber = 0

ItemInv ==
  IF format = "json" THEN ArrayInv
  ELSE ReadyInv /\ (batches = "open" => OpenInv) /\ (batches = "ended" => EndedInv)

TakenInv ==
  \A k \in 1..Len(taken) : Good(taken[k], k) /\ (format # "ndjson" => taken[k].line = k)

DoneInv == loop = "done" => Len(taken) = Rank(Len(file))

LEMMA ItemLengths ==
  ASSUME TypeInv
  PROVE  /\ queue \in Seq(Item) /\ batch \in Seq(Item) /\ ready \in Seq(Seq(Item)) /\ taken \in Seq(Item)
         /\ Len(queue) \in Nat /\ Len(batch) \in Nat /\ Len(ready) \in Nat /\ Len(taken) \in Nat
         /\ batchNumber \in Nat /\ lineNumber \in Nat /\ BatchSize \in Nat \ {0}
         /\ batches \in {"open", "ended"} /\ parser \in {"open", "ended"}
<1>1. /\ queue \in Seq(Item) /\ batch \in Seq(Item) /\ ready \in Seq(Seq(Item)) /\ taken \in Seq(Item)
      /\ batchNumber \in Nat /\ lineNumber \in Nat
      /\ batches \in {"open", "ended"} /\ parser \in {"open", "ended"}
  BY DEF TypeInv, TypeOK
<1> QED
  BY <1>1, SizesAssumption

LEMMA ItemInit == Init /\ TypeInv => ItemInv /\ TakenInv /\ DoneInv
<1> SUFFICES ASSUME Init, TypeInv PROVE ItemInv /\ TakenInv /\ DoneInv
  OBVIOUS
<1>1. /\ queue = <<>> /\ batch = <<>> /\ ready = <<>> /\ taken = <<>> /\ batchNumber = 0 /\ lineNumber = 0
      /\ batches = "open" /\ loop = "wait"
  BY DEF Init
<1>2. Len(queue) = 0 /\ Len(batch) = 0 /\ Len(ready) = 0 /\ Len(taken) = 0
  BY <1>1
<1>3. Collected = 0 /\ Start(0) = 0 /\ Rank(0) = 0
  BY <1>1, <1>2, Starts, RankStep DEF Collected
<1>4. OpenInv /\ ReadyInv
  BY <1>1, <1>2, <1>3 DEF OpenInv, ReadyInv
<1>5. ArrayInv
  BY <1>1, <1>2, <1>3 DEF ArrayInv
<1> QED
  BY <1>1, <1>2, <1>4, <1>5 DEF ItemInv, TakenInv, DoneInv

\* A new row goes to the end of the queue.
LEMMA PushGood ==
  ASSUME TypeInv, NEW s \in Seq(Piece), WholeLine(s, lineNumber + 1), Push(s),
         UNCHANGED <<format, file, cuts>>
  PROVE  /\ lineNumber' = lineNumber + 1
         /\ \/ queue' = queue /\ Rank(lineNumber') = Rank(lineNumber)
            \/ \E item \in Item : /\ queue' = Append(queue, item) /\ Rank(lineNumber') = Rank(lineNumber) + 1
                                  /\ Good(item, Rank(lineNumber'))
<1>1. lineNumber \in Nat /\ lineNumber' = lineNumber + 1
  BY ItemLengths DEF Push
<1>2. Rank(lineNumber') = Rank(lineNumber) + (IF IsRow(lineNumber + 1) THEN 1 ELSE 0) /\ Rank(lineNumber) \in Nat
  BY <1>1, RankStep
<1>3. (Blank(s) <=> ~IsRow(lineNumber + 1)) /\ TextOf(Trim(s), lineNumber + 1)
  BY TrimmedLine
<1>4. CASE Blank(s)
  BY <1>1, <1>2, <1>3, <1>4 DEF Push
<1>5. CASE ~Blank(s)
  <2>1. queue' = Append(queue, Parsed(s)) /\ Parsed(s) \in Item
    BY <1>1, <1>5, ParsedType DEF Push
  <2>2. Rank(lineNumber') = Rank(lineNumber) + 1 /\ IsRow(lineNumber + 1)
    BY <1>2, <1>3, <1>5
  <2>3. Parsed(s).text = Trim(s) /\ (format = "ndjson" => Parsed(s).line = lineNumber + 1)
    BY DEF Parsed
  <2>4. TextBut(Parsed(s).text, lineNumber + 1, cuts)
    BY <1>3, <2>3 DEF TextOf, TextBut, Damaged
  <2>5. lineNumber + 1 \in 1..Len(file)
    BY DEF WholeLine
  <2>6. Good(Parsed(s), Rank(lineNumber + 1))
    BY <2>2, <2>3, <2>4, <2>5 DEF Good, GoodBut
  <2> QED
    BY <1>1, <2>1, <2>2, <2>6
<1> QED
  BY <1>1, <1>4, <1>5

LEMMA GoodNext ==
  ASSUME TypeInv, NEW item, NEW r, Good(item, r), UNCHANGED <<format, file>>, cuts \subseteq cuts'
  PROVE  Good(item, r)'
<1>1. GoodBut(item, r, cuts')
  BY StillGood DEF Good
<1> QED
  BY <1>1 DEF Good, GoodBut, TextBut, Lost, IsRow, Rank

LEMMA RankNext == ASSUME NEW n, UNCHANGED file PROVE Rank(n)' = Rank(n)
BY DEF Rank, IsRow

\* A step that moves no item.
LEMMA ItemStays ==
  ASSUME TypeInv, ItemInv, TakenInv, cuts \subseteq cuts',
         UNCHANGED <<format, file, queue, batch, ready, batches, batchNumber, taken, lineNumber>>,
         format = "json" /\ (lines' # <<>> \/ parser' = "open") => lines # <<>> \/ parser = "open"
  PROVE  ItemInv' /\ TakenInv'
<1>2. Rank(lineNumber)' = Rank(lineNumber) /\ Collected' = Collected
  BY RankNext DEF Collected, Start
<1>3. \A n : Start(n)' = Start(n)
  BY DEF Start
<1>4. TakenInv'
  <2> SUFFICES ASSUME NEW k \in 1..Len(taken)
               PROVE  Good(taken[k], k)' /\ (format # "ndjson" => taken[k].line = k)'
    BY DEF TakenInv
  <2>1. Good(taken[k], k) /\ (format # "ndjson" => taken[k].line = k)
    BY DEF TakenInv
  <2> QED
    BY <2>1, GoodNext
<1>5. ASSUME NEW b \in 1..Len(ready), NEW i \in 1..Len(ready[b]), ReadyInv
      PROVE  Good(ready[b][i], Start(batchNumber + b - 1) + i)'
  <2>1. Good(ready[b][i], Start(batchNumber + b - 1) + i)
    BY <1>5 DEF ReadyInv
  <2> QED
    BY <2>1, <1>3, GoodNext
<1>6. ReadyInv => ReadyInv'
  BY <1>5 DEF ReadyInv
<1>7. ASSUME OpenInv PROVE OpenInv'
  <2>1. \A i \in 1..Len(batch) : Good(batch[i], Collected + i)'
    BY <1>2, <1>7, GoodNext DEF OpenInv
  <2>2. \A i \in 1..Len(queue) : Good(queue[i], Collected + Len(batch) + i)'
    BY <1>2, <1>7, GoodNext DEF OpenInv
  <2> QED
    BY <1>2, <1>3, <1>7, <2>1, <2>2 DEF OpenInv
<1>8. EndedInv => EndedInv'
  BY <1>2, <1>3 DEF EndedInv
<1>9. ASSUME ArrayInv, format = "json" PROVE ArrayInv'
  <2>1. \A i \in 1..Len(queue) : Good(queue[i], Len(taken) + i)'
    BY <1>9, GoodNext DEF ArrayInv
  <2> QED
    BY <1>2, <1>3, <1>9, <2>1 DEF ArrayInv
<1> QED
  BY <1>4, <1>6, <1>7, <1>8, <1>9 DEF ItemInv

LEMMA TakenStays ==
  ASSUME TypeInv, TakenInv, UNCHANGED <<format, file, cuts, taken>>
  PROVE  TakenInv'
<1> SUFFICES ASSUME NEW k \in 1..Len(taken)
             PROVE  Good(taken[k], k)' /\ (format # "ndjson" => taken[k].line = k)'
  BY DEF TakenInv
<1>1. Good(taken[k], k) /\ (format # "ndjson" => taken[k].line = k)
  BY DEF TakenInv
<1> QED
  BY <1>1, GoodNext

LEMMA TakenGrows ==
  ASSUME TypeInv, TakenInv, UNCHANGED <<format, file, cuts>>,
         NEW items \in Seq(Item), taken' = taken \o items,
         \A i \in 1..Len(items) :
           Good(items[i], Len(taken) + i) /\ (format # "ndjson" => items[i].line = Len(taken) + i)
  PROVE  TakenInv'
<1> SUFFICES ASSUME NEW k \in 1..Len(taken')
             PROVE  Good(taken[k], k)' /\ (format # "ndjson" => taken[k].line = k)'
  BY DEF TakenInv
<1>1. taken \in Seq(Item) /\ Len(taken) \in Nat /\ Len(items) \in Nat /\ Len(taken') = Len(taken) + Len(items)
  BY ItemLengths
<1>2. Good(taken'[k], k) /\ (format # "ndjson" => taken'[k].line = k)
  <2>1. CASE k <= Len(taken)
    <3>1. taken'[k] = taken[k] /\ k \in 1..Len(taken)
      BY <1>1, <2>1
    <3> QED
      BY <3>1 DEF TakenInv
  <2>2. CASE k > Len(taken)
    <3>1. PICK i \in 1..Len(items) : k = Len(taken) + i
      <4>1. k - Len(taken) \in 1..Len(items) /\ k = Len(taken) + (k - Len(taken))
        BY <1>1, <2>2
      <4> QED
        BY <4>1
    <3>2. taken'[k] = items[i]
      BY <1>1, <3>1
    <3> QED
      BY <3>1, <3>2
  <2> QED
    BY <1>1, <2>1, <2>2
<1>3. Good(taken[k], k)'
  BY <1>2, GoodNext
<1> QED
  BY <1>2, <1>3

\* What a parser does to the items.
Pushed ==
  \/ queue' = queue /\ Rank(lineNumber') = Rank(lineNumber)
  \/ \E item \in Item : /\ queue' = Append(queue, item) /\ Rank(lineNumber') = Rank(lineNumber) + 1
                        /\ Good(item, Rank(lineNumber'))

LEMMA QueueGrows ==
  ASSUME TypeInv, TypeInv', ItemInv, TakenInv, Pushed,
         UNCHANGED <<format, file, cuts, batch, ready, batches, batchNumber, taken>>,
         format # "json" => batches = "open",
         format = "json" => lines # <<>>
  PROVE  ItemInv' /\ TakenInv'
<1>1. /\ queue \in Seq(Item) /\ Len(queue) \in Nat /\ Len(batch) \in Nat /\ Len(taken) \in Nat
      /\ lineNumber \in Nat /\ batchNumber \in Nat /\ lineNumber' \in Nat /\ Len(ready) \in Nat
  BY ItemLengths DEF TypeInv, TypeOK
<1>2. Collected \in Nat /\ Rank(lineNumber) \in Nat
  <2>1. batchNumber + Len(ready) \in Nat
    BY <1>1
  <2> QED
    BY <1>1, <2>1, Starts, RankStep DEF Collected
<1>3. Rank(lineNumber)' = Rank(lineNumber') /\ Collected' = Collected
  BY RankNext DEF Collected, Start
<1>4. \A n : Start(n)' = Start(n)
  BY DEF Start
<1>5. TakenInv'
  BY TakenStays
<1>6. \A before \in Nat :
        /\ Rank(lineNumber) = before + Len(queue)
        /\ \A i \in 1..Len(queue) : Good(queue[i], before + i)
        => /\ Rank(lineNumber') = before + Len(queue')
           /\ \A i \in 1..Len(queue') : Good(queue'[i], before + i)
  <2> SUFFICES ASSUME NEW before \in Nat, Rank(lineNumber) = before + Len(queue),
                      \A i \in 1..Len(queue) : Good(queue[i], before + i)
               PROVE  /\ Rank(lineNumber') = before + Len(queue')
                      /\ \A i \in 1..Len(queue') : Good(queue'[i], before + i)
    OBVIOUS
  <2>1. CASE queue' = queue /\ Rank(lineNumber') = Rank(lineNumber)
    BY <2>1
  <2>2. CASE \E item \in Item : /\ queue' = Append(queue, item) /\ Rank(lineNumber') = Rank(lineNumber) + 1
                                /\ Good(item, Rank(lineNumber'))
    <3>1. PICK item \in Item : /\ queue' = Append(queue, item) /\ Rank(lineNumber') = Rank(lineNumber) + 1
                               /\ Good(item, Rank(lineNumber'))
      BY <2>2
    <3>2. /\ Len(queue') = Len(queue) + 1 /\ queue'[Len(queue) + 1] = item
          /\ \A i \in 1..Len(queue) : queue'[i] = queue[i]
      BY <1>1, <3>1
    <3>3. Rank(lineNumber') = before + (Len(queue) + 1)
      BY <1>1, <3>1
    <3>4. ASSUME NEW i \in 1..Len(queue') PROVE Good(queue'[i], before + i)
      <4>1. CASE i = Len(queue) + 1
        BY <3>1, <3>2, <3>3, <4>1
      <4>2. CASE i \in 1..Len(queue)
        BY <3>2, <4>2
      <4> QED
        BY <1>1, <3>2, <4>1, <4>2
    <3> QED
      BY <3>2, <3>3, <3>4
  <2> QED
    BY <2>1, <2>2 DEF Pushed
<1>7. CASE format = "json"
  <2>1. ArrayInv
    BY <1>7 DEF ItemInv
  <2>2. /\ Rank(lineNumber') = Len(taken) + Len(queue')
        /\ \A i \in 1..Len(queue') : Good(queue'[i], Len(taken) + i)
    BY <1>1, <1>6, <2>1 DEF ArrayInv
  <2>3. \A i \in 1..Len(queue') : Good(queue[i], Len(taken) + i)'
    BY <2>2, GoodNext
  <2>4. taken = <<>> /\ batchNumber = 0 /\ Len(taken) = Start(batchNumber) /\ ready = <<>>
    BY <1>7, <2>1, Starts DEF ArrayInv
  <2>5. ArrayInv'
    BY <1>3, <1>4, <2>2, <2>3, <2>4 DEF ArrayInv
  <2> QED
    BY <1>5, <1>7, <2>5 DEF ItemInv
<1>8. CASE format # "json"
  <2>1. ReadyInv /\ OpenInv /\ batches = "open"
    BY <1>8 DEF ItemInv
  <2>2. Collected + Len(batch) \in Nat /\ Rank(lineNumber) = (Collected + Len(batch)) + Len(queue)
    BY <1>1, <1>2, <2>1 DEF OpenInv
  <2>3. /\ Rank(lineNumber') = (Collected + Len(batch)) + Len(queue')
        /\ \A i \in 1..Len(queue') : Good(queue'[i], (Collected + Len(batch)) + i)
    BY <1>6, <2>1, <2>2 DEF OpenInv
  <2>4. \A i \in 1..Len(queue') : Good(queue[i], Collected + Len(batch) + i)'
    BY <1>3, <2>3, GoodNext
  <2>5. \A i \in 1..Len(batch) : Good(batch[i], Collected + i)'
    BY <1>3, <2>1, GoodNext DEF OpenInv
  <2>6. OpenInv'
    BY <1>3, <1>4, <2>1, <2>3, <2>4, <2>5 DEF OpenInv
  <2>7. ASSUME NEW b \in 1..Len(ready), NEW i \in 1..Len(ready[b])
        PROVE  Good(ready[b][i], Start(batchNumber + b - 1) + i)'
    <3>1. Good(ready[b][i], Start(batchNumber + b - 1) + i)
      BY <2>1 DEF ReadyInv
    <3> QED
      BY <3>1, <1>4, GoodNext
  <2>8. ReadyInv'
    BY <2>7 DEF ReadyInv
  <2> QED
    BY <1>5, <1>8, <2>1, <2>6, <2>8 DEF ItemInv
<1> QED
  BY <1>7, <1>8

LEMMA ReadyStays ==
  ASSUME TypeInv, ReadyInv, UNCHANGED <<format, file, cuts, ready, batchNumber>>
  PROVE  ReadyInv'
<1> SUFFICES ASSUME NEW b \in 1..Len(ready), NEW i \in 1..Len(ready[b])
             PROVE  Good(ready[b][i], Start(batchNumber + b - 1) + i)'
  BY DEF ReadyInv
<1>1. Good(ready[b][i], Start(batchNumber + b - 1) + i)
  BY DEF ReadyInv
<1>2. (Start(batchNumber + b - 1) + i)' = Start(batchNumber + b - 1) + i
  BY DEF Start
<1> QED
  BY <1>1, <1>2, GoodNext

LEMMA ReadyGrows ==
  ASSUME TypeInv, ReadyInv, UNCHANGED <<format, file, cuts, batchNumber>>,
         NEW items \in Seq(Item), ready' = Append(ready, items),
         \A i \in 1..Len(items) : Good(items[i], Collected + i)
  PROVE  ReadyInv'
<1>1. /\ ready \in Seq(Seq(Item)) /\ Len(ready) \in Nat /\ batchNumber \in Nat
      /\ Len(ready') = Len(ready) + 1 /\ ready'[Len(ready) + 1] = items
      /\ \A b \in 1..Len(ready) : ready'[b] = ready[b]
  BY ItemLengths
<1> SUFFICES ASSUME NEW b \in 1..Len(ready'), NEW i \in 1..Len(ready'[b])
             PROVE  Good(ready[b][i], Start(batchNumber + b - 1) + i)'
  BY DEF ReadyInv
<1>2. Good(ready'[b][i], Start(batchNumber + b - 1) + i)
  <2>1. CASE b = Len(ready) + 1
    <3>1. batchNumber + b - 1 = batchNumber + Len(ready)
      BY <1>1, <2>1
    <3> QED
      BY <1>1, <2>1, <3>1 DEF Collected
  <2>2. CASE b \in 1..Len(ready)
    BY <1>1, <2>2 DEF ReadyInv
  <2> QED
    BY <1>1, <2>1, <2>2
<1>3. (Start(batchNumber + b - 1) + i)' = Start(batchNumber + b - 1) + i
  BY DEF Start
<1> QED
  BY <1>2, <1>3, GoodNext

LEMMA AddItems ==
  ASSUME TypeInv, TypeInv', EndInv, ItemInv, TakenInv, AddToBatch
  PROVE  ItemInv' /\ TakenInv'
<1> DEFINE items == Append(batch, queue[1])
<1>1. /\ format # "json" /\ queue # <<>> /\ queue' = Tail(queue)
      /\ IF Full(items) THEN ready' = Append(ready, items) /\ batch' = <<>>
         ELSE batch' = items /\ ready' = ready
      /\ UNCHANGED <<format, file, cuts, lineNumber, batches, batchNumber, taken, parser>>
  BY DEF AddToBatch, sourceVars, parserVars, loopVars
<1>2. /\ queue \in Seq(Item) /\ Len(queue) \in Nat /\ batch \in Seq(Item) /\ Len(batch) \in Nat
      /\ batchNumber \in Nat /\ Len(ready) \in Nat /\ BatchSize \in Nat \ {0} /\ lineNumber \in Nat
      /\ batches \in {"open", "ended"} /\ ready \in Seq(Seq(Item))
  BY ItemLengths
<1>3. batches = "open" /\ ReadyInv /\ OpenInv
  BY <1>1, <1>2 DEF EndInv, ItemInv
<1>4. Collected \in Nat
  <2>1. batchNumber + Len(ready) \in Nat
    BY <1>2
  <2> QED
    BY <2>1, Starts DEF Collected
<1>5. Len(batch) < BatchSize
  BY DEF TypeInv, TypeOK
<1>6. queue[1] \in Item /\ Len(queue) >= 1
  BY <1>1, <1>2
<1>7. /\ items \in Seq(Item) /\ Len(items) = Len(batch) + 1 /\ items[Len(batch) + 1] = queue[1]
      /\ \A i \in 1..Len(batch) : items[i] = batch[i]
  BY <1>2, <1>6
<1>8. \A i \in 1..Len(items) : Good(items[i], Collected + i)
  <2> SUFFICES ASSUME NEW i \in 1..Len(items) PROVE Good(items[i], Collected + i)
    OBVIOUS
  <2>1. CASE i = Len(batch) + 1
    <3>1. Good(queue[1], Collected + Len(batch) + 1)
      BY <1>2, <1>3, <1>6 DEF OpenInv
    <3>2. Collected + Len(batch) + 1 = Collected + i
      BY <1>2, <1>4, <2>1
    <3> QED
      BY <1>7, <2>1, <3>1, <3>2
  <2>2. CASE i \in 1..Len(batch)
    BY <1>3, <1>7, <2>2 DEF OpenInv
  <2> QED
    BY <1>2, <1>7, <2>1, <2>2
<1>9. /\ Len(queue') = Len(queue) - 1
      /\ \A i \in 1..Len(queue') : queue'[i] = queue[i + 1] /\ i + 1 \in 1..Len(queue)
  BY <1>1, <1>2
<1>10. \A i \in 1..Len(queue') : Good(queue'[i], Collected + Len(items) + i)
  <2> SUFFICES ASSUME NEW i \in 1..Len(queue') PROVE Good(queue'[i], Collected + Len(items) + i)
    OBVIOUS
  <2>1. Good(queue[i + 1], Collected + Len(batch) + (i + 1))
    BY <1>3, <1>9 DEF OpenInv
  <2>2. Collected + Len(batch) + (i + 1) = Collected + Len(items) + i
    BY <1>2, <1>4, <1>7
  <2> QED
    BY <1>9, <2>1, <2>2
<1>11. Rank(lineNumber) = Collected + Len(items) + Len(queue') /\ Len(taken) = Start(batchNumber)
  BY <1>2, <1>3, <1>4, <1>7, <1>9 DEF OpenInv
<1>12. Rank(lineNumber)' = Rank(lineNumber) /\ \A n : Start(n)' = Start(n)
  BY <1>1, RankNext DEF Start
<1>13. TakenInv'
  BY <1>1, TakenStays
<1>14. CASE Full(items)
  <2>1. Len(items) = BatchSize /\ batch' = <<>> /\ ready' = Append(ready, items)
    BY <1>1, <1>2, <1>5, <1>7, <1>14 DEF Full
  <2>2. /\ Len(ready') = Len(ready) + 1 /\ ready'[Len(ready) + 1] = items
        /\ \A b \in 1..Len(ready) : ready'[b] = ready[b]
    BY <1>2, <1>7, <2>1
  <2>3. Collected' = Collected + BatchSize
    <3>1. batchNumber + Len(ready) \in Nat /\ batchNumber' + Len(ready') = (batchNumber + Len(ready)) + 1
      BY <1>1, <1>2, <2>2
    <3> QED
      BY <3>1, Starts DEF Collected, Start
  <2>4. ReadyInv'
    BY <1>1, <1>3, <1>7, <1>8, <2>1, ReadyGrows
  <2>5. \A b \in 1..Len(ready') : Len(ready'[b]) = BatchSize
    <3> SUFFICES ASSUME NEW b \in 1..Len(ready') PROVE Len(ready'[b]) = BatchSize
      OBVIOUS
    <3>1. b = Len(ready) + 1 \/ b \in 1..Len(ready)
      BY <1>2, <2>2
    <3> QED
      BY <1>3, <2>1, <2>2, <3>1 DEF OpenInv
  <2>6. Len(batch') = 0
    BY <2>1
  <2>7. /\ \A i \in 1..Len(queue') : Good(queue'[i], Collected' + Len(batch') + i)
        /\ Rank(lineNumber) = Collected' + Len(batch') + Len(queue')
    <3>1. Collected' + Len(batch') = Collected + Len(items)
      BY <1>2, <1>4, <2>1, <2>3, <2>6
    <3> QED
      BY <1>10, <1>11, <3>1
  <2>8. \A i \in 1..Len(queue') : Good(queue[i], Collected + Len(batch) + i)'
    BY <1>1, <2>7, GoodNext
  <2>9. OpenInv'
    BY <1>1, <1>11, <1>12, <2>5, <2>6, <2>7, <2>8 DEF OpenInv
  <2> QED
    BY <1>1, <1>3, <1>13, <2>4, <2>9 DEF ItemInv
<1>15. CASE ~Full(items)
  <2>1. batch' = items /\ ready' = ready /\ Collected' = Collected
    BY <1>1, <1>15 DEF Collected, Start
  <2>2. ReadyInv'
    BY <1>1, <1>3, <2>1, ReadyStays
  <2>3. \A i \in 1..Len(batch') : Good(batch[i], Collected + i)'
    BY <1>1, <1>8, <2>1, GoodNext
  <2>4. \A i \in 1..Len(queue') : Good(queue[i], Collected + Len(batch) + i)'
    BY <1>1, <1>10, <2>1, GoodNext
  <2>5. OpenInv'
    BY <1>1, <1>3, <1>11, <1>12, <2>1, <2>3, <2>4 DEF OpenInv
  <2> QED
    BY <1>1, <1>3, <1>13, <2>2, <2>5 DEF ItemInv
<1> QED
  BY <1>14, <1>15

LEMMA EndItems ==
  ASSUME TypeInv, EndInv, ItemInv, TakenInv, BatchesEnd
  PROVE  ItemInv' /\ TakenInv'
<1>1. /\ format # "json" /\ queue = <<>> /\ batches = "open" /\ batches' = "ended"
      /\ ready' = IF batch = <<>> THEN ready ELSE Append(ready, batch)
      /\ UNCHANGED <<format, file, cuts, lineNumber, batchNumber, taken>>
  BY DEF BatchesEnd, sourceVars, parserVars, loopVars
<1>2. /\ batch \in Seq(Item) /\ Len(batch) \in Nat /\ Len(queue) = 0 /\ Len(taken) \in Nat
      /\ batchNumber \in Nat /\ Len(ready) \in Nat /\ BatchSize \in Nat \ {0} /\ lineNumber \in Nat
      /\ ready \in Seq(Seq(Item))
  BY <1>1, ItemLengths
<1>3. ReadyInv /\ OpenInv
  BY <1>1 DEF ItemInv
<1>4. Collected \in Nat /\ batchNumber + Len(ready) \in Nat
  <2>1. batchNumber + Len(ready) \in Nat
    BY <1>2
  <2> QED
    BY <2>1, Starts DEF Collected
<1>5. Rank(lineNumber) = Collected + Len(batch) /\ Len(taken) = Start(batchNumber)
  BY <1>2, <1>3, <1>4 DEF OpenInv
<1>6. Rank(lineNumber)' = Rank(lineNumber) /\ \A n : Start(n)' = Start(n)
  BY <1>1, RankNext DEF Start
<1>7. TakenInv'
  BY <1>1, TakenStays
<1>8. CASE batch = <<>>
  <2>1. ready' = ready /\ Len(batch) = 0 /\ Rank(lineNumber) = Collected
    BY <1>1, <1>2, <1>4, <1>5, <1>8
  <2>2. ReadyInv'
    BY <1>1, <1>3, <2>1, ReadyStays
  <2>3. ready = <<>> => Rank(lineNumber) = Len(taken)
    <3> SUFFICES ASSUME ready = <<>> PROVE Rank(lineNumber) = Len(taken)
      OBVIOUS
    <3>1. batchNumber + Len(ready) = batchNumber
      BY <1>2
    <3> QED
      BY <1>5, <2>1, <3>1 DEF Collected
  <2>4. ready # <<>> => Rank(lineNumber) = Start(batchNumber + Len(ready) - 1) + Len(ready[Len(ready)])
    <3> SUFFICES ASSUME ready # <<>>
                 PROVE  Rank(lineNumber) = Start(batchNumber + Len(ready) - 1) + Len(ready[Len(ready)])
      OBVIOUS
    <3>1. batchNumber + Len(ready) - 1 \in Nat /\ Len(ready) \in 1..Len(ready)
      BY <1>2
    <3>2. Start((batchNumber + Len(ready) - 1) + 1) = Start(batchNumber + Len(ready) - 1) + BatchSize
      BY <3>1, Starts
    <3>3. (batchNumber + Len(ready) - 1) + 1 = batchNumber + Len(ready)
      BY <1>2
    <3>4. Len(ready[Len(ready)]) = BatchSize
      BY <1>3, <3>1 DEF OpenInv
    <3> QED
      BY <2>1, <3>2, <3>3, <3>4 DEF Collected
  <2>5. \A b \in 1..Len(ready) - 1 : Len(ready[b]) = BatchSize
    BY <1>2, <1>3 DEF OpenInv
  <2>6. EndedInv'
    BY <1>1, <1>5, <1>6, <2>1, <2>3, <2>4, <2>5 DEF EndedInv
  <2> QED
    BY <1>1, <1>7, <2>2, <2>6 DEF ItemInv
<1>9. CASE batch # <<>>
  <2>1. ready' = Append(ready, batch)
    BY <1>1, <1>9
  <2>2. /\ Len(ready') = Len(ready) + 1 /\ ready'[Len(ready) + 1] = batch /\ ready' # <<>>
        /\ \A b \in 1..Len(ready) : ready'[b] = ready[b]
    BY <1>2, <2>1
  <2>3. ReadyInv'
    BY <1>1, <1>2, <1>3, <2>1, ReadyGrows DEF OpenInv
  <2>4. \A b \in 1..Len(ready') - 1 : Len(ready'[b]) = BatchSize
    BY <1>2, <1>3, <2>2 DEF OpenInv
  <2>5. batchNumber + Len(ready') - 1 = batchNumber + Len(ready)
    BY <1>2, <2>2
  <2>6. Rank(lineNumber) = Start(batchNumber + Len(ready') - 1) + Len(ready'[Len(ready')])
    BY <1>5, <2>2, <2>5 DEF Collected
  <2>7. EndedInv'
    BY <1>1, <1>5, <1>6, <2>2, <2>4, <2>6 DEF EndedInv
  <2> QED
    BY <1>1, <1>7, <2>3, <2>7 DEF ItemInv
<1> QED
  BY <1>8, <1>9

LEMMA TakeBatchItems ==
  ASSUME TypeInv, ItemInv, TakenInv, TakeBatch
  PROVE  ItemInv' /\ TakenInv'
<1> DEFINE items == IF format = "csv" THEN Numbered(ready[1], batchNumber * BatchSize + 1) ELSE ready[1]
<1>1. /\ ready # <<>> /\ ready' = Tail(ready) /\ taken' = taken \o items
      /\ batchNumber' = batchNumber + 1
      /\ UNCHANGED <<format, file, cuts, lineNumber, batch, queue, batches>>
  BY DEF TakeBatch, sourceVars, parserVars
<1>2. /\ taken \in Seq(Item) /\ Len(taken) \in Nat /\ Len(batch) \in Nat /\ Len(queue) \in Nat
      /\ batchNumber \in Nat /\ Len(ready) \in Nat /\ BatchSize \in Nat \ {0} /\ lineNumber \in Nat
      /\ ready \in Seq(Seq(Item)) /\ batches \in {"open", "ended"}
  BY ItemLengths
<1>3. format # "json" /\ ReadyInv /\ (batches = "open" => OpenInv) /\ (batches = "ended" => EndedInv)
  BY <1>1 DEF ItemInv, ArrayInv
<1>4. Len(taken) = Start(batchNumber)
  BY <1>1, <1>2, <1>3 DEF OpenInv, EndedInv
<1>5. /\ ready[1] \in Seq(Item) /\ 1 \in 1..Len(ready) /\ Len(ready[1]) \in Nat
      /\ Len(ready') = Len(ready) - 1
      /\ \A b \in 1..Len(ready') : ready'[b] = ready[b + 1] /\ b + 1 \in 1..Len(ready)
  BY <1>1, <1>2
<1>6. \A i \in 1..Len(ready[1]) : Good(ready[1][i], Len(taken) + i)
  <2>1. batchNumber + 1 - 1 = batchNumber
    BY <1>2
  <2> QED
    BY <1>3, <1>4, <1>5, <2>1 DEF ReadyInv
<1>7. /\ items \in Seq(Item) /\ Len(items) = Len(ready[1])
      /\ \A i \in 1..Len(items) :
           Good(items[i], Len(taken) + i) /\ (format # "ndjson" => items[i].line = Len(taken) + i)
  <2>1. CASE format = "csv"
    <3>1. PICK s \in Nat : s = Len(taken)
      BY <1>2
    <3>2. batchNumber * BatchSize + 1 = s + 1
      BY <1>4, <3>1 DEF Start
    <3>3. items = Numbered(ready[1], s + 1)
      BY <2>1, <3>2
    <3>4. items \in Seq(Item) /\ Len(items) = Len(ready[1])
      BY <1>5, <3>1, <3>3, NumberedType DEF Numbered
    <3>5. \A i \in 1..Len(items) : items[i].line = s + i /\ items[i].text = ready[1][i].text
      BY <1>5, <3>1, <3>3, <3>4 DEF Numbered
    <3>6. ASSUME NEW i \in 1..Len(items) PROVE Good(items[i], s + i)
      <4>1. Good(ready[1][i], s + i)
        BY <1>6, <3>1, <3>4
      <4> QED
        BY <2>1, <3>5, <4>1 DEF Good, GoodBut
    <3> QED
      BY <3>1, <3>4, <3>5, <3>6
  <2>2. CASE format # "csv"
    <3>1. items = ready[1] /\ format = "ndjson"
      <4>1. format \in Formats /\ Formats \subseteq {"csv", "ndjson", "json"}
        BY FilesAssumption DEF TypeInv, TypeOK
      <4> QED
        BY <1>3, <2>2, <4>1
    <3> QED
      BY <1>5, <1>6, <3>1
  <2> QED
    BY <2>1, <2>2
<1>8. TakenInv'
  <2> HIDE DEF items
  <2> QED
    BY <1>1, <1>7, TakenGrows
<1>9. Len(taken') = Start(batchNumber) + Len(ready[1])
  <2>1. PICK its \in Seq(Item) : its = items
    BY <1>7
  <2>2. Len(taken \o its) = Len(taken) + Len(its)
    BY <1>2
  <2>3. taken' = taken \o its /\ Len(its) = Len(ready[1])
    BY <1>1, <1>7, <2>1
  <2> QED
    BY <1>4, <2>2, <2>3
<1>10. \A n : Start(n)' = Start(n)
  BY DEF Start
<1>11. Rank(lineNumber)' = Rank(lineNumber)
  BY <1>1, RankNext
<1>12. ReadyInv'
  <2> SUFFICES ASSUME NEW b \in 1..Len(ready'), NEW i \in 1..Len(ready'[b])
               PROVE  Good(ready[b][i], Start(batchNumber + b - 1) + i)'
    BY DEF ReadyInv
  <2>1. Good(ready[b + 1][i], Start(batchNumber + (b + 1) - 1) + i)
    BY <1>3, <1>5 DEF ReadyInv
  <2>2. batchNumber + (b + 1) - 1 = batchNumber' + b - 1
    BY <1>1, <1>2
  <2>3. Good(ready'[b][i], Start(batchNumber' + b - 1) + i)
    BY <1>5, <2>1, <2>2
  <2>4. (Start(batchNumber + b - 1) + i)' = Start(batchNumber' + b - 1) + i
    BY DEF Start
  <2> QED
    BY <1>1, <2>3, <2>4, GoodNext
<1>13. CASE batches = "open"
  <2>1. OpenInv
    BY <1>3, <1>13
  <2>2. Collected' = Collected
    <3>1. batchNumber' + Len(ready') = batchNumber + Len(ready)
      BY <1>1, <1>2, <1>5
    <3> QED
      BY <3>1 DEF Collected, Start
  <2>3. Len(taken') = Start(batchNumber')
    <3>1. Len(ready[1]) = BatchSize
      BY <1>5, <2>1 DEF OpenInv
    <3> QED
      BY <1>1, <1>2, <1>9, <3>1, Starts
  <2>4. \A b \in 1..Len(ready') : Len(ready'[b]) = BatchSize
    BY <1>5, <2>1 DEF OpenInv
  <2>5. \A i \in 1..Len(batch) : Good(batch[i], Collected + i)'
    BY <1>1, <2>1, <2>2, GoodNext DEF OpenInv
  <2>6. \A i \in 1..Len(queue) : Good(queue[i], Collected + Len(batch) + i)'
    BY <1>1, <2>1, <2>2, GoodNext DEF OpenInv
  <2>7. OpenInv'
    BY <1>1, <1>10, <1>11, <2>1, <2>2, <2>3, <2>4, <2>5, <2>6 DEF OpenInv
  <2> QED
    BY <1>1, <1>3, <1>8, <1>12, <1>13, <2>7 DEF ItemInv
<1>14. CASE batches = "ended"
  <2>1. EndedInv
    BY <1>3, <1>14
  <2>2. Rank(lineNumber) = Start(batchNumber + Len(ready) - 1) + Len(ready[Len(ready)])
    BY <1>1, <2>1 DEF EndedInv
  <2>3. \A b \in 1..Len(ready') - 1 : Len(ready'[b]) = BatchSize
    <3> SUFFICES ASSUME NEW b \in 1..Len(ready') - 1 PROVE Len(ready'[b]) = BatchSize
      OBVIOUS
    <3>1. b \in 1..Len(ready') /\ b + 1 \in 1..Len(ready) - 1
      BY <1>2, <1>5
    <3> QED
      BY <1>5, <2>1, <3>1 DEF EndedInv
  <2>4. CASE Len(ready) = 1
    <3>1. ready' = <<>>
      <4>1. ready = <<ready[1]>>
        BY <1>2, <2>4
      <4>2. Tail(<<ready[1]>>) = <<>>
        OBVIOUS
      <4> QED
        BY <1>1, <4>1, <4>2
    <3>2. batchNumber + Len(ready) - 1 = batchNumber
      BY <1>2, <2>4
    <3>3. Rank(lineNumber) = Len(taken')
      BY <1>9, <2>2, <2>4, <3>2
    <3>4. EndedInv'
      BY <1>11, <2>3, <3>1, <3>3 DEF EndedInv
    <3> QED
      BY <1>1, <1>3, <1>8, <1>12, <1>14, <3>4 DEF ItemInv
  <2>5. CASE Len(ready) # 1
    <3>1. 1 \in 1..Len(ready) - 1 /\ Len(ready') \in 1..Len(ready') /\ Len(ready') + 1 = Len(ready)
      BY <1>2, <1>5, <2>5
    <3>2. Len(ready[1]) = BatchSize
      BY <2>1, <3>1 DEF EndedInv
    <3>3. Len(taken') = Start(batchNumber')
      BY <1>1, <1>2, <1>9, <3>2, Starts
    <3>4. ready'[Len(ready')] = ready[Len(ready)] /\ ready' # <<>>
      BY <1>5, <3>1
    <3>5. batchNumber' + Len(ready') - 1 = batchNumber + Len(ready) - 1
      BY <1>1, <1>2, <1>5
    <3>6. Rank(lineNumber) = Start(batchNumber' + Len(ready') - 1) + Len(ready'[Len(ready')])
      BY <2>2, <3>4, <3>5
    <3>7. EndedInv'
      BY <1>10, <1>11, <2>3, <3>3, <3>4, <3>6 DEF EndedInv
    <3> QED
      BY <1>1, <1>3, <1>8, <1>12, <1>14, <3>7 DEF ItemInv
  <2> QED
    BY <2>4, <2>5
<1> QED
  BY <1>2, <1>13, <1>14

LEMMA TakeSliceItems ==
  ASSUME TypeInv, TextInv, ItemInv, TakenInv, TakeSlice
  PROVE  ItemInv' /\ TakenInv'
<1> DEFINE size == IF Len(queue) < BatchSize THEN Len(queue) ELSE BatchSize
           items == Numbered(SubSeq(queue, 1, size), batchNumber * BatchSize + 1)
<1>1. /\ format = "json" /\ lines = <<>> /\ queue # <<>> /\ batchNumber' = batchNumber + 1
      /\ taken' = taken \o items /\ queue' = SubSeq(queue, size + 1, Len(queue))
      /\ UNCHANGED <<format, file, cuts, lines, lineNumber, parser, ready>>
  BY DEF TakeSlice, sourceVars, parserVars, batchVars
<1>2. /\ taken \in Seq(Item) /\ Len(taken) \in Nat /\ queue \in Seq(Item) /\ Len(queue) \in Nat \ {0}
      /\ batchNumber \in Nat /\ BatchSize \in Nat \ {0} /\ lineNumber \in Nat /\ parser \in {"open", "ended"}
  BY <1>1, ItemLengths
<1>3. ArrayInv
  BY <1>1 DEF ItemInv
<1>4. parser = "ended"
  <2> SUFFICES ASSUME parser = "open" PROVE FALSE
    BY <1>2
  <2>1. lineNumber = 0
    BY <1>1 DEF TextInv, LineInv
  <2>2. 0 = Len(taken) + Len(queue)
    BY <1>3, <2>1, RankStep DEF ArrayInv
  <2> QED
    BY <1>2, <2>2
<1>5. Len(taken) = Start(batchNumber)
  BY <1>1, <1>3 DEF ArrayInv
<1>6. PICK n \in 1..Len(queue) : n = size /\ (n = BatchSize \/ n = Len(queue))
  BY <1>2
<1>7. PICK slice \in Seq(Item) : slice = SubSeq(queue, 1, n) /\ Len(slice) = n
                                 /\ \A i \in 1..n : slice[i] = queue[i]
  <2>1. SubSeq(queue, 1, n) \in Seq(Item)
    BY <1>2, <1>6
  <2>2. Len(SubSeq(queue, 1, n)) = n
    BY <1>2, <1>6
  <2>3. \A i \in 1..n : SubSeq(queue, 1, n)[i] = queue[i]
    BY <1>2, <1>6
  <2> QED
    BY <2>1, <2>2, <2>3
<1>8. PICK s \in Nat : s = Len(taken)
  BY <1>2
<1>9. PICK its \in Seq(Item) : its = Numbered(slice, s + 1) /\ Len(its) = n
  <2>1. s + 1 \in Nat \ {0}
    BY <1>8
  <2>2. Numbered(slice, s + 1) \in Seq(Item) /\ Len(Numbered(slice, s + 1)) = Len(slice)
    BY <1>7, <2>1, NumberedType
  <2> QED
    BY <1>7, <2>2
<1>10. items = its
  BY <1>5, <1>6, <1>7, <1>8, <1>9 DEF Start
<1>11. \A i \in 1..n : its[i].line = s + i /\ its[i].text = queue[i].text
  BY <1>6, <1>7, <1>8, <1>9 DEF Numbered
<1>12. ASSUME NEW i \in 1..n PROVE Good(its[i], s + i)
  <2>1. Good(queue[i], s + i)
    BY <1>2, <1>3, <1>6, <1>8 DEF ArrayInv
  <2> QED
    BY <1>1, <1>11, <2>1 DEF Good, GoodBut
<1>13. taken' = taken \o its /\ Len(taken') = s + n
  <2>1. Len(taken \o its) = Len(taken) + Len(its)
    BY <1>2
  <2> QED
    BY <1>1, <1>8, <1>9, <1>10, <2>1
<1>14. TakenInv'
  BY <1>1, <1>8, <1>9, <1>11, <1>12, <1>13, TakenGrows
<1>15. PICK m \in Nat : m = Len(queue)
  BY <1>2
<1>16. queue' = SubSeq(queue, n + 1, m) /\ n \in 1..m
  BY <1>1, <1>6, <1>15
<1>17. Len(queue') = m - n /\ \A i \in 1..m - n : queue'[i] = queue[n + i] /\ n + i \in 1..m
  BY <1>2, <1>15, <1>16
<1>18. ASSUME NEW i \in 1..Len(queue') PROVE Good(queue'[i], Len(taken') + i)
  <2>1. Good(queue[n + i], s + (n + i))
    BY <1>3, <1>8, <1>15, <1>17 DEF ArrayInv
  <2>2. s + (n + i) = Len(taken') + i
    BY <1>13, <1>17
  <2> QED
    BY <1>17, <2>1, <2>2
<1>19. \A i \in 1..Len(queue') : Good(queue[i], Len(taken) + i)'
  BY <1>1, <1>18, GoodNext
<1>20. Rank(lineNumber)' = Rank(lineNumber)
  BY <1>1, RankNext
<1>21. Rank(lineNumber) = Len(taken') + Len(queue')
  BY <1>3, <1>8, <1>13, <1>15, <1>17 DEF ArrayInv
<1>22. queue' # <<>> => Len(taken') = Start(batchNumber')
  <2> SUFFICES ASSUME queue' # <<>> PROVE Len(taken') = Start(batchNumber')
    OBVIOUS
  <2>1. n # m
    <3> SUFFICES ASSUME n = m PROVE FALSE
      OBVIOUS
    <3>1. Len(queue') = 0 /\ queue' \in Seq(Item)
      BY <1>2, <1>15, <1>16, <1>17
    <3> QED
      BY <3>1
  <2>2. n = BatchSize
    BY <1>6, <1>15, <2>1
  <2> QED
    BY <1>1, <1>2, <1>5, <1>8, <1>13, <2>2, Starts
<1>23. \A k : Start(k)' = Start(k)
  BY DEF Start
<1>24. ArrayInv'
  BY <1>1, <1>3, <1>4, <1>19, <1>20, <1>21, <1>22, <1>23 DEF ArrayInv
<1> QED
  BY <1>1, <1>14, <1>24 DEF ItemInv

LEMMA ItemStep ==
  ASSUME TypeInv, TypeInv', EndInv, TextInv, ItemInv, TakenInv, [Next]_vars
  PROVE  ItemInv' /\ TakenInv'
<1>1. CASE \E n \in {m \in 0..ChunkLines : m < Len(rest)} : \E k \in 0..Len(rest[n + 1]) : SendChunk(n, k)
  <2>0. PICK n \in {m \in 0..ChunkLines : m < Len(rest)} : \E k \in 0..Len(rest[n + 1]) : SendChunk(n, k)
    BY <1>1
  <2>1. PICK k \in 0..Len(rest[n + 1]) : SendChunk(n, k)
    BY <2>0
  <2>2. /\ UNCHANGED <<format, file, queue, batch, ready, batches, batchNumber, taken, lineNumber, parser>>
        /\ cuts \subseteq cuts' /\ (format = "json" => lines' = lines)
    BY <2>1 DEF SendChunk, batchVars, loopVars
  <2> QED
    BY <2>2, ItemStays
<1>2. CASE ParseLine
  <2>1. /\ lines # <<>> /\ Push(lines[1]) /\ UNCHANGED <<format, file, cuts, parser>>
        /\ UNCHANGED <<batch, ready, batches, batchNumber, taken>>
    BY <1>2 DEF ParseLine, sourceVars, batchVars, loopVars
  <2>2. lines \in Seq(Seq(Piece))
    BY DEF TypeInv, TypeOK
  <2>3. lines[1] \in Seq(Piece) /\ 1 \in 1..Len(lines)
    BY <2>1, <2>2
  <2>4. WholeLine(lines[1], lineNumber + 1)
    BY <2>3 DEF TextInv, LineInv
  <2>5. Pushed
    BY <2>1, <2>3, <2>4, PushGood DEF Pushed
  <2>6. format # "json" => batches = "open"
    BY <2>1, ItemLengths DEF EndInv
  <2> QED
    BY <2>1, <2>5, <2>6, QueueGrows
<1>3. CASE ParserEnds
  <2>1. /\ format # "json" /\ source = "ended" /\ lines = <<>> /\ parser = "open" /\ Flush
        /\ UNCHANGED <<format, file, cuts, batch, ready, batches, batchNumber, taken>>
    BY <1>3 DEF ParserEnds, sourceVars, batchVars, loopVars
  <2>2. Sent + 1 = Len(file) /\ WholeLine(Kept, Len(file)) /\ Sent \in Nat /\ Kept \in Seq(Piece)
    BY <2>1, LastLine, FileLines
  <2>3. Kept = buffer[1]
    BY <2>1 DEF Kept, TypeInv, TypeOK
  <2>4. lineNumber + 1 = Len(file)
    <3>1. lineNumber + Len(lines) = Sent /\ Len(lines) = 0
      BY <2>1 DEF TextInv, LineInv
    <3> QED
      BY <2>2, <3>1, ItemLengths
  <2>5. Pushed
    <3>1. CASE Blank(Kept)
      BY <2>1, <2>3, <3>1 DEF Flush, Pushed
    <3>2. CASE ~Blank(Kept)
      <4>1. Push(Kept)
        BY <2>1, <2>3, <3>2 DEF Flush
      <4> QED
        BY <2>1, <2>2, <2>4, <4>1, PushGood DEF Pushed
    <3> QED
      BY <3>1, <3>2
  <2>6. batches = "open"
    BY <2>1, ItemLengths DEF EndInv
  <2> QED
    BY <2>1, <2>5, <2>6, QueueGrows
<1>4. CASE ParseArray
  BY <1>4, ItemStays DEF ParseArray, sourceVars, batchVars
<1>5. CASE UNCHANGED vars
  BY <1>5, ItemStays DEF vars
<1>6. CASE SourceEnds \/ SourceBreaks
  BY <1>6, ItemStays DEF SourceEnds, SourceBreaks, parserVars, batchVars, loopVars
<1>7. CASE ParserFails \/ ScanItem \/ ScanEnds \/ ProcessRecords
  BY <1>7, ItemStays DEF ParserFails, ScanItem, ScanEnds, ProcessRecords, sourceVars, parserVars, batchVars
<1>8. CASE ValidationFails \/ DatabaseFails \/ UpdateJobProgress \/ Complete
  BY <1>8, ItemStays DEF ValidationFails, DatabaseFails, UpdateJobProgress, Complete, sourceVars, parserVars,
     batchVars
<1> QED
  BY <1>1, <1>2, <1>3, <1>4, <1>5, <1>6, <1>7, <1>8, AddItems, EndItems, TakeBatchItems, TakeSliceItems
     DEF Next, SourceStep, ParserStep, BatchStep, LoopStep

-----------------------------------------------------------------------------
(* The end of the import *)

LEMMA DoneStep ==
  ASSUME TypeInv, TypeInv', EndInv, TextInv, ItemInv, DoneInv, [Next]_vars
  PROVE  DoneInv'
<1> SUFFICES ASSUME loop' = "done" PROVE Len(taken') = Rank(Len(file))'
  BY DEF DoneInv
<1>1. CASE Complete
  <2>1. loop = "wait" /\ NoMore /\ UNCHANGED <<file, taken>>
    BY <1>1 DEF Complete
  <2>2. Len(taken) \in Nat /\ Len(queue) \in Nat /\ lineNumber \in Nat /\ Len(file) \in Nat
    BY ItemLengths, FileLines
  <2>3. Rank(lineNumber) = Rank(Len(file))
    <3>1. CASE format = "json"
      <4>1. lineNumber + Len(lines) = Len(file) /\ lines = <<>>
        BY <2>1, <3>1 DEF NoMore, TextInv, LineInv, Running
      <4>2. Len(lines) = 0
        BY <4>1
      <4> QED
        BY <2>2, <4>1, <4>2
    <3>2. CASE format # "json"
      BY <2>1, <3>2 DEF NoMore, EndInv, TextInv, LineInv
    <3> QED
      BY <3>1, <3>2
  <2>4. Rank(lineNumber) = Len(taken)
    <3>1. CASE format = "json"
      <4>1. queue = <<>> /\ Rank(lineNumber) = Len(taken) + Len(queue)
        BY <2>1, <3>1 DEF NoMore, ItemInv, ArrayInv
      <4>2. Len(queue) = 0
        BY <4>1
      <4> QED
        BY <2>2, <4>1, <4>2
    <3>2. CASE format # "json"
      BY <2>1, <3>2 DEF NoMore, ItemInv, EndedInv
    <3> QED
      BY <3>1, <3>2
  <2> QED
    BY <2>1, <2>3, <2>4, RankNext
<1>2. CASE loop = "done" /\ UNCHANGED <<file, taken>>
  BY <1>2, RankNext DEF DoneInv
<1>3. CASE SourceStep
  BY <1>2, <1>3 DEF SourceStep, SendChunk, SourceEnds, Running, loopVars
<1>4. CASE SourceBreaks
  BY <1>2, <1>4 DEF SourceBreaks, Running
<1>5. CASE ParserStep
  BY <1>2, <1>5 DEF ParserStep, ParseLine, ParserEnds, ParserFails, ParseArray, Running, loopVars
<1>6. CASE BatchStep
  BY <1>2, <1>6 DEF BatchStep, AddToBatch, BatchesEnd, Running, loopVars
<1>7. CASE TakeBatch \/ TakeSlice
  BY <1>7 DEF TakeBatch, TakeSlice
<1>8. CASE ScanItem \/ ScanEnds \/ ProcessRecords \/ UpdateJobProgress
  BY <1>8 DEF ScanItem, ScanEnds, ProcessRecords, UpdateJobProgress, AfterBatch
<1>9. CASE ValidationFails \/ DatabaseFails
  BY <1>9 DEF ValidationFails, DatabaseFails
<1>10. CASE UNCHANGED vars
  BY <1>2, <1>10 DEF vars
<1> QED
  BY <1>1, <1>3, <1>4, <1>5, <1>6, <1>7, <1>8, <1>9, <1>10 DEF Next, LoopStep

LEMMA ItemsHold == Spec => [](TypeInv /\ EndInv /\ TextInv /\ ItemInv /\ TakenInv /\ DoneInv)
<1>1. Init => TypeInv /\ EndInv /\ TextInv /\ ItemInv /\ TakenInv /\ DoneInv
  BY InitTypes, WaitInit, TextInit, ItemInit
<1>2. ASSUME TypeInv, EndInv, WaitInv, TextInv, ItemInv, TakenInv, DoneInv, [Next]_vars
      PROVE  TypeInv' /\ EndInv' /\ TextInv' /\ ItemInv' /\ TakenInv' /\ DoneInv'
  <2>1. TypeInv'
    BY <1>2, TypesStep
  <2> QED
    BY <1>2, <2>1, WaitStep, TextStep, ItemStep, DoneStep
<1>3. TypeInv /\ EndInv /\ WaitInv /\ TextInv /\ ItemInv /\ TakenInv /\ DoneInv /\ [Next]_vars
      => TypeInv' /\ EndInv' /\ TextInv' /\ ItemInv' /\ TakenInv' /\ DoneInv'
  BY <1>2
<1> QED
  BY <1>1, <1>3, WaitHolds, PTL DEF Spec

\* However a file is cut into chunks and batches, an import that returns its totals has come to
\* the last row of its file.
THEOREM DoneTheorem == Spec => []DoneIsWhole
<1>1. DoneInv => DoneIsWhole
  BY DEF DoneInv, DoneIsWhole
<1> QED
  BY <1>1, ItemsHold, PTL

\* However a file is cut into chunks and batches, every row keeps its text and its number, if
\* the characters of NDJSON files are whole.
THEOREM NumberTheorem == ASSUME WholeCharacters PROVE Spec => []RowsKeepTheirNumber
<1>1. ASSUME TypeInv, TakenInv PROVE RowsKeepTheirNumber
  <2> SUFFICES ASSUME NEW k \in 1..Len(taken)
               PROVE  \E n \in 1..Len(file) :
                        /\ IsRow(n) /\ Rank(n) = k
                        /\ taken[k].line = IF format = "ndjson" THEN n ELSE k
                        /\ IF format = "ndjson" /\ n \in cuts THEN Legible(taken[k].text, Trim(file[n]))
                           ELSE taken[k].text = Trim(file[n])
    <3>1. DOMAIN taken = 1..Len(taken) /\ DOMAIN file = 1..Len(file)
      BY <1>1, ItemLengths, FileLines
    <3> QED
      BY <3>1 DEF RowsKeepTheirNumber
  <2>1. Good(taken[k], k) /\ (format # "ndjson" => taken[k].line = k)
    BY <1>1 DEF TakenInv
  <2>2. PICK n \in 1..Len(file) :
          IsRow(n) /\ Rank(n) = k /\ (format = "ndjson" => taken[k].line = n) /\ TextBut(taken[k].text, n, cuts)
    BY <2>1 DEF Good, GoodBut
  <2>3. Lost(n, cuts) <=> format = "ndjson" /\ n \in cuts
    BY WholeCharacters DEF Lost
  <2> QED
    BY <2>1, <2>2, <2>3 DEF TextBut
<1>2. TypeInv /\ TakenInv => RowsKeepTheirNumber
  BY <1>1
<1> QED
  BY <1>2, ItemsHold, PTL
=============================================================================
