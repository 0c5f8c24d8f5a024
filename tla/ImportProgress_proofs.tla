----------------------- MODULE ImportProgress_proofs -----------------------
(* Proofs that ImportStreams neither stands still nor goes on for ever. *)
EXTENDS ImportStreams_proofs

-----------------------------------------------------------------------------
(* Something can always go on *)

\* A chunk that has something in it, or the end.
SourceReady ==
  \/ rest = << <<>> >>
  \/ \E n \in 0..ChunkLines : n < Len(rest) /\ \E k \in 0..Len(rest[n + 1]) : n + k > 0

\* The guards of the steps, without what the steps do.
SourceGoesOn == source = "open" /\ lines = <<>> /\ (format # "json" => Drained) /\ SourceReady
ParserGoesOn == lines # <<>> \/ (source = "ended" /\ lines = <<>> /\ parser = "open")
BatchGoesOn ==
  /\ format # "json"
  /\ \/ queue # <<>> /\ Len(ready) < Hwm
     \/ parser = "ended" /\ queue = <<>> /\ batches = "open"
LoopGoesOn ==
  \/ loop \in {"scan", "records", "progress"}
  \/ loop = "wait" /\ (ready # <<>> \/ NoMore)
  \/ loop = "wait" /\ format = "json" /\ lines = <<>> /\ queue # <<>>

\* An import that runs can go on at one end of its streams at least, unless its connection broke
\* off without an event: source, parser, batches and loop never all wait for each other, however
\* large a batch, a chunk and the streams between them are (processCsvImport,
\* processNdjsonImport, processJsonImport).
SomethingGoesOn ==
  Running =>
    \/ SourceGoesOn \/ ParserGoesOn \/ BatchGoesOn \/ LoopGoesOn
    \/ source = "broken" /\ format # "json"

\* The loop over the chunks of a JSON file is told of a lost connection.
BrokenInv == source = "broken" => format # "json"

LEMMA BrokenStep == ASSUME BrokenInv, [Next]_vars PROVE BrokenInv'
<1>1. CASE SourceBreaks
  BY <1>1 DEF SourceBreaks, BrokenInv
<1>2. CASE UNCHANGED vars
  BY <1>2 DEF vars, BrokenInv
<1>3. CASE SourceStep
  BY <1>3 DEF SourceStep, SendChunk, SourceEnds, BrokenInv
<1>4. CASE ParserStep \/ BatchStep
  BY <1>4 DEF ParserStep, ParseLine, ParserEnds, ParserFails, ParseArray, BatchStep, AddToBatch, BatchesEnd,
     sourceVars, BrokenInv
<1>5. CASE LoopStep \/ DatabaseFails
  BY <1>5 DEF LoopStep, TakeBatch, TakeSlice, ScanItem, ScanEnds, ProcessRecords, ValidationFails,
     UpdateJobProgress, Complete, DatabaseFails, sourceVars, BrokenInv
<1> QED
  BY <1>1, <1>2, <1>3, <1>4, <1>5 DEF Next

\* There is always a next chunk, if only of one piece, or the end.
LEMMA SourceIsReady == ASSUME TypeInv PROVE SourceReady
<1>1. /\ rest \in Seq(Seq(Piece)) /\ Len(rest) \in Nat \ {0} /\ rest[1] \in Seq(Piece)
      /\ ChunkLines \in Nat \ {0}
  <2>1. rest \in Text
    BY DEF TypeInv, TypeOK
  <2> QED
    BY <2>1, LinesOfText, SizesAssumption
<1>2. CASE Len(rest) > 1
  <2>1. 1 \in 0..ChunkLines /\ rest[1 + 1] \in Seq(Piece)
    BY <1>1, <1>2
  <2>2. 0 \in 0..Len(rest[1 + 1]) /\ 1 + 0 > 0
    BY <2>1
  <2> QED
    BY <1>2, <2>1, <2>2 DEF SourceReady
<1>3. CASE Len(rest) = 1 /\ rest[1] # <<>>
  <2>1. Len(rest[1]) \in Nat \ {0}
    BY <1>1, <1>3
  <2>2. 1 \in 0..Len(rest[0 + 1]) /\ 0 \in 0..ChunkLines /\ 0 < Len(rest) /\ 0 + 1 > 0
    BY <1>1, <1>3, <2>1
  <2> QED
    BY <2>2 DEF SourceReady
<1>4. CASE Len(rest) = 1 /\ rest[1] = <<>>
  <2>1. rest = << <<>> >>
    BY <1>1, <1>4
  <2> QED
    BY <2>1 DEF SourceReady
<1>5. Len(rest) > 1 \/ Len(rest) = 1
  <2>1. \A n \in Nat \ {0} : n > 1 \/ n = 1
    OBVIOUS
  <2> QED
    BY <1>1, <2>1
<1> QED
  BY <1>2, <1>3, <1>4, <1>5

LEMMA SomethingGoes == ASSUME TypeInv, EndInv, BrokenInv PROVE SomethingGoesOn
<1> SUFFICES ASSUME Running, ~ParserGoesOn, ~BatchGoesOn, ~LoopGoesOn, source # "broken"
             PROVE  SourceGoesOn
  BY DEF SomethingGoesOn, BrokenInv
<1>1. loop = "wait" /\ ready = <<>> /\ lines = <<>> /\ SourceReady
  <2>1. loop \in {"wait", "scan", "records", "progress", "done", "failed", "dead"}
    BY DEF TypeInv, TypeOK
  <2> QED
    BY <2>1, SourceIsReady DEF Running, LoopGoesOn, ParserGoesOn
<1>2. /\ source \in {"open", "ended"} /\ parser \in {"open", "ended"} /\ batches \in {"open", "ended"}
      /\ source = "ended" => parser = "ended"
  BY <1>1 DEF TypeInv, TypeOK, ParserGoesOn
<1>3. CASE format = "json"
  <2>1. queue = <<>>
    BY <1>1, <1>3 DEF LoopGoesOn
  <2>2. parser # "ended"
    BY <1>1, <1>3, <2>1 DEF LoopGoesOn, NoMore
  <2> QED
    BY <1>1, <1>2, <1>3, <2>2 DEF SourceGoesOn
<1>4. CASE format # "json"
  <2>1. Len(ready) < Hwm /\ 0 < Hwm /\ Len(<<>>) = 0
    BY <1>1, SizesAssumption
  <2>2. queue = <<>>
    BY <1>4, <2>1 DEF BatchGoesOn
  <2>3. Drained
    BY <2>1, <2>2 DEF Drained
  <2>4. source # "ended"
    <3>1. batches # "ended"
      BY <1>1, <1>4 DEF LoopGoesOn, NoMore
    <3>2. parser # "ended"
      BY <1>2, <1>4, <2>2, <3>1 DEF BatchGoesOn
    <3> QED
      BY <1>2, <3>2
  <2> QED
    BY <1>1, <1>2, <2>3, <2>4 DEF SourceGoesOn
<1> QED
  BY <1>3, <1>4

\* Back pressure never brings an import to a standstill.
THEOREM GoesOnTheorem == Spec => []SomethingGoesOn
<1>1. Init => BrokenInv
  BY DEF Init, BrokenInv
<1>2. TypeInv /\ EndInv /\ BrokenInv => SomethingGoesOn
  BY SomethingGoes
<1> QED
  BY <1>1, <1>2, BrokenStep, WaitHolds, PTL DEF Spec

-----------------------------------------------------------------------------
(* Nothing goes on for ever *)

\* The most steps that a batch, an item and a line may still take.
PerBatch == BatchSize + 4
PerItem == PerBatch + 1
PerLine == PerItem + 1

OfLines == PerLine * Len(lines)
OfItems == PerItem * Len(queue)
OfReady == PerBatch * Len(ready)
OfArray == IF format = "json" /\ parser = "open" THEN PerLine * Len(buffer) ELSE 0
OfSource == IF source = "open" THEN 1 ELSE 0
OfParser == IF parser = "open" THEN PerLine ELSE 0
OfBatches == IF batches = "open" THEN PerItem ELSE 0
OfLoop ==
  CASE loop = "scan" -> 3 + Len(work) [] loop = "records" -> 2 [] loop = "progress" -> 1 [] OTHER -> 0

\* Steps an import may take before its next chunk.
Ahead ==
  IF Running
  THEN OfLines + OfItems + OfReady + OfArray + OfSource + OfParser + OfBatches + OfLoop + 1
  ELSE 0

AheadIsNumber == Ahead \in Nat

\* Less of the file is left: fewer lines, or the same with less of the first.
LessIsLeft ==
  \/ Len(rest') < Len(rest)
  \/ Len(rest') = Len(rest) /\ Len(rest'[1]) < Len(rest[1])

\* Every step takes a piece of the file or uses up what came from it, with faults or without: no
\* line, item, batch or error is gone through again (NdjsonParseTransform, BatchTransform and the
\* loops over batches).
EveryStepCounts == [][LessIsLeft \/ (rest' = rest /\ Ahead' < Ahead)]_vars

LEMMA Times == ASSUME NEW c \in Nat, NEW n \in Nat PROVE c * n \in Nat /\ c * (n + 1) = c * n + c
BY Z3

LEMMA Weights ==
  /\ PerBatch \in Nat /\ PerItem \in Nat /\ PerLine \in Nat
  /\ PerBatch = BatchSize + 4 /\ PerItem = PerBatch + 1 /\ PerLine = PerItem + 1
  /\ BatchSize \in Nat \ {0}
<1>1. BatchSize \in Nat \ {0}
  BY SizesAssumption
<1> QED
  BY <1>1 DEF PerBatch, PerItem, PerLine

LEMMA AheadTypes ==
  ASSUME TypeInv
  PROVE  /\ OfLines \in Nat /\ OfItems \in Nat /\ OfReady \in Nat /\ OfArray \in Nat
         /\ OfSource \in 0..1 /\ OfParser \in {0, PerLine} /\ OfBatches \in {0, PerItem} /\ OfLoop \in Nat
         /\ Ahead \in Nat
<1>1. Len(lines) \in Nat /\ Len(queue) \in Nat /\ Len(ready) \in Nat
  BY Lengths
<1>2. Len(buffer) \in Nat /\ Len(work) \in Nat
  <2>1. buffer \in Text /\ work \in Seq(Item)
    BY DEF TypeInv, TypeOK
  <2> QED
    BY <2>1, LinesOfText
<1>3. OfLines \in Nat
  BY <1>1, Weights, Times DEF OfLines
<1>4. OfItems \in Nat
  BY <1>1, Weights, Times DEF OfItems
<1>5. OfReady \in Nat
  BY <1>1, Weights, Times DEF OfReady
<1>6. OfArray \in Nat
  <2>1. PerLine * Len(buffer) \in Nat
    BY <1>2, Weights, Times
  <2> QED
    BY <2>1 DEF OfArray
<1>7. OfSource \in 0..1 /\ OfParser \in {0, PerLine} /\ OfBatches \in {0, PerItem}
  BY DEF OfSource, OfParser, OfBatches
<1>8. OfLoop \in Nat
  <2>1. 3 + Len(work) \in Nat
    BY <1>2
  <2> QED
    BY <2>1 DEF OfLoop
<1>9. OfSource \in Nat /\ OfParser \in Nat /\ OfBatches \in Nat
  BY <1>7, Weights
<1>10. Ahead \in Nat
  BY <1>3, <1>4, <1>5, <1>6, <1>8, <1>9 DEF Ahead
<1> QED
  BY <1>3, <1>4, <1>5, <1>6, <1>7, <1>8, <1>10

\* To compare the sums, compare their parts.
LEMMA AheadSum ==
  ASSUME Running,
         NEW a \in Nat, OfLines = a, NEW a1 \in Nat, OfLines' = a1,
         NEW b \in Nat, OfItems = b, NEW b1 \in Nat, OfItems' = b1,
         NEW c \in Nat, OfReady = c, NEW c1 \in Nat, OfReady' = c1,
         NEW d \in Nat, OfArray = d, NEW d1 \in Nat, OfArray' = d1,
         NEW e \in Nat, OfSource = e, NEW e1 \in Nat, OfSource' = e1,
         NEW f \in Nat, OfParser = f, NEW f1 \in Nat, OfParser' = f1,
         NEW g \in Nat, OfBatches = g, NEW g1 \in Nat, OfBatches' = g1,
         NEW h \in Nat, OfLoop = h, NEW h1 \in Nat, OfLoop' = h1,
         a1 + b1 + c1 + d1 + e1 + f1 + g1 + h1 < a + b + c + d + e + f + g + h
  PROVE  Ahead' < Ahead
<1>1. Ahead = a + b + c + d + e + f + g + h + 1
  BY DEF Ahead
<1>2. Ahead' = a1 + b1 + c1 + d1 + e1 + f1 + g1 + h1 + 1 \/ Ahead' = 0
  BY DEF Ahead
<1> QED
  BY <1>1, <1>2

\* Two parts change and the others stay.
LEMMA TwoParts ==
  ASSUME TypeInv, Running,
         OfLines' = OfLines, OfArray' = OfArray, OfSource' = OfSource, OfParser' = OfParser,
         OfBatches' = OfBatches,
         NEW i \in Nat, OfItems = i, NEW i1 \in Nat, OfItems' = i1,
         NEW r \in Nat, OfReady = r, NEW r1 \in Nat, OfReady' = r1,
         NEW h \in Nat, OfLoop = h, NEW h1 \in Nat, OfLoop' = h1,
         i1 + r1 + h1 < i + r + h
  PROVE  Ahead' < Ahead
<1>1. PICK a \in Nat, d \in Nat, e \in Nat, f \in Nat, g \in Nat :
        OfLines = a /\ OfArray = d /\ OfSource = e /\ OfParser = f /\ OfBatches = g
  <2>1. OfSource \in Nat /\ OfParser \in Nat /\ OfBatches \in Nat
    BY AheadTypes, Weights
  <2> QED
    BY <2>1, AheadTypes
<1>2. a + i1 + r1 + d + e + f + g + h1 < a + i + r + d + e + f + g + h
  OBVIOUS
<1> QED
  BY <1>1, <1>2, AheadSum

LEMMA LoopValues ==
  /\ loop = "wait" => OfLoop = 0
  /\ loop = "progress" => OfLoop = 1
  /\ loop = "records" => OfLoop = 2
  /\ loop = "scan" => OfLoop = 3 + Len(work)
  /\ loop' = "wait" => OfLoop' = 0
  /\ loop' = "progress" => OfLoop' = 1
  /\ loop' = "records" => OfLoop' = 2
  /\ loop' = "scan" => OfLoop' = 3 + Len(work')
BY DEF OfLoop

\* An import that is over has no step left.
LEMMA OverShrinks ==
  ASSUME TypeInv, Running, loop' \in {"done", "failed", "dead"}
  PROVE  Ahead' < Ahead
<1>1. Ahead' = 0
  BY DEF Ahead, Running
<1>2. OfLines + OfItems + OfReady + OfArray + OfSource + OfParser + OfBatches + OfLoop \in Nat
  <2>1. OfSource \in Nat /\ OfParser \in Nat /\ OfBatches \in Nat
    BY AheadTypes, Weights
  <2> QED
    BY <2>1, AheadTypes
<1> QED
  BY <1>1, <1>2 DEF Ahead

\* What a step of the loop leaves alone.
LEMMA LoopOnly ==
  ASSUME TypeInv, Running,
         UNCHANGED <<rest, format, source, lines, buffer, parser, queue, ready, batches>>,
         OfLoop' \in Nat, OfLoop' < OfLoop
  PROVE  Ahead' < Ahead
<1>1. /\ OfLines' = OfLines /\ OfItems' = OfItems /\ OfReady' = OfReady /\ OfArray' = OfArray
      /\ OfSource' = OfSource /\ OfParser' = OfParser /\ OfBatches' = OfBatches
  BY DEF OfLines, OfItems, OfReady, OfArray, OfSource, OfParser, OfBatches
<1>2. OfSource \in Nat /\ OfParser \in Nat /\ OfBatches \in Nat
  BY AheadTypes, Weights
<1> QED
  BY <1>1, <1>2, AheadTypes, AheadSum

LEMMA SourceShrinks ==
  ASSUME TypeInv, SourceStep \/ SourceBreaks
  PROVE  LessIsLeft \/ (rest' = rest /\ Ahead' < Ahead)
<1>1. ASSUME NEW n \in 0..ChunkLines, n < Len(rest), NEW k \in 0..Len(rest[n + 1]), SendChunk(n, k)
      PROVE  LessIsLeft
  <2>1. rest \in Text /\ n \in Nat
    BY <1>1, SizesAssumption DEF TypeInv, TypeOK
  <2>2. rest' = Left(n, k) /\ n + k > 0
    BY <1>1 DEF SendChunk
  <2>3. Len(rest') = Len(rest) - n /\ Len(rest) \in Nat
    BY <1>1, <2>1, <2>2, TakenType, LinesOfText
  <2>4. CASE n > 0
    BY <2>1, <2>3, <2>4 DEF LessIsLeft
  <2>5. CASE n = 0
    <3>1. rest[1] \in Seq(Piece) /\ k \in 1..Len(rest[1]) /\ rest \in Seq(Seq(Piece))
      BY <1>1, <2>1, <2>2, <2>5, LinesOfText
    <3> DEFINE line == SubSeq(rest[1], k + 1, Len(rest[1]))
    <3>2. line \in Seq(Piece) /\ Len(line) = Len(rest[1]) - k
      BY <3>1
    <3>3. rest' = <<line>> \o SubSeq(rest, 2, Len(rest))
      BY <2>2, <2>5 DEF Left
    <3>4. SubSeq(rest, 2, Len(rest)) \in Seq(Seq(Piece)) /\ <<line>> \in Seq(Seq(Piece)) /\ Len(<<line>>) = 1
      BY <2>3, <3>1, <3>2
    <3> HIDE DEF line
    <3>5. rest'[1] = line
      BY <3>3, <3>4
    <3> QED
      BY <2>3, <2>5, <3>1, <3>2, <3>5 DEF LessIsLeft
  <2> QED
    BY <2>1, <2>4, <2>5
<1>2. ASSUME Running, source = "open", source' # "open",
             UNCHANGED <<rest, format, lines, buffer, parser, queue, ready, batches, loop, work>>
      PROVE  Ahead' < Ahead
  <2>1. /\ OfLines' = OfLines /\ OfItems' = OfItems /\ OfReady' = OfReady /\ OfArray' = OfArray
        /\ OfSource = 1 /\ OfSource' = 0 /\ OfParser' = OfParser /\ OfBatches' = OfBatches /\ OfLoop' = OfLoop
    BY <1>2 DEF OfLines, OfItems, OfReady, OfArray, OfSource, OfParser, OfBatches, OfLoop
  <2>2. OfParser \in Nat /\ OfBatches \in Nat
    BY AheadTypes, Weights
  <2> QED
    BY <1>2, <2>1, <2>2, AheadTypes, AheadSum
<1>3. CASE SourceEnds
  BY <1>2, <1>3 DEF SourceEnds, parserVars, batchVars, loopVars
<1>4. CASE SourceBreaks
  <2>1. Running /\ rest' = rest
    BY <1>4 DEF SourceBreaks
  <2>2. CASE loop' \in {"failed", "dead"}
    BY <2>1, <2>2, OverShrinks
  <2>3. CASE source' = "broken" /\ loop' = loop
    BY <1>2, <1>4, <2>3 DEF SourceBreaks, parserVars, batchVars
  <2> QED
    BY <1>4, <2>1, <2>2, <2>3 DEF SourceBreaks
<1> QED
  BY <1>1, <1>3, <1>4, <1>2 DEF SourceStep, SourceEnds

LEMMA LoopShrinks ==
  ASSUME TypeInv,
         ScanItem \/ ScanEnds \/ ProcessRecords \/ ValidationFails \/ DatabaseFails \/ UpdateJobProgress
         \/ Complete \/ ParserFails
  PROVE  rest' = rest /\ Ahead' < Ahead
<1>1. Running
  BY DEF ScanItem, ScanEnds, ProcessRecords, ValidationFails, DatabaseFails, UpdateJobProgress, Complete,
     ParserFails, Running
<1>2. CASE ValidationFails \/ DatabaseFails \/ Complete \/ ParserFails
  <2>1. rest' = rest /\ loop' \in {"done", "failed", "dead"}
    BY <1>2 DEF ValidationFails, DatabaseFails, Complete, ParserFails, sourceVars
  <2> QED
    BY <1>1, <2>1, OverShrinks
<1>3. CASE ScanItem
  <2>1. loop = "scan" /\ loop' = "scan" /\ work # <<>> /\ work \in Seq(Item) /\ work' = Tail(work)
    BY <1>3 DEF ScanItem, TypeInv, TypeOK
  <2>2. Len(work') = Len(work) - 1 /\ Len(work) \in Nat /\ Len(work') \in Nat
    BY <2>1
  <2>3. OfLoop = 3 + Len(work) /\ OfLoop' = 3 + Len(work')
    BY <2>1, LoopValues
  <2>4. OfLoop' \in Nat /\ OfLoop' < OfLoop
    BY <2>2, <2>3
  <2>5. UNCHANGED <<rest, format, source, lines, buffer, parser, queue, ready, batches>>
    BY <1>3 DEF ScanItem, sourceVars, parserVars, batchVars
  <2> QED
    BY <1>1, <2>4, <2>5, LoopOnly
<1>4. CASE ScanEnds
  <2>1. loop = "scan" /\ work = <<>> /\ loop' \in {"wait", "progress", "records"}
    BY <1>4 DEF ScanEnds, AfterBatch
  <2>2. OfLoop = 3
    BY <2>1, LoopValues
  <2>3. OfLoop' = 0 \/ OfLoop' = 1 \/ OfLoop' = 2
    BY <2>1, LoopValues
  <2>4. OfLoop' \in Nat /\ OfLoop' < OfLoop
    BY <2>2, <2>3
  <2>5. UNCHANGED <<rest, format, source, lines, buffer, parser, queue, ready, batches>>
    BY <1>4 DEF ScanEnds, sourceVars, parserVars, batchVars
  <2> QED
    BY <1>1, <2>4, <2>5, LoopOnly
<1>5. CASE ProcessRecords
  <2>1. loop = "records" /\ loop' \in {"wait", "progress"}
    BY <1>5 DEF ProcessRecords, AfterBatch
  <2>2. OfLoop = 2 /\ (OfLoop' = 0 \/ OfLoop' = 1)
    BY <2>1, LoopValues
  <2>3. OfLoop' \in Nat /\ OfLoop' < OfLoop
    BY <2>2
  <2>4. UNCHANGED <<rest, format, source, lines, buffer, parser, queue, ready, batches>>
    BY <1>5 DEF ProcessRecords, sourceVars, parserVars, batchVars
  <2> QED
    BY <1>1, <2>3, <2>4, LoopOnly
<1>6. CASE UpdateJobProgress
  <2>1. loop = "progress" /\ loop' = "wait"
    BY <1>6 DEF UpdateJobProgress
  <2>2. OfLoop = 1 /\ OfLoop' = 0
    BY <2>1, LoopValues
  <2>3. OfLoop' \in Nat /\ OfLoop' < OfLoop
    BY <2>2
  <2>4. UNCHANGED <<rest, format, source, lines, buffer, parser, queue, ready, batches>>
    BY <1>6 DEF UpdateJobProgress, sourceVars, parserVars, batchVars
  <2> QED
    BY <1>1, <2>3, <2>4, LoopOnly
<1> QED
  BY <1>2, <1>3, <1>4, <1>5, <1>6

\* One line, item or batch more or less.
LEMMA OneLine ==
  ASSUME Len(lines) \in Nat, Len(lines') \in Nat, Len(lines) = Len(lines') + 1
  PROVE  OfLines = OfLines' + PerLine /\ OfLines' \in Nat
<1>1. PerLine * (Len(lines') + 1) = PerLine * Len(lines') + PerLine /\ PerLine * Len(lines') \in Nat
  BY Times, Weights
<1> QED
  BY <1>1 DEF OfLines

LEMMA OneItemMore ==
  ASSUME Len(queue) \in Nat, Len(queue') = Len(queue) + 1
  PROVE  OfItems' = OfItems + PerItem
<1>1. PerItem * (Len(queue) + 1) = PerItem * Len(queue) + PerItem
  BY Times, Weights
<1> QED
  BY <1>1 DEF OfItems

LEMMA OneItemLess ==
  ASSUME Len(queue) \in Nat, Len(queue') \in Nat, Len(queue) = Len(queue') + 1
  PROVE  OfItems = OfItems' + PerItem /\ OfItems' \in Nat
<1>1. PerItem * (Len(queue') + 1) = PerItem * Len(queue') + PerItem /\ PerItem * Len(queue') \in Nat
  BY Times, Weights
<1> QED
  BY <1>1 DEF OfItems

LEMMA OneBatchMore ==
  ASSUME Len(ready) \in Nat, Len(ready') = Len(ready) + 1
  PROVE  OfReady' = OfReady + PerBatch
<1>1. PerBatch * (Len(ready) + 1) = PerBatch * Len(ready) + PerBatch
  BY Times, Weights
<1> QED
  BY <1>1 DEF OfReady

LEMMA OneBatchLess ==
  ASSUME Len(ready) \in Nat, Len(ready') \in Nat, Len(ready) = Len(ready') + 1
  PROVE  OfReady = OfReady' + PerBatch /\ OfReady' \in Nat
<1>1. PerBatch * (Len(ready') + 1) = PerBatch * Len(ready') + PerBatch /\ PerBatch * Len(ready') \in Nat
  BY Times, Weights
<1> QED
  BY <1>1 DEF OfReady

LEMMA Exchange ==
  ASSUME NEW a1 \in Nat, NEW b \in Nat, NEW b1 \in Nat, NEW p \in Nat, b1 < b + p
  PROVE  a1 + b1 < (a1 + p) + b
OBVIOUS

LEMMA LineShrinks == ASSUME TypeInv, ParseLine PROVE rest' = rest /\ Ahead' < Ahead
<1>1. Running /\ rest' = rest
  BY DEF ParseLine, sourceVars
<1>2. lines \in Seq(Seq(Piece)) /\ lines # <<>> /\ lines' = Tail(lines) /\ queue \in Seq(Item)
  BY DEF ParseLine, TypeInv, TypeOK
<1>3. Len(lines) \in Nat /\ Len(lines) # 0 /\ Len(lines') = Len(lines) - 1 /\ Len(queue) \in Nat
  BY <1>2
<1>4. OfLines = OfLines' + PerLine /\ OfLines' \in Nat
  <2>1. Len(lines') \in Nat /\ Len(lines) = Len(lines') + 1
    BY <1>3
  <2> QED
    BY <1>3, <2>1, OneLine
<1>5. OfItems' = OfItems \/ OfItems' = OfItems + PerItem
  <2>1. queue' = queue \/ queue' = Append(queue, Parsed(lines[1]))
    BY DEF ParseLine, Push
  <2>2. Len(queue') = Len(queue) \/ Len(queue') = Len(queue) + 1
    BY <1>2, <2>1
  <2> QED
    BY <1>3, <2>2, OneItemMore DEF OfItems
<1>6. /\ OfReady' = OfReady /\ OfArray' = OfArray /\ OfSource' = OfSource /\ OfParser' = OfParser
      /\ OfBatches' = OfBatches /\ OfLoop' = OfLoop
  BY DEF ParseLine, sourceVars, batchVars, loopVars, OfReady, OfArray, OfSource, OfParser, OfBatches, OfLoop
<1>7. OfSource \in Nat /\ OfParser \in Nat /\ OfBatches \in Nat
  BY AheadTypes, Weights
<1>8. OfItems' \in Nat /\ OfLines' + OfItems' < OfLines + OfItems
  BY <1>4, <1>5, AheadTypes, Weights
<1> QED
  BY <1>1, <1>4, <1>6, <1>7, <1>8, AheadTypes, AheadSum

LEMMA FlushShrinks == ASSUME TypeInv, ParserEnds PROVE rest' = rest /\ Ahead' < Ahead
<1>1. Running /\ rest' = rest /\ format # "json" /\ format' = format /\ parser = "open" /\ parser' = "ended"
  BY DEF ParserEnds, sourceVars
<1>2. queue \in Seq(Item) /\ Len(queue) \in Nat
  BY DEF TypeInv, TypeOK
<1>3. OfItems' = OfItems \/ OfItems' = OfItems + PerItem
  <2>1. queue' = queue \/ queue' = Append(queue, Parsed(buffer[1]))
    BY DEF ParserEnds, Flush, Push
  <2>2. Len(queue') = Len(queue) \/ Len(queue') = Len(queue) + 1
    BY <1>2, <2>1
  <2> QED
    BY <1>2, <2>2, OneItemMore DEF OfItems
<1>4. OfParser = PerLine /\ OfParser' = 0 /\ OfArray = 0 /\ OfArray' = 0
  BY <1>1 DEF OfParser, OfArray
<1>5. /\ OfLines' = OfLines /\ OfReady' = OfReady /\ OfSource' = OfSource
      /\ OfBatches' = OfBatches /\ OfLoop' = OfLoop
  BY DEF ParserEnds, sourceVars, batchVars, loopVars, OfLines, OfReady, OfSource, OfBatches, OfLoop
<1>6. OfSource \in Nat /\ OfBatches \in Nat /\ OfItems \in Nat /\ PerLine \in Nat /\ PerItem \in Nat
      /\ PerLine = PerItem + 1
  BY AheadTypes, Weights
<1>7. OfItems' \in Nat /\ OfItems' < OfItems + PerLine
  BY <1>3, <1>6
<1> QED
  BY <1>1, <1>4, <1>5, <1>6, <1>7, AheadTypes, AheadSum

LEMMA ArrayShrinks == ASSUME TypeInv, ParseArray PROVE rest' = rest /\ Ahead' < Ahead
<1>1. /\ Running /\ rest' = rest /\ format = "json" /\ format' = format
      /\ parser = "open" /\ parser' = "ended" /\ buffer' = buffer
  BY DEF ParseArray, sourceVars
<1>2. CASE loop' = "failed"
  BY <1>1, <1>2, OverShrinks
<1>3. CASE loop' # "failed"
  <2>1. lines' = buffer /\ loop' = loop
    BY <1>3 DEF ParseArray
  <2>2. OfLines' = OfArray /\ OfArray' = 0 /\ OfParser = PerLine /\ OfParser' = 0
    BY <1>1, <2>1 DEF OfLines, OfArray, OfParser
  <2>3. /\ OfItems' = OfItems /\ OfReady' = OfReady /\ OfSource' = OfSource
        /\ OfBatches' = OfBatches /\ OfLoop' = OfLoop
    BY <2>1 DEF ParseArray, sourceVars, batchVars, OfItems, OfReady, OfSource, OfBatches, OfLoop
  <2>4. OfSource \in Nat /\ OfBatches \in Nat /\ PerLine \in Nat /\ PerLine > 0
    BY AheadTypes, Weights
  <2> QED
    BY <1>1, <2>2, <2>3, <2>4, AheadTypes, AheadSum
<1> QED
  BY <1>2, <1>3

LEMMA BatchShrinks == ASSUME TypeInv, AddToBatch \/ BatchesEnd PROVE rest' = rest /\ Ahead' < Ahead
<1>1. Running /\ rest' = rest
  BY DEF AddToBatch, BatchesEnd, sourceVars
<1>2. queue \in Seq(Item) /\ Len(queue) \in Nat /\ ready \in Seq(Seq(Item)) /\ Len(ready) \in Nat
  BY DEF TypeInv, TypeOK
<1>3. OfReady' = OfReady \/ OfReady' = OfReady + PerBatch
  <2>1. ready' = ready \/ (\E items : ready' = Append(ready, items))
    BY DEF AddToBatch, BatchesEnd
  <2>2. Len(ready') = Len(ready) \/ Len(ready') = Len(ready) + 1
    BY <1>2, <2>1
  <2> QED
    BY <1>2, <2>2, OneBatchMore DEF OfReady
<1>4. /\ OfLines' = OfLines /\ OfArray' = OfArray /\ OfSource' = OfSource /\ OfParser' = OfParser
      /\ OfLoop' = OfLoop
  BY DEF AddToBatch, BatchesEnd, sourceVars, parserVars, loopVars, OfLines, OfArray, OfSource, OfParser, OfLoop
<1>5. OfSource \in Nat /\ OfParser \in Nat /\ OfBatches \in Nat /\ OfReady \in Nat /\ OfItems \in Nat
      /\ PerBatch \in Nat /\ PerItem \in Nat /\ PerItem = PerBatch + 1
  BY AheadTypes, Weights
<1>6. OfReady' \in Nat /\ OfReady' < OfReady + PerItem
  BY <1>3, <1>5
<1>7. CASE AddToBatch
  <2>1. queue # <<>> /\ queue' = Tail(queue) /\ batches' = batches
    BY <1>7 DEF AddToBatch
  <2>2. Len(queue') = Len(queue) - 1 /\ Len(queue) # 0
    BY <1>2, <2>1
  <2>3. OfItems = OfItems' + PerItem /\ OfItems' \in Nat
    <3>1. Len(queue') \in Nat /\ Len(queue) = Len(queue') + 1
      BY <1>2, <2>2
    <3> QED
      BY <1>2, <3>1, OneItemLess
  <2>4. OfBatches' = OfBatches
    BY <2>1 DEF OfBatches
  <2>5. OfItems' + OfReady' < OfItems + OfReady
    BY <1>5, <1>6, <2>3, Exchange
  <2>6. OfItems' \in Nat /\ OfReady' \in Nat
    BY <1>6, <2>3
  <2>7. PICK i \in Nat, i1 \in Nat, r \in Nat, r1 \in Nat, h \in Nat :
          OfItems = i /\ OfItems' = i1 /\ OfReady = r /\ OfReady' = r1 /\ OfLoop = h
    BY <1>5, <2>6, AheadTypes
  <2>8. i1 + r1 + h < i + r + h
    BY <2>5, <2>7
  <2> QED
    BY <1>1, <1>4, <2>4, <2>7, <2>8, TwoParts
<1>8. CASE BatchesEnd
  <2>1. OfBatches = PerItem /\ OfBatches' = 0 /\ OfItems' = OfItems
    BY <1>8 DEF BatchesEnd, OfBatches, OfItems
  <2> QED
    BY <1>1, <1>4, <1>5, <1>6, <2>1, AheadTypes, AheadSum
<1> QED
  BY <1>7, <1>8

LEMMA TakeShrinks == ASSUME TypeInv, TakeBatch \/ TakeSlice PROVE rest' = rest /\ Ahead' < Ahead
<1>1. Running /\ rest' = rest /\ loop = "wait"
  BY DEF TakeBatch, TakeSlice, sourceVars
<1>2. queue \in Seq(Item) /\ Len(queue) \in Nat /\ ready \in Seq(Seq(Item)) /\ Len(ready) \in Nat
  BY DEF TypeInv, TypeOK
<1>3. /\ OfLines' = OfLines /\ OfArray' = OfArray /\ OfSource' = OfSource /\ OfParser' = OfParser
      /\ OfBatches' = OfBatches
  BY DEF TakeBatch, TakeSlice, sourceVars, parserVars, batchVars, OfLines, OfArray, OfSource, OfParser, OfBatches
<1>4. OfSource \in Nat /\ OfParser \in Nat /\ OfBatches \in Nat /\ OfReady \in Nat /\ OfItems \in Nat
  BY AheadTypes, Weights
<1>5. OfLoop = 0
  BY <1>1, LoopValues
<1>6. CASE TakeBatch
  <2>1. ready # <<>> /\ ready' = Tail(ready) /\ queue' = queue
    BY <1>6 DEF TakeBatch
  <2>2. Len(ready') = Len(ready) - 1 /\ Len(ready) # 0 /\ 1 \in DOMAIN ready
    BY <1>2, <2>1
  <2>3. OfReady = OfReady' + PerBatch /\ OfReady' \in Nat /\ OfItems' = OfItems
    <3>1. Len(ready') \in Nat /\ Len(ready) = Len(ready') + 1
      BY <1>2, <2>2
    <3>2. OfItems' = OfItems
      BY <2>1 DEF OfItems
    <3> QED
      BY <1>2, <3>1, <3>2, OneBatchLess
  <2>4. Len(ready[1]) \in 1..BatchSize
    BY <2>2 DEF TypeInv, TypeOK
  <2>5. OfLoop' = 2 \/ OfLoop' = 3 + Len(ready[1])
    <3>1. loop' = "records" \/ (loop' = "scan" /\ work' = ready[1])
      BY <1>6 DEF TakeBatch
    <3> QED
      BY <3>1, LoopValues
  <2>6. OfLoop' \in Nat /\ OfLoop' < PerBatch
    BY <2>4, <2>5, Weights
  <2>7. PerBatch \in Nat
    BY Weights
  <2>8. PICK i \in Nat, r1 \in Nat, p \in Nat, h1 \in Nat :
          OfItems = i /\ OfReady' = r1 /\ PerBatch = p /\ OfLoop' = h1
    BY <1>4, <2>3, <2>6, <2>7
  <2>9. i + r1 + h1 < i + (r1 + p) + 0
    BY <2>6, <2>8
  <2>10. OfReady = r1 + p /\ r1 + p \in Nat /\ OfItems' = i /\ 0 \in Nat
    BY <2>3, <2>8
  <2> QED
    BY <1>1, <1>3, <1>5, <2>8, <2>9, <2>10, TwoParts
<1>7. CASE TakeSlice
  <2> DEFINE size == IF Len(queue) < BatchSize THEN Len(queue) ELSE BatchSize
  <2>1. queue # <<>> /\ queue' = SubSeq(queue, size + 1, Len(queue)) /\ loop' = "records" /\ ready' = ready
    BY <1>7 DEF TakeSlice, batchVars
  <2>2. Len(queue) # 0
    BY <1>2, <2>1
  <2>3. size \in 1..Len(queue)
    BY <1>2, <2>2, Weights
  <2> HIDE DEF size
  <2>4. Len(queue') = Len(queue) - size
    BY <1>2, <2>1, <2>3
  <2>5. Len(queue') \in Nat /\ Len(queue') + size = Len(queue)
    BY <1>2, <2>3, <2>4
  <2>6. OfItems >= OfItems' + PerItem /\ OfItems' \in Nat
    <3>1. size - 1 \in Nat /\ Len(queue') + (size - 1) \in Nat
      BY <1>2, <2>3, <2>5
    <3>2. PerItem * (Len(queue') + (size - 1) + 1) = PerItem * (Len(queue') + (size - 1)) + PerItem
      BY <3>1, Times, Weights
    <3>3. PerItem * (Len(queue') + (size - 1)) >= PerItem * Len(queue')
      <4>1. ASSUME NEW c \in Nat, NEW m \in Nat, NEW n \in Nat PROVE c * (m + n) >= c * m
        <5>1. c * (m + n) = c * m + c * n /\ c * m \in Nat /\ c * n \in Nat
          BY Z3
        <5> QED
          BY <5>1
      <4> QED
        BY <2>5, <3>1, <4>1, Weights
    <3>4. Len(queue) = Len(queue') + (size - 1) + 1
      BY <1>2, <2>3, <2>5
    <3>5. PerItem * Len(queue') \in Nat /\ PerItem * (Len(queue') + (size - 1)) \in Nat /\ PerItem \in Nat
      BY <2>5, <3>1, Times, Weights
    <3> QED
      BY <3>2, <3>3, <3>4, <3>5 DEF OfItems
  <2>7. OfLoop' = 2 /\ OfReady' = OfReady
    BY <2>1, LoopValues DEF OfReady
  <2>8. PerItem \in Nat /\ PerItem > 2
    BY Weights
  <2>9. PICK i \in Nat, i1 \in Nat, r \in Nat, p \in Nat :
          OfItems = i /\ OfItems' = i1 /\ OfReady = r /\ PerItem = p
    BY <1>4, <2>6, <2>8
  <2>10. i1 + r + 2 < i + r + 0
    BY <2>6, <2>8, <2>9
  <2>11. OfReady' = r /\ OfLoop' = 2 /\ OfLoop = 0 /\ 0 \in Nat /\ 2 \in Nat
    BY <1>5, <2>7, <2>9
  <2> QED
    BY <1>1, <1>3, <2>9, <2>10, <2>11, TwoParts
<1> QED
  BY <1>6, <1>7

\* No import goes on for ever: together with GoesOnTheorem, it ends if something that can go on is
\* always let go on and its connection lasts.
THEOREM StepsTheorem == Spec => []AheadIsNumber /\ EveryStepCounts
<1>1. TypeInv => AheadIsNumber
  BY AheadTypes DEF AheadIsNumber
<1>2. TypeInv /\ [Next]_vars => [LessIsLeft \/ (rest' = rest /\ Ahead' < Ahead)]_vars
  BY SourceShrinks, LoopShrinks, LineShrinks, FlushShrinks, ArrayShrinks, BatchShrinks, TakeShrinks
     DEF Next, ParserStep, BatchStep, LoopStep
<1> QED
  BY <1>1, <1>2, TypesHold, PTL DEF Spec, EveryStepCounts
=============================================================================
