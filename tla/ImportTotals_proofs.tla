------------------------ MODULE ImportTotals_proofs ------------------------
(* Proofs about the totals, the error report and the memory of ImportStreams. *)
EXTENDS ImportStreams_proofs

-----------------------------------------------------------------------------
(* Items the loop has looked at *)

\* Items of the loop but for those of an NDJSON batch it has yet to look at.
Scanned == Len(taken) - Len(work)

Live == loop \in {"wait", "scan", "records", "progress", "done"}

\* The last items are those to look at, and between two batches there is nothing to do.
WorkInv ==
  /\ Len(work) <= Len(taken) /\ \A j \in 1..Len(work) : work[j] = taken[Scanned + j]
  /\ Live /\ loop # "scan" => work = <<>>
  /\ loop \in {"wait", "progress", "done"} => valid = <<>>
  /\ loop = "scan" => format = "ndjson"

\* No two items have the same number.
UniqueNumbers == \A k, l \in 1..Len(taken) : taken[k].line = taken[l].line => k = l

LEMMA NumbersUnique == ASSUME TypeInv, TakenInv PROVE UniqueNumbers
<1> SUFFICES ASSUME NEW k \in 1..Len(taken), NEW l \in 1..Len(taken), taken[k].line = taken[l].line
             PROVE  k = l
  BY DEF UniqueNumbers
<1>1. CASE format # "ndjson"
  BY <1>1 DEF TakenInv
<1>2. CASE format = "ndjson"
  <2>1. Good(taken[k], k) /\ Good(taken[l], l)
    BY DEF TakenInv
  <2>2. Rank(taken[k].line) = k
    BY <1>2, <2>1 DEF Good, GoodBut
  <2>3. Rank(taken[l].line) = l
    BY <1>2, <2>1 DEF Good, GoodBut
  <2> QED
    BY <2>2, <2>3
<1> QED
  BY <1>1, <1>2

LEMMA LoopLengths ==
  ASSUME TypeInv
  PROVE  /\ taken \in Seq(Item) /\ work \in Seq(Item) /\ valid \in Seq(Item) /\ errors \in Seq(Nat)
         /\ Len(taken) \in Nat /\ Len(work) \in Nat /\ Len(valid) \in Nat /\ Len(errors) \in Nat
         /\ counts \in Counters /\ row \in Counters /\ MaxErrors \in Nat
         /\ format \in {"csv", "ndjson", "json"}
         /\ failures \in SUBSET Nat /\ again \in Nat
<1>1. /\ taken \in Seq(Item) /\ work \in Seq(Item) /\ valid \in Seq(Item) /\ errors \in Seq(Nat)
      /\ counts \in Counters /\ row \in Counters /\ format \in Formats
      /\ failures \in SUBSET Nat /\ again \in Nat
  BY DEF TypeInv, TypeOK
<1> QED
  BY <1>1, SizesAssumption, FilesAssumption

\* What TakeBatch and TakeSlice have in common.
Takes(items) ==
  /\ items \in Seq(Item) /\ taken' = taken \o items
  /\ UNCHANGED <<format, file, cuts, errors, row, parser, failures, again>>
  /\ loop = "wait"
  /\ IF format = "ndjson" THEN loop' = "scan" /\ work' = items /\ valid' = valid
     ELSE loop' = "records" /\ valid' = items /\ work' = work
  /\ counts' = IF format = "json" THEN counts ELSE [counts EXCEPT !.total = @ + Len(items)]

LEMMA TakingItems == ASSUME TypeInv, ItemInv, TakeBatch \/ TakeSlice PROVE \E items \in Seq(Item) : Takes(items)
<1>1. CASE TakeBatch
  <2> DEFINE items == IF format = "csv" THEN Numbered(ready[1], batchNumber * BatchSize + 1) ELSE ready[1]
  <2>1. /\ ready # <<>> /\ ready \in Seq(Seq(Item)) /\ batchNumber \in Nat /\ BatchSize \in Nat
        /\ format # "json" /\ format \in {"csv", "ndjson", "json"}
    BY <1>1, ItemLengths, LoopLengths DEF TakeBatch, ItemInv, ArrayInv
  <2>2. ready[1] \in Seq(Item)
    BY <2>1
  <2>3. batchNumber * BatchSize \in Nat
    BY <2>1
  <2>4. batchNumber * BatchSize + 1 \in Nat \ {0}
    BY <2>3
  <2>5. items \in Seq(Item)
    BY <2>2, <2>4, NumberedType
  <2>6. Takes(items)
    BY <1>1, <2>1, <2>5 DEF TakeBatch, Takes, sourceVars, parserVars, tallyVars
  <2> QED
    BY <2>5, <2>6
<1>2. CASE TakeSlice
  <2> DEFINE size == IF Len(queue) < BatchSize THEN Len(queue) ELSE BatchSize
             items == Numbered(SubSeq(queue, 1, size), batchNumber * BatchSize + 1)
  <2>1. queue \in Seq(Item) /\ batchNumber \in Nat /\ BatchSize \in Nat /\ format = "json"
    BY <1>2, ItemLengths DEF TakeSlice
  <2>2. SubSeq(queue, 1, size) \in Seq(Item)
    BY <2>1
  <2>3. batchNumber * BatchSize \in Nat
    BY <2>1
  <2>4. batchNumber * BatchSize + 1 \in Nat \ {0}
    BY <2>3
  <2>5. items \in Seq(Item)
    BY <2>2, <2>4, NumberedType
  <2>6. Takes(items)
    BY <1>2, <2>1, <2>5 DEF TakeSlice, Takes, sourceVars, parserVars, tallyVars
  <2> QED
    BY <2>5, <2>6
<1> QED
  BY <1>1, <1>2

\* A step after which the loop has the same items and has found out nothing about them.
Calm ==
  /\ UNCHANGED <<format, file, work, valid, counts, errors, taken, failures, again>>
  /\ format = "json" => parser' = parser
  /\ Live' => Live
  /\ loop' = "scan" => loop = "scan"
  /\ Live' /\ loop' # "scan" => loop = loop' \/ work = <<>>
  /\ loop' \in {"wait", "progress", "done"} => loop = loop' \/ valid = <<>>

LEMMA CalmSteps ==
  ASSUME TypeInv, WorkInv,
         \/ SourceStep \/ SourceBreaks \/ ParseLine \/ ParserEnds \/ ParserFails \/ BatchStep
         \/ ScanEnds \/ ValidationFails \/ DatabaseFails \/ UpdateJobProgress \/ Complete \/ UNCHANGED vars
  PROVE  Calm
<1>1. CASE SourceStep
  BY <1>1 DEF SourceStep, SendChunk, SourceEnds, parserVars, loopVars, tallyVars, Calm, Live
<1>2. CASE SourceBreaks \/ ParserFails \/ ValidationFails \/ DatabaseFails
  BY <1>2 DEF SourceBreaks, ParserFails, ValidationFails, DatabaseFails, parserVars, tallyVars, Calm, Live
<1>3. CASE ParseLine \/ ParserEnds \/ BatchStep
  BY <1>3 DEF ParseLine, ParserEnds, BatchStep, AddToBatch, BatchesEnd, parserVars, loopVars, tallyVars, Calm, Live
<1>4. CASE ScanEnds
  <2>1. loop = "scan" /\ work = <<>> /\ UNCHANGED <<format, file, work, valid, counts, errors, taken, parser, failures, again>>
    BY <1>4 DEF ScanEnds, parserVars, tallyVars
  <2>2. loop' \in {"records", "wait", "progress"} /\ (loop' # "records" => valid = <<>>)
    BY <1>4 DEF ScanEnds, AfterBatch
  <2> QED
    BY <2>1, <2>2 DEF Calm, Live
<1>5. CASE UpdateJobProgress \/ Complete
  BY <1>5 DEF UpdateJobProgress, Complete, parserVars, tallyVars, Calm, Live, WorkInv
<1>6. CASE UNCHANGED vars
  BY <1>6 DEF vars, Calm, Live
<1> QED
  BY <1>1, <1>2, <1>3, <1>4, <1>5, <1>6

LEMMA NextShapes ==
  ASSUME TypeInv, ItemInv, WorkInv, [Next]_vars
  PROVE  Calm \/ ParseArray \/ (\E items \in Seq(Item) : Takes(items)) \/ ScanItem \/ ProcessRecords
BY CalmSteps, TakingItems DEF Next, ParserStep, LoopStep

LEMMA WorkStep ==
  ASSUME TypeInv, TypeInv', ItemInv, WorkInv, [Next]_vars
  PROVE  WorkInv'
<1>0. /\ taken \in Seq(Item) /\ work \in Seq(Item) /\ Len(taken) \in Nat /\ Len(work) \in Nat
  BY LoopLengths
<1>1. CASE Calm
  BY <1>1 DEF Calm, WorkInv, Scanned, Live
<1>2. CASE ParseArray
  BY <1>2 DEF ParseArray, WorkInv, Scanned, Live
<1>3. CASE \E items \in Seq(Item) : Takes(items)
  <2>1. PICK items \in Seq(Item) : Takes(items)
    BY <1>3
  <2>2. /\ Len(items) \in Nat /\ Len(taken \o items) = Len(taken) + Len(items)
        /\ \A j \in 1..Len(items) : (taken \o items)[Len(taken) + j] = items[j]
    BY <1>0
  <2>3. work = <<>> /\ valid = <<>> /\ taken' = taken \o items
    BY <2>1 DEF Takes, WorkInv, Live
  <2>4. CASE format = "ndjson"
    <3>1. work' = items /\ loop' = "scan" /\ format' = "ndjson"
      BY <2>1, <2>4 DEF Takes
    <3>2. Scanned' = Len(taken) /\ Len(work') <= Len(taken')
      BY <1>0, <2>2, <2>3, <3>1 DEF Scanned
    <3>3. \A j \in 1..Len(work') : work'[j] = taken'[Scanned' + j]
      BY <2>2, <2>3, <3>1, <3>2
    <3> QED
      BY <3>1, <3>2, <3>3 DEF WorkInv, Live
  <2>5. CASE format # "ndjson"
    <3>1. work' = <<>> /\ loop' = "records" /\ Len(work') = 0
      BY <2>1, <2>3, <2>5 DEF Takes
    <3>2. Len(work') <= Len(taken')
      BY <2>2, <2>3, <3>1, <1>0
    <3> QED
      BY <3>1, <3>2 DEF WorkInv, Live
  <2> QED
    BY <2>4, <2>5
<1>4. CASE ScanItem
  <2>1. loop = "scan" /\ work # <<>> /\ work' = Tail(work) /\ UNCHANGED <<format, loop, taken>>
    BY <1>4 DEF ScanItem
  <2>2. /\ Len(work') = Len(work) - 1 /\ Len(work) >= 1
        /\ \A j \in 1..Len(work') : work'[j] = work[j + 1] /\ j + 1 \in 1..Len(work)
    BY <1>0, <2>1
  <2>3. Scanned' = Scanned + 1 /\ Scanned \in Int
    BY <1>0, <2>1, <2>2 DEF Scanned
  <2>4. Len(work') <= Len(taken')
    BY <1>0, <2>1, <2>2 DEF WorkInv
  <2>5. \A j \in 1..Len(work') : work'[j] = taken'[Scanned' + j]
    <3> SUFFICES ASSUME NEW j \in 1..Len(work') PROVE work'[j] = taken'[Scanned' + j]
      OBVIOUS
    <3>1. work'[j] = taken[Scanned + (j + 1)]
      BY <2>2 DEF WorkInv
    <3>2. Scanned + (j + 1) = Scanned' + j
      BY <2>3
    <3> QED
      BY <2>1, <3>1, <3>2
  <2> QED
    BY <2>1, <2>4, <2>5 DEF WorkInv, Live
<1>5. CASE ProcessRecords
  <2>1. /\ loop = "records" /\ valid' = <<>> /\ loop' \in {"wait", "progress"}
        /\ UNCHANGED <<format, work, taken>>
    BY <1>5 DEF ProcessRecords, AfterBatch
  <2> QED
    BY <2>1 DEF WorkInv, Live, Scanned
<1> QED
  BY <1>1, <1>2, <1>3, <1>4, <1>5, NextShapes

-----------------------------------------------------------------------------
(* Totals *)

MetIn(m, kind) == Cardinality({k \in 1..m : Kind(taken[k].text) = kind})

LEMMA MetStep ==
  ASSUME NEW kind
  PROVE  /\ MetIn(0, kind) = 0
         /\ \A m \in Nat : /\ MetIn(m, kind) \in Nat
                           /\ MetIn(m + 1, kind) = MetIn(m, kind) + (IF Kind(taken[m + 1].text) = kind THEN 1 ELSE 0)
<1> DEFINE is(k) == Kind(taken[k].text) = kind
           met(m) == {k \in 1..m : is(k)}
<1>0. \A m : MetIn(m, kind) = Cardinality(met(m))
  BY DEF MetIn
<1>1. \A m \in Nat : IsFiniteSet(met(m)) /\ Cardinality(met(m)) \in Nat
  <2> SUFFICES ASSUME NEW m \in Nat PROVE IsFiniteSet(met(m)) /\ Cardinality(met(m)) \in Nat
    OBVIOUS
  <2>1. IsFiniteSet(1..m)
    BY FS_Interval
  <2>2. IsFiniteSet(met(m))
    BY <2>1, FS_Subset
  <2> QED
    BY <2>2, FS_CardinalityType
<1>2. Cardinality(met(0)) = 0
  <2>1. met(0) = {}
    OBVIOUS
  <2> QED
    BY <2>1, FS_EmptySet
<1>3. ASSUME NEW m \in Nat PROVE Cardinality(met(m + 1)) = Cardinality(met(m)) + (IF is(m + 1) THEN 1 ELSE 0)
  <2> HIDE DEF is
  <2>1. CASE is(m + 1)
    <3>1. met(m + 1) = met(m) \cup {m + 1} /\ m + 1 \notin met(m)
      BY <2>1
    <3>2. Cardinality(met(m) \cup {m + 1}) = Cardinality(met(m)) + 1
      BY <1>1, <3>1, FS_AddElement
    <3> QED
      BY <2>1, <3>1, <3>2
  <2>2. CASE ~is(m + 1)
    <3>1. met(m + 1) = met(m)
      BY <2>2
    <3> QED
      BY <1>1, <2>2, <3>1
  <2> QED
    BY <2>1, <2>2
<1> QED
  BY <1>0, <1>1, <1>2, <1>3

LEMMA MetSame ==
  ASSUME NEW kind, NEW m \in Nat, \A k \in 1..m : taken'[k] = taken[k]
  PROVE  MetIn(m, kind)' = MetIn(m, kind)
BY DEF MetIn

\* Items that are in totalRows and nowhere else, and those that are not processed.
Passed == IF format = "ndjson" THEN MetIn(Scanned, "falsy") ELSE 0
Unparsed == IF format = "ndjson" THEN MetIn(Scanned, "junk") ELSE 0

LEMMA MetIsPassed == Met("falsy") = Passed /\ Met("junk") = Unparsed
BY DEF Met, Passed, Unparsed, MetIn, Scanned

SumInv ==
  Live => /\ counts.successful + counts.failed + Passed + Len(valid) = Scanned + again
          /\ counts.processed + Passed + Unparsed + Len(valid) = Scanned
          /\ counts.successful <= counts.processed

TotalInv ==
  Live => counts.total = IF format # "json" THEN Len(taken) ELSE IF parser = "ended" THEN Rank(Len(file)) ELSE 0

RowInv == row.successful <= row.processed /\ row.processed <= row.total

LEMMA CountTypes ==
  ASSUME TypeInv, WorkInv
  PROVE  /\ counts.total \in Nat /\ counts.processed \in Nat /\ counts.successful \in Nat /\ counts.failed \in Nat
         /\ Scanned \in Nat /\ Passed \in Nat /\ Unparsed \in Nat /\ Len(valid) \in Nat /\ again \in Nat
<1>1. counts \in Counters /\ Len(taken) \in Nat /\ again \in Nat /\ Len(work) \in Nat /\ Len(valid) \in Nat
  BY LoopLengths
<1>2. Scanned \in Nat
  BY <1>1 DEF WorkInv, Scanned
<1> QED
  BY <1>1, <1>2, MetStep DEF Counters, Passed, Unparsed

LEMMA WrongRows ==
  ASSUME NEW s \in Seq(Item), NEW wrong \in SUBSET DOMAIN s
  PROVE  IsFiniteSet(wrong) /\ Cardinality(wrong) \in Nat
<1>1. DOMAIN s = 1..Len(s) /\ Len(s) \in Nat
  OBVIOUS
<1>2. IsFiniteSet(1..Len(s))
  BY <1>1, FS_Interval
<1>3. IsFiniteSet(wrong)
  BY <1>1, <1>2, FS_Subset
<1> QED
  BY <1>3, FS_CardinalityType

\* Records that are successful and failed make the two numbers larger than the batch.
LEMMA CoverSizes ==
  ASSUME NEW s \in Seq(Item), NEW good \in SUBSET DOMAIN s, NEW wrong \in SUBSET DOMAIN s, good \cup wrong = DOMAIN s
  PROVE  \E g, w, b \in Nat : /\ g = Cardinality(good) /\ w = Cardinality(wrong) /\ b = Cardinality(good \cap wrong)
                              /\ g + w = Len(s) + b /\ g <= Len(s)
<1>1. DOMAIN s = 1..Len(s) /\ Len(s) \in Nat
  OBVIOUS
<1>2. IsFiniteSet(1..Len(s)) /\ Cardinality(1..Len(s)) = Len(s)
  BY <1>1, FS_Interval
<1>3. good \cap wrong \in SUBSET DOMAIN s
  OBVIOUS
<1>4. /\ IsFiniteSet(good) /\ Cardinality(good) \in Nat /\ IsFiniteSet(wrong) /\ Cardinality(wrong) \in Nat
      /\ Cardinality(good \cap wrong) \in Nat
  BY <1>3, WrongRows
<1>5. Cardinality(good \cup wrong) = Cardinality(good) + Cardinality(wrong) - Cardinality(good \cap wrong)
  BY <1>4, FS_Union
<1>6. Cardinality(good) <= Len(s)
  BY <1>1, <1>2, FS_Subset
<1>7. PICK g \in Nat, w \in Nat, b \in Nat :
        g = Cardinality(good) /\ w = Cardinality(wrong) /\ b = Cardinality(good \cap wrong)
  BY <1>4
<1>8. PICK l \in Nat : l = Len(s) /\ l = Cardinality(good \cup wrong)
  BY <1>1, <1>2
<1>9. l = g + w - b /\ g <= l
  BY <1>5, <1>6, <1>7, <1>8
<1>10. g + w = Len(s) + b /\ g <= Len(s)
  BY <1>7, <1>8, <1>9
<1> QED
  BY <1>7, <1>10

\* What is left to show of a step: how much each number grows.
LEMMA SumsGrow ==
  ASSUME SumInv, Live, NEW su \in Nat, NEW fa \in Nat, NEW pr \in Nat, NEW pa \in Nat, NEW un \in Nat, NEW va \in Nat,
         NEW sc \in Nat, NEW ag \in Nat,
         counts.successful = su, counts.failed = fa, counts.processed = pr,
         Passed = pa, Unparsed = un, Len(valid) = va, Scanned = sc, again = ag
  PROVE  su + fa + pa + va = sc + ag /\ pr + pa + un + va = sc /\ su <= pr
BY DEF SumInv

LEMMA SumStep ==
  ASSUME TypeInv, TypeInv', ItemInv, WorkInv, WorkInv', SumInv, [Next]_vars
  PROVE  SumInv'
<1>0. /\ counts.total \in Nat /\ counts.processed \in Nat /\ counts.successful \in Nat /\ counts.failed \in Nat
      /\ Scanned \in Nat /\ Passed \in Nat /\ Unparsed \in Nat /\ Len(valid) \in Nat
      /\ counts \in Counters /\ taken \in Seq(Item) /\ work \in Seq(Item) /\ valid \in Seq(Item)
      /\ Len(taken) \in Nat /\ Len(work) \in Nat /\ again \in Nat
  BY CountTypes, LoopLengths
<1>p. PICK su \in Nat, fa \in Nat, pr \in Nat, pa \in Nat, un \in Nat, va \in Nat, ag \in Nat :
        /\ counts.successful = su /\ counts.failed = fa /\ counts.processed = pr
        /\ Passed = pa /\ Unparsed = un /\ Len(valid) = va /\ again = ag
  BY <1>0
<1>1. CASE Calm
  BY <1>1 DEF Calm, SumInv, Passed, Unparsed, Scanned, MetIn
<1>2. CASE ParseArray
  <2>1. /\ format = "json" /\ UNCHANGED <<format, work, valid, taken, again>> /\ (Live' => Live)
        /\ \/ counts' = counts
           \/ counts' = [counts EXCEPT !.total = Cardinality({n \in DOMAIN buffer : ~Blank(buffer[n])})]
    BY <1>2 DEF ParseArray, tallyVars, Live
  <2>2. counts'.successful = counts.successful /\ counts'.failed = counts.failed /\ counts'.processed = counts.processed
    BY <1>0, <2>1 DEF Counters
  <2> QED
    BY <2>1, <2>2 DEF SumInv, Passed, Unparsed, Scanned
<1>3. CASE \E items \in Seq(Item) : Takes(items)
  <2>1. PICK items \in Seq(Item) : Takes(items)
    BY <1>3
  <2>2. /\ Len(items) \in Nat /\ Len(taken \o items) = Len(taken) + Len(items)
        /\ \A k \in 1..Len(taken) : (taken \o items)[k] = taken[k]
    BY <1>0
  <2>3. work = <<>> /\ valid = <<>> /\ taken' = taken \o items /\ format' = format /\ again' = again /\ Live
    BY <2>1 DEF Takes, WorkInv, Live
  <2>4. Scanned = Len(taken) /\ Len(valid) = 0
    BY <1>0, <2>3 DEF Scanned
  <2>5. counts'.successful = counts.successful /\ counts'.failed = counts.failed /\ counts'.processed = counts.processed
    BY <1>0, <2>1 DEF Counters, Takes
  <2>6. PICK s \in Nat : s = Len(taken)
    BY <1>0
  <2>7. /\ counts.successful + counts.failed + Passed = s + ag
        /\ counts.processed + Passed + Unparsed = s
        /\ counts.successful <= counts.processed
    BY <1>0, <1>p, <2>3, <2>4, <2>6 DEF SumInv
  <2>8. CASE format = "ndjson"
    <3>1. work' = items /\ valid' = <<>> /\ Scanned' = s /\ Len(valid') = 0
      <4>1. work' = items /\ valid' = <<>>
        BY <2>1, <2>3, <2>8 DEF Takes
      <4>2. Len(taken') = s + Len(items)
        BY <2>2, <2>3, <2>6
      <4> QED
        BY <2>2, <4>1, <4>2 DEF Scanned
    <3>2. MetIn(s, "falsy")' = MetIn(s, "falsy") /\ MetIn(s, "junk")' = MetIn(s, "junk")
      BY <2>2, <2>3, <2>6, MetSame
    <3>3. Passed' = MetIn(s, "falsy")' /\ Unparsed' = MetIn(s, "junk")'
      BY <2>3, <2>8, <3>1 DEF Passed, Unparsed
    <3>4. Passed = MetIn(s, "falsy") /\ Unparsed = MetIn(s, "junk")
      BY <2>4, <2>6, <2>8 DEF Passed, Unparsed
    <3>5. Passed' = Passed /\ Unparsed' = Unparsed
      BY <3>2, <3>3, <3>4
    <3> QED
      BY <1>0, <1>p, <2>3, <2>5, <2>7, <3>1, <3>5 DEF SumInv
  <2>9. CASE format # "ndjson"
    <3>1. valid' = items /\ Scanned' = s + Len(items) /\ Len(valid') = Len(items)
      <4>1. work' = <<>> /\ valid' = items /\ Len(work') = 0
        BY <2>1, <2>3, <2>9 DEF Takes
      <4>2. Len(taken') = s + Len(items)
        BY <2>2, <2>3, <2>6
      <4> QED
        BY <2>2, <4>1, <4>2 DEF Scanned
    <3>2. Passed' = 0 /\ Unparsed' = 0 /\ Passed = 0 /\ Unparsed = 0
      BY <2>3, <2>9 DEF Passed, Unparsed
    <3>3. su + fa = s + ag /\ pr = s /\ su <= pr
      BY <1>p, <2>7, <3>2
    <3>4. counts'.successful = su /\ counts'.failed = fa /\ counts'.processed = pr /\ again' = ag
      BY <1>p, <2>3, <2>5
    <3>5. PICK l \in Nat : l = Len(items) /\ Scanned' = s + l /\ Len(valid') = l
      BY <2>2, <3>1
    <3> QED
      BY <3>2, <3>3, <3>4, <3>5 DEF SumInv
  <2> QED
    BY <2>8, <2>9
<1>4. CASE ScanItem
  <2>1. /\ loop = "scan" /\ work # <<>> /\ work' = Tail(work) /\ UNCHANGED <<format, loop, taken, again>>
        /\ IF Kind(work[1].text) = "junk" THEN counts' = [counts EXCEPT !.failed = @ + 1] ELSE counts' = counts
        /\ valid' = IF Kind(work[1].text) = "record" THEN Append(valid, work[1]) ELSE valid
    BY <1>4 DEF ScanItem
  <2>2. Len(work') = Len(work) - 1 /\ 1 \in 1..Len(work) /\ work[1] \in Item
    BY <1>0, <2>1
  <2>3. Live /\ format = "ndjson"
    BY <2>1 DEF Live, WorkInv
  <2>4. PICK s \in Nat : s = Scanned
    BY <1>0
  <2>5. Scanned' = s + 1 /\ work[1] = taken[s + 1]
    <3>1. work[1] = taken[Scanned + 1]
      BY <2>2 DEF WorkInv
    <3>2. PICK w \in Nat : w = Len(work) /\ Len(work') = w - 1
      BY <1>0, <2>2
    <3>3. PICK l \in Nat : l = Len(taken) /\ Len(taken') = l
      BY <1>0, <2>1
    <3>4. s = l - w /\ Scanned' = l - (w - 1)
      BY <2>4, <3>2, <3>3 DEF Scanned
    <3> QED
      BY <2>4, <3>1, <3>4
  <2>6. \A kind : MetIn(s + 1, kind)' = MetIn(s, kind) + (IF Kind(work[1].text) = kind THEN 1 ELSE 0)
    <3> SUFFICES ASSUME NEW kind
                 PROVE  MetIn(s + 1, kind)' = MetIn(s, kind) + (IF Kind(work[1].text) = kind THEN 1 ELSE 0)
      OBVIOUS
    <3>1. MetIn(s + 1, kind)' = MetIn(s + 1, kind)
      BY <2>1 DEF MetIn
    <3> QED
      BY <2>5, <3>1, MetStep
  <2>7. /\ Passed' = Passed + (IF Kind(work[1].text) = "falsy" THEN 1 ELSE 0)
        /\ Unparsed' = Unparsed + (IF Kind(work[1].text) = "junk" THEN 1 ELSE 0)
    <3>1. Passed' = MetIn(s + 1, "falsy")' /\ Unparsed' = MetIn(s + 1, "junk")'
      BY <2>1, <2>3, <2>5 DEF Passed, Unparsed
    <3>2. Passed = MetIn(s, "falsy") /\ Unparsed = MetIn(s, "junk")
      BY <2>3, <2>4 DEF Passed, Unparsed
    <3> QED
      BY <2>6, <3>1, <3>2
  <2>8. Kind(work[1].text) \in {"falsy", "record", "junk"}
    BY DEF Kind
  <2>9. su + fa + pa + va = s + ag /\ pr + pa + un + va = s /\ su <= pr /\ again' = ag
    BY <1>p, <2>1, <2>3, <2>4, SumsGrow
  <2>10. CASE Kind(work[1].text) = "junk"
    <3>1. counts'.failed = fa + 1 /\ counts'.successful = su /\ counts'.processed = pr /\ Len(valid') = va
      BY <1>0, <1>p, <2>1, <2>10 DEF Counters
    <3>2. Passed' = pa /\ Unparsed' = un + 1
      BY <1>p, <2>7, <2>10
    <3> QED
      BY <2>5, <2>9, <3>1, <3>2 DEF SumInv
  <2>11. CASE Kind(work[1].text) = "falsy"
    <3>1. counts'.failed = fa /\ counts'.successful = su /\ counts'.processed = pr /\ Len(valid') = va
      BY <1>p, <2>1, <2>11
    <3>2. Passed' = pa + 1 /\ Unparsed' = un
      BY <1>p, <2>7, <2>11
    <3> QED
      BY <2>5, <2>9, <3>1, <3>2 DEF SumInv
  <2>12. CASE Kind(work[1].text) = "record"
    <3>1. counts'.failed = fa /\ counts'.successful = su /\ counts'.processed = pr
      BY <1>p, <2>1, <2>12
    <3>2. Len(valid') = va + 1
      BY <1>0, <1>p, <2>1, <2>2, <2>12
    <3>3. Passed' = pa /\ Unparsed' = un
      BY <1>p, <2>7, <2>12
    <3> QED
      BY <2>5, <2>9, <3>1, <3>2, <3>3 DEF SumInv
  <2> QED
    BY <2>8, <2>10, <2>11, <2>12
<1>5. CASE ProcessRecords
  <2>1. PICK good \in SUBSET DOMAIN valid, wrong \in SUBSET DOMAIN valid, all \in SUBSET DOMAIN valid :
          /\ good \cup wrong = DOMAIN valid
          /\ counts' = [counts EXCEPT
               !.processed = @ + Processed(wrong),
               !.successful = @ + Cardinality(good),
               !.failed = @ + Cardinality(wrong) + Cardinality(all)]
          /\ again' = again + Cardinality(good \cap wrong) + Cardinality(all)
    BY <1>5 DEF ProcessRecords
  <2>2. loop = "records" /\ valid' = <<>> /\ Len(valid') = 0 /\ UNCHANGED <<format, work, taken>>
    BY <1>5 DEF ProcessRecords
  <2>3. PICK g \in Nat, w \in Nat, b \in Nat :
          /\ g = Cardinality(good) /\ w = Cardinality(wrong) /\ b = Cardinality(good \cap wrong)
          /\ g + w = va + b /\ g <= va
    <3>1. PICK g \in Nat, w \in Nat, b \in Nat :
            /\ g = Cardinality(good) /\ w = Cardinality(wrong) /\ b = Cardinality(good \cap wrong)
            /\ g + w = Len(valid) + b /\ g <= Len(valid)
      BY <1>0, <2>1, CoverSizes
    <3> QED
      BY <1>p, <3>1
  <2>4. PICK a \in Nat : a = Cardinality(all)
    BY <1>0, <2>1, WrongRows
  <2>5. counts'.processed = pr + va /\ counts'.successful = su + g /\ counts'.failed = fa + w + a
    BY <1>0, <1>p, <2>1, <2>3, <2>4 DEF Counters, Processed
  <2>6. Passed' = pa /\ Unparsed' = un /\ Scanned' = Scanned
    BY <1>p, <2>2 DEF Passed, Unparsed, Scanned, MetIn
  <2>7. PICK s \in Nat : s = Scanned
    BY <1>0
  <2>8. su + fa + pa + va = s + ag /\ pr + pa + un + va = s /\ su <= pr
    BY <1>p, <2>2, <2>7, SumsGrow DEF Live
  <2>9. again' = ag + b + a
    BY <1>p, <2>1, <2>3, <2>4
  <2>10. /\ (su + g) + (fa + w + a) + pa = s + (ag + b + a)
         /\ (pr + va) + pa + un = s /\ su + g <= pr + va
    BY <2>3, <2>8
  <2>11. Len(valid') = 0 /\ Scanned' = s
    BY <2>2, <2>6, <2>7
  <2>12. counts'.successful + counts'.failed + Passed' = Scanned' + again'
    BY <2>5, <2>6, <2>9, <2>10, <2>11
  <2>13. counts'.processed + Passed' + Unparsed' = Scanned' /\ counts'.successful <= counts'.processed
    BY <2>5, <2>6, <2>10, <2>11
  <2>14. counts'.successful + counts'.failed + Passed' \in Nat /\ counts'.processed + Passed' + Unparsed' \in Nat
    BY <2>3, <2>5, <2>6
  <2> QED
    BY <2>11, <2>12, <2>13, <2>14 DEF SumInv
<1> QED
  BY <1>1, <1>2, <1>3, <1>4, <1>5, NextShapes

LEMMA RankGrows == ASSUME NEW m \in Nat, NEW n \in Nat, m <= n PROVE Rank(m) <= Rank(n)
<1> DEFINE rows(k) == {r \in 1..k : IsRow(r)}
<1>1. IsFiniteSet(1..n)
  BY FS_Interval
<1>2. IsFiniteSet(rows(n))
  BY <1>1, FS_Subset
<1>3. rows(m) \subseteq rows(n)
  OBVIOUS
<1>4. Cardinality(rows(m)) <= Cardinality(rows(n))
  BY <1>2, <1>3, FS_Subset
<1> QED
  BY <1>4 DEF Rank

LEMMA ArrayRows ==
  ASSUME TypeInv, TextInv, format = "json", parser = "open", source = "ended"
  PROVE  Cardinality({n \in DOMAIN buffer : ~Blank(buffer[n])}) = Rank(Len(file))
<1>1. Sent + 1 = Len(file) /\ WholeLine(Kept, Len(file)) /\ Sent \in Nat /\ Kept \in Seq(Piece)
  BY LastLine, FileLines
<1>2. Len(file) \in Nat \ {0} /\ buffer \in Seq(Seq(Piece))
  BY FileLines
<1>3. Len(buffer) = Len(file) /\ \A i \in 1..Sent : buffer[i] = file[i]
  BY <1>1 DEF TextInv, KeptInv
<1>4. ~Damaged(Len(file)) /\ Len(file) \in 1..Len(file)
  BY <1>2 DEF Damaged, Lost
<1>5. Kept = file[Len(file)]
  BY <1>1, <1>4, SameText
<1>6. ASSUME NEW i \in 1..Len(file) PROVE buffer[i] = file[i]
  <2>1. CASE i = Len(file)
    BY <1>3, <1>5, <2>1 DEF Kept
  <2>2. CASE i # Len(file)
    <3>1. i \in 1..Sent
      BY <1>1, <1>2, <2>2
    <3> QED
      BY <1>3, <3>1
  <2> QED
    BY <2>1, <2>2
<1>7. DOMAIN buffer = 1..Len(file) /\ DOMAIN file = 1..Len(file)
  BY <1>2, <1>3, FileLines
<1>8. {n \in DOMAIN buffer : ~Blank(buffer[n])} = {m \in 1..Len(file) : IsRow(m)}
  BY <1>6, <1>7 DEF IsRow
<1> QED
  BY <1>8 DEF Rank

LEMMA TotalStep ==
  ASSUME TypeInv, TypeInv', TextInv, ItemInv, WorkInv, TotalInv, [Next]_vars
  PROVE  TotalInv'
<1>0. counts \in Counters /\ taken \in Seq(Item) /\ Len(taken) \in Nat
  BY LoopLengths
<1>1. CASE Calm
  <2>1. Rank(Len(file))' = Rank(Len(file))
    BY <1>1, RankNext DEF Calm
  <2> QED
    BY <1>1, <2>1 DEF Calm, TotalInv
<1>2. CASE ParseArray
  <2>1. format = "json" /\ source = "ended" /\ parser = "open" /\ parser' = "ended" /\ UNCHANGED <<format, file>>
    BY <1>2 DEF ParseArray
  <2>2. \/ loop' = "failed"
        \/ counts' = [counts EXCEPT !.total = Cardinality({n \in DOMAIN buffer : ~Blank(buffer[n])})]
    BY <1>2 DEF ParseArray
  <2>3. Rank(Len(file))' = Rank(Len(file))
    BY <2>1, RankNext
  <2>4. CASE loop' = "failed"
    BY <2>4 DEF TotalInv, Live
  <2>5. CASE counts' = [counts EXCEPT !.total = Cardinality({n \in DOMAIN buffer : ~Blank(buffer[n])})]
    <3>1. counts'.total = Rank(Len(file))
      BY <1>0, <2>1, <2>5, ArrayRows DEF Counters
    <3> QED
      BY <2>1, <2>3, <3>1 DEF TotalInv
  <2> QED
    BY <2>2, <2>4, <2>5
<1>3. CASE \E items \in Seq(Item) : Takes(items)
  <2>1. PICK items \in Seq(Item) : Takes(items)
    BY <1>3
  <2>2. Live /\ UNCHANGED <<format, file, parser>> /\ taken' = taken \o items
    BY <2>1 DEF Takes, Live
  <2>3. CASE format = "json"
    <3>1. Rank(Len(file))' = Rank(Len(file)) /\ counts' = counts
      BY <2>1, <2>2, <2>3, RankNext DEF Takes
    <3> QED
      BY <2>2, <2>3, <3>1 DEF TotalInv
  <2>4. CASE format # "json"
    <3>1. Len(taken') = Len(taken) + Len(items)
      BY <1>0, <2>2
    <3>2. counts'.total = counts.total + Len(items)
      BY <1>0, <2>1, <2>4 DEF Takes, Counters
    <3> QED
      BY <2>2, <2>4, <3>1, <3>2 DEF TotalInv
  <2> QED
    BY <2>3, <2>4
<1>4. CASE ScanItem \/ ProcessRecords
  <2>1. Live /\ UNCHANGED <<format, file, taken, parser>>
    BY <1>4 DEF ScanItem, ProcessRecords, Live, parserVars
  <2>2. counts'.total = counts.total
    <3>1. CASE ScanItem
      <4>1. counts' = counts \/ counts' = [counts EXCEPT !.failed = @ + 1]
        BY <3>1 DEF ScanItem
      <4> QED
        BY <1>0, <4>1 DEF Counters
    <3>2. CASE ProcessRecords
      BY <1>0, <3>2 DEF ProcessRecords, Counters
    <3> QED
      BY <1>4, <3>1, <3>2
  <2>3. Rank(Len(file))' = Rank(Len(file))
    BY <2>1, RankNext
  <2> QED
    BY <2>1, <2>2, <2>3 DEF TotalInv
<1> QED
  BY <1>1, <1>2, <1>3, <1>4, NextShapes

\* The total of an import is never behind the rows it has come to.
LEMMA TotalReaches ==
  ASSUME TypeInv, TextInv, ItemInv, DoneInv, TotalInv, Live
  PROVE  /\ Len(taken) <= counts.total
         /\ format # "json" \/ loop = "done" => counts.total = Len(taken)
<1>0. /\ Len(taken) \in Nat /\ Len(queue) \in Nat /\ lineNumber \in Nat /\ Len(file) \in Nat
      /\ Len(lines) \in Nat /\ parser \in {"open", "ended"}
  BY ItemLengths, FileLines, Lengths
<1>1. CASE format # "json"
  BY <1>0, <1>1 DEF TotalInv
<1>2. CASE format = "json" /\ parser = "open"
  <2>1. taken = <<>> /\ counts.total = 0
    BY <1>2 DEF ItemInv, ArrayInv, TotalInv
  <2>2. Len(taken) = 0
    BY <2>1
  <2> QED
    BY <2>1, <2>2
<1>3. CASE format = "json" /\ parser = "ended" /\ loop = "done"
  BY <1>0, <1>3 DEF TotalInv, DoneInv
<1>4. CASE format = "json" /\ parser = "ended" /\ loop # "done"
  <2>1. lineNumber + Len(lines) = Len(file)
    BY <1>4 DEF TextInv, LineInv, Running, Live
  <2>2. lineNumber <= Len(file)
    BY <1>0, <2>1
  <2>3. PICK r \in Nat, all \in Nat : r = Rank(lineNumber) /\ all = Rank(Len(file)) /\ r <= all
    BY <1>0, <2>2, RankGrows, RankStep
  <2>4. r = Len(taken) + Len(queue) /\ counts.total = all
    BY <1>4, <2>3 DEF ItemInv, ArrayInv, TotalInv
  <2> QED
    BY <1>0, <1>4, <2>3, <2>4
<1> QED
  BY <1>0, <1>1, <1>2, <1>3, <1>4

LEMMA RowStep ==
  ASSUME TypeInv, TypeInv', TextInv, ItemInv, DoneInv, WorkInv, SumInv, TotalInv, RowInv, [Next]_vars
  PROVE  RowInv'
<1>1. CASE UpdateJobProgress \/ Complete
  <2>1. row' = counts /\ Live
    BY <1>1 DEF UpdateJobProgress, Complete, Live
  <2>2. PICK su \in Nat, fa \in Nat, pr \in Nat, pa \in Nat, un \in Nat, va \in Nat, ag \in Nat :
          /\ counts.successful = su /\ counts.failed = fa /\ counts.processed = pr
          /\ Passed = pa /\ Unparsed = un /\ Len(valid) = va /\ again = ag
    BY CountTypes
  <2>3. PICK s \in Nat, l \in Nat, t \in Nat : s = Scanned /\ l = Len(taken) /\ t = counts.total
    BY CountTypes, LoopLengths
  <2>4. su + fa + pa + va = s + ag /\ pr + pa + un + va = s /\ su <= pr
    BY <2>1, <2>2, <2>3, SumsGrow
  <2>5. s <= l /\ l <= t
    <3>1. l <= t
      BY <2>1, <2>3, TotalReaches
    <3>2. Len(work) \in Nat
      BY LoopLengths
    <3>3. s <= l
      BY <2>3, <3>2 DEF Scanned
    <3> QED
      BY <3>1, <3>3
  <2>6. su <= pr /\ pr <= t
    BY <2>4, <2>5
  <2> QED
    BY <2>1, <2>2, <2>3, <2>6 DEF RowInv
<1>2. CASE row' = row
  BY <1>2 DEF RowInv
<1>3. CASE SourceStep \/ SourceBreaks \/ ParserStep \/ BatchStep
  BY <1>2, <1>3 DEF SourceStep, SendChunk, SourceEnds, SourceBreaks, ParserStep, ParseLine, ParserEnds,
     ParserFails, ParseArray, BatchStep, AddToBatch, BatchesEnd, loopVars
<1>4. CASE TakeBatch \/ TakeSlice \/ ScanItem \/ ScanEnds \/ ProcessRecords \/ ValidationFails \/ DatabaseFails
  BY <1>2, <1>4 DEF TakeBatch, TakeSlice, ScanItem, ScanEnds, ProcessRecords, ValidationFails, DatabaseFails
<1>5. CASE UNCHANGED vars
  BY <1>2, <1>5 DEF vars
<1> QED
  BY <1>1, <1>3, <1>4, <1>5 DEF Next, LoopStep

-----------------------------------------------------------------------------
(* The error report *)

\* The records of a batch are items the loop has looked at, each one once.
ValidInv ==
  /\ \A j \in 1..Len(valid) : \E k \in 1..Scanned : valid[j] = taken[k]
  /\ \A i, j \in 1..Len(valid) : valid[i].line = valid[j].line => i = j

Reported == {errors[n] : n \in 1..Len(errors)}

\* Rows that failed are such items too, but none of those that are still to be written.
ErrorInv ==
  /\ Len(errors) <= MaxErrors
  /\ \A r \in failures : \E k \in 1..Scanned : r = taken[k].line
  /\ \A r \in failures : \A j \in 1..Len(valid) : r # valid[j].line
  /\ Reported \subseteq failures /\ (Len(errors) < MaxErrors => Reported = failures)
  /\ IsFiniteSet(failures)
  /\ Cardinality(failures) <= counts.failed /\ counts.failed <= Cardinality(failures) + again

\* The next item to look at.
LEMMA Looked ==
  ASSUME TypeInv, WorkInv, work # <<>>, work' = Tail(work), taken' = taken
  PROVE  /\ Scanned \in Nat /\ Scanned' = Scanned + 1 /\ Scanned + 1 <= Len(taken)
         /\ work[1] = taken[Scanned + 1]
<1>0. work \in Seq(Item) /\ Scanned \in Nat
  BY LoopLengths, CountTypes
<1>1. PICK l \in Nat : l = Len(taken)
  BY LoopLengths
<1>2. PICK w \in Nat : w = Len(work) /\ Len(work') = w - 1 /\ w >= 1
  BY <1>0
<1>3. Scanned = l - w /\ Scanned' = l - (w - 1)
  BY <1>1, <1>2 DEF Scanned
<1>4. work[1] = taken[Scanned + 1]
  BY <1>2 DEF WorkInv
<1> QED
  BY <1>0, <1>1, <1>2, <1>3, <1>4

LEMMA ValidStep ==
  ASSUME TypeInv, TypeInv', ItemInv, WorkInv, WorkInv', UniqueNumbers, UniqueNumbers', ValidInv, [Next]_vars
  PROVE  ValidInv'
<1>0. /\ taken \in Seq(Item) /\ work \in Seq(Item) /\ valid \in Seq(Item)
      /\ Len(taken) \in Nat /\ Len(work) \in Nat /\ Len(valid) \in Nat /\ Scanned \in Nat
  BY LoopLengths, CountTypes
<1>1. CASE Calm
  BY <1>1 DEF Calm, ValidInv, Scanned
<1>2. CASE ParseArray
  BY <1>2 DEF ParseArray, ValidInv, Scanned
<1>3. CASE \E items \in Seq(Item) : Takes(items)
  <2>1. PICK items \in Seq(Item) : Takes(items)
    BY <1>3
  <2>2. work = <<>> /\ valid = <<>> /\ taken' = taken \o items
    BY <2>1 DEF Takes, WorkInv, Live
  <2>3. CASE format = "ndjson"
    <3>1. valid' = <<>>
      BY <2>1, <2>2, <2>3 DEF Takes
    <3> QED
      BY <3>1 DEF ValidInv
  <2>4. CASE format # "ndjson"
    <3>1. valid' = items /\ work' = <<>> /\ Len(work') = 0
      BY <2>1, <2>2, <2>4 DEF Takes
    <3>2. PICK s \in Nat : s = Len(taken)
      BY <1>0
    <3>3. PICK l \in Nat : l = Len(items)
      OBVIOUS
    <3>4. Len(taken') = s + l /\ \A j \in 1..l : taken'[s + j] = items[j]
      BY <1>0, <2>2, <3>2, <3>3
    <3>5. Scanned' = s + l
      BY <3>1, <3>2, <3>3, <3>4 DEF Scanned
    <3>6. ASSUME NEW j \in 1..Len(valid') PROVE \E k \in 1..Scanned' : valid'[j] = taken'[k]
      <4>1. s + j \in 1..(s + l) /\ taken'[s + j] = items[j]
        BY <3>1, <3>3, <3>4
      <4> QED
        BY <3>1, <3>5, <4>1
    <3>7. ASSUME NEW i \in 1..Len(valid'), NEW j \in 1..Len(valid'), valid'[i].line = valid'[j].line PROVE i = j
      <4>1. s + i \in 1..Len(taken') /\ s + j \in 1..Len(taken')
        BY <3>1, <3>3, <3>4
      <4>2. taken'[s + i].line = taken'[s + j].line
        BY <3>1, <3>3, <3>4, <3>7
      <4>3. s + i = s + j
        BY <4>1, <4>2 DEF UniqueNumbers
      <4> QED
        BY <3>1, <3>3, <4>3
    <3> QED
      BY <3>6, <3>7 DEF ValidInv
  <2> QED
    BY <2>3, <2>4
<1>4. CASE ScanItem
  <2>1. /\ work # <<>> /\ work' = Tail(work) /\ taken' = taken
        /\ valid' = IF Kind(work[1].text) = "record" THEN Append(valid, work[1]) ELSE valid
    BY <1>4 DEF ScanItem
  <2>2. Len(work') = Len(work) - 1 /\ 1 \in 1..Len(work) /\ work[1] \in Item
    BY <1>0, <2>1
  <2>3. PICK s \in Nat : s = Scanned /\ Scanned' = s + 1 /\ s + 1 <= Len(taken) /\ work[1] = taken[s + 1]
    BY <1>0, <2>1, <2>2, Looked
  <2>4. PICK v \in Nat : v = Len(valid)
    BY <1>0
  <2>5. \A j \in 1..v : \E k \in 1..s : valid[j] = taken[k]
    BY <2>3, <2>4 DEF ValidInv
  <2>6. CASE valid' = valid
    <3>1. \A j \in 1..v : \E k \in 1..(s + 1) : valid[j] = taken[k]
      <4> SUFFICES ASSUME NEW j \in 1..v PROVE \E k \in 1..(s + 1) : valid[j] = taken[k]
        OBVIOUS
      <4>1. PICK k \in 1..s : valid[j] = taken[k]
        BY <2>5
      <4>2. k \in 1..(s + 1)
        OBVIOUS
      <4> QED
        BY <4>1, <4>2
    <3> QED
      BY <2>1, <2>3, <2>4, <2>6, <3>1 DEF ValidInv
  <2>7. CASE valid' = Append(valid, work[1])
    <3>1. /\ Len(valid') = v + 1 /\ valid'[v + 1] = taken[s + 1] /\ \A j \in 1..v : valid'[j] = valid[j]
      BY <1>0, <2>2, <2>3, <2>4, <2>7
    <3>2. \A j \in 1..(v + 1) : \E k \in 1..(s + 1) : valid'[j] = taken[k] /\ (j = v + 1 \/ k # s + 1)
      <4> SUFFICES ASSUME NEW j \in 1..(v + 1)
                   PROVE  \E k \in 1..(s + 1) : valid'[j] = taken[k] /\ (j = v + 1 \/ k # s + 1)
        OBVIOUS
      <4>1. CASE j = v + 1
        BY <3>1, <4>1
      <4>2. CASE j # v + 1
        <5>1. j \in 1..v
          BY <4>2
        <5>2. PICK k \in 1..s : valid[j] = taken[k]
          BY <2>5, <5>1
        <5>3. k \in 1..(s + 1) /\ k # s + 1
          OBVIOUS
        <5> QED
          BY <3>1, <5>1, <5>2, <5>3
      <4> QED
        BY <4>1, <4>2
    <3>3. \A j \in 1..v : valid'[j].line # valid'[v + 1].line
      <4> SUFFICES ASSUME NEW j \in 1..v, valid'[j].line = valid'[v + 1].line PROVE FALSE
        OBVIOUS
      <4>1. j \in 1..(v + 1) /\ j # v + 1
        OBVIOUS
      <4>2. PICK k \in 1..(s + 1) : valid'[j] = taken[k] /\ k # s + 1
        BY <3>2, <4>1
      <4>3. k \in 1..Len(taken) /\ s + 1 \in 1..Len(taken)
        BY <1>0, <2>3
      <4> QED
        BY <3>1, <4>2, <4>3 DEF UniqueNumbers
    <3>4. ASSUME NEW i \in 1..(v + 1), NEW j \in 1..(v + 1), valid'[i].line = valid'[j].line PROVE i = j
      <4>1. CASE i \in 1..v /\ j \in 1..v
        BY <2>4, <3>1, <3>4, <4>1 DEF ValidInv
      <4>2. CASE i = v + 1
        BY <3>3, <3>4, <4>2
      <4>3. CASE j = v + 1
        BY <3>3, <3>4, <4>3
      <4> QED
        BY <4>1, <4>2, <4>3
    <3> QED
      BY <2>1, <2>3, <3>1, <3>2, <3>4 DEF ValidInv
  <2> QED
    BY <2>1, <2>6, <2>7
<1>5. CASE ProcessRecords
  <2>1. valid' = <<>>
    BY <1>5 DEF ProcessRecords
  <2> QED
    BY <2>1 DEF ValidInv
<1> QED
  BY <1>1, <1>2, <1>3, <1>4, <1>5, NextShapes

LEMMA ReportedGrows ==
  ASSUME NEW s \in Seq(Nat), NEW r \in Nat
  PROVE  {Append(s, r)[n] : n \in 1..Len(Append(s, r))} = {s[n] : n \in 1..Len(s)} \cup {r}
<1>1. /\ Len(Append(s, r)) = Len(s) + 1 /\ Append(s, r)[Len(s) + 1] = r /\ Len(s) \in Nat
      /\ \A n \in 1..Len(s) : Append(s, r)[n] = s[n]
  OBVIOUS
<1>2. 1..(Len(s) + 1) = (1..Len(s)) \cup {Len(s) + 1}
  BY <1>1
<1> QED
  BY <1>1, <1>2

\* One more row has failed, and the report has an entry for it or is full.
LEMMA ScanErrors ==
  ASSUME TypeInv, TypeInv', WorkInv, UniqueNumbers, ValidInv, ErrorInv, ScanItem
  PROVE  ErrorInv'
<1>0. /\ taken \in Seq(Item) /\ work \in Seq(Item) /\ valid \in Seq(Item) /\ errors \in Seq(Nat)
      /\ Len(taken) \in Nat /\ Len(valid) \in Nat /\ counts \in Counters /\ MaxErrors \in Nat /\ again \in Nat
  BY LoopLengths
<1>1. /\ work # <<>> /\ work' = Tail(work) /\ taken' = taken /\ again' = again
      /\ IF Kind(work[1].text) = "junk"
         THEN /\ counts' = [counts EXCEPT !.failed = @ + 1]
              /\ failures' = failures \cup {work[1].line}
              /\ errors' = IF Room THEN Append(errors, work[1].line) ELSE errors
         ELSE UNCHANGED <<counts, failures, errors>>
      /\ valid' = IF Kind(work[1].text) = "record" THEN Append(valid, work[1]) ELSE valid
  BY DEF ScanItem
<1>2. PICK s \in Nat : s = Scanned /\ Scanned' = s + 1 /\ s + 1 <= Len(taken) /\ work[1] = taken[s + 1]
  BY <1>1, Looked
<1>3. PICK v \in Nat, e \in Nat : v = Len(valid) /\ e = Len(errors)
  BY <1>0
<1>4. PICK r \in Nat : r = work[1].line
  <2>1. work[1] \in Item
    BY <1>0, <1>1
  <2> QED
    BY <2>1 DEF Item
<1>5. \A k \in 1..s : taken[k].line # r
  <2> SUFFICES ASSUME NEW k \in 1..s, taken[k].line = r PROVE FALSE
    OBVIOUS
  <2>1. k \in 1..Len(taken) /\ s + 1 \in 1..Len(taken) /\ k # s + 1
    BY <1>0, <1>2
  <2> QED
    BY <1>2, <1>4, <2>1 DEF UniqueNumbers
<1>6. (\A f \in failures : \E k \in 1..s : f = taken[k].line) /\ (\A j \in 1..v : \E k \in 1..s : valid[j] = taken[k])
  BY <1>2, <1>3 DEF ErrorInv, ValidInv
<1>7. r \notin failures /\ (\A j \in 1..v : valid[j].line # r)
  BY <1>5, <1>6
<1>8. \A f \in failures \cup {r} : \E k \in 1..(s + 1) : f = taken[k].line
  <2> SUFFICES ASSUME NEW f \in failures \cup {r} PROVE \E k \in 1..(s + 1) : f = taken[k].line
    OBVIOUS
  <2>1. CASE f \in failures
    <3>1. PICK k \in 1..s : f = taken[k].line
      BY <1>6, <2>1
    <3>2. k \in 1..(s + 1)
      OBVIOUS
    <3> QED
      BY <3>1, <3>2
  <2>2. CASE f = r
    <3>1. s + 1 \in 1..(s + 1)
      OBVIOUS
    <3> QED
      BY <1>2, <1>4, <2>2, <3>1
  <2> QED
    BY <2>1, <2>2
<1>9. \A f \in failures : \A j \in 1..v : f # valid[j].line
  BY <1>3 DEF ErrorInv
<1>10. PICK c \in Nat, n \in Nat, a \in Nat : c = Cardinality(failures) /\ n = counts.failed /\ a = again /\ c <= n /\ n <= c + a
  <2>1. Cardinality(failures) \in Nat
    BY FS_CardinalityType DEF ErrorInv
  <2> QED
    BY <1>0, <2>1 DEF ErrorInv, Counters
<1>11. CASE Kind(work[1].text) = "junk"
  <2>1. failures' = failures \cup {r} /\ valid' = valid /\ counts'.failed = n + 1
    BY <1>0, <1>1, <1>4, <1>10, <1>11 DEF Counters
  <2>2. IsFiniteSet(failures') /\ Cardinality(failures') = c + 1
    <3>1. IsFiniteSet(failures)
      BY DEF ErrorInv
    <3> QED
      BY <1>7, <1>10, <2>1, <3>1, FS_AddElement
  <2>3. \A f \in failures' : \E k \in 1..Scanned' : f = taken'[k].line
    BY <1>1, <1>2, <1>8, <2>1
  <2>4. \A f \in failures' : \A j \in 1..Len(valid') : f # valid'[j].line
    BY <1>3, <1>7, <1>9, <2>1
  <2>5. Len(errors') <= MaxErrors /\ Reported' \subseteq failures' /\ (Len(errors') < MaxErrors => Reported' = failures')
    <3>1. CASE Room
      <4>1. errors' = Append(errors, r)
        BY <1>1, <1>4, <1>11, <3>1
      <4>2. Len(errors') = e + 1 /\ e < MaxErrors
        BY <1>0, <1>3, <3>1, <4>1 DEF Room
      <4>3. Reported' = Reported \cup {r}
        BY <1>0, <4>1, ReportedGrows DEF Reported
      <4>4. Reported = failures
        BY <1>3, <4>2 DEF ErrorInv
      <4> QED
        BY <1>0, <2>1, <4>2, <4>3, <4>4
    <3>2. CASE ~Room
      <4>1. errors' = errors /\ ~(Len(errors) < MaxErrors)
        BY <1>1, <1>11, <3>2 DEF Room
      <4>2. Reported' = Reported
        BY <4>1 DEF Reported
      <4> QED
        BY <2>1, <4>1, <4>2 DEF ErrorInv
    <3> QED
      BY <3>1, <3>2
  <2>6. Cardinality(failures') <= counts'.failed /\ counts'.failed <= Cardinality(failures') + again'
    BY <1>1, <1>10, <2>1, <2>2
  <2> QED
    BY <2>2, <2>3, <2>4, <2>5, <2>6 DEF ErrorInv
<1>12. CASE Kind(work[1].text) # "junk"
  <2>1. errors' = errors /\ counts' = counts /\ failures' = failures /\ Reported' = Reported
    BY <1>1, <1>12 DEF Reported
  <2>2. \A f \in failures : \A j \in 1..Len(valid') : f # valid'[j].line
    <3>1. CASE valid' = valid
      BY <1>3, <1>9, <3>1
    <3>2. CASE valid' = Append(valid, work[1])
      <4>1. work[1] \in Item
        BY <1>0, <1>1
      <4>2. Len(valid') = v + 1 /\ valid'[v + 1] = work[1] /\ \A j \in 1..v : valid'[j] = valid[j]
        BY <1>0, <1>3, <3>2, <4>1
      <4> QED
        BY <1>4, <1>7, <1>9, <4>2
    <3> QED
      BY <1>1, <3>1, <3>2
  <2>3. \A f \in failures' : \E k \in 1..Scanned' : f = taken'[k].line
    BY <1>1, <1>2, <1>8, <2>1
  <2> QED
    BY <1>1, <2>1, <2>2, <2>3 DEF ErrorInv
<1> QED
  BY <1>11, <1>12

\* Some rows of a batch have as many numbers.
LEMMA WrongNumbers ==
  ASSUME TypeInv, ValidInv, NEW wrong \in SUBSET DOMAIN valid
  PROVE  /\ IsFiniteSet({valid[n].line : n \in wrong})
         /\ Cardinality({valid[n].line : n \in wrong}) = Cardinality(wrong)
<1> DEFINE bad == {valid[n].line : n \in wrong}
           number == [n \in wrong |-> valid[n].line]
<1>1. IsFiniteSet(wrong) /\ wrong \subseteq 1..Len(valid)
  BY LoopLengths, WrongRows
<1>2. number \in Bijection(wrong, bad)
  <2>1. number \in [wrong -> bad] /\ \A b \in bad : \E n \in wrong : number[n] = b
    OBVIOUS
  <2>2. \A n, m \in wrong : number[n] = number[m] => n = m
    BY <1>1 DEF ValidInv
  <2> QED
    BY <2>1, <2>2 DEF Bijection, Injection, Surjection, IsInjective
<1> QED
  BY <1>1, <1>2, FS_Bijection DEF ExistsBijection

\* What a batch reports is appended as far as there is room.
LEMMA AppendedReport ==
  ASSUME errors \in Seq(Nat), MaxErrors \in Nat, Len(errors) <= MaxErrors,
         NEW bad \in SUBSET Nat, NEW entries \in Reports(bad), errors' = Appended(entries)
  PROVE  /\ Len(errors') <= MaxErrors
         /\ Reported \subseteq Reported' /\ Reported' \subseteq Reported \cup bad
         /\ Len(errors') < MaxErrors => Len(errors) < MaxErrors /\ Reported' = Reported \cup bad
<1>1. /\ entries \in Seq(Nat) /\ \A n \in 1..Len(entries) : entries[n] \in bad
      /\ Len(entries) >= MaxErrors \/ \A b \in bad : \E n \in 1..Len(entries) : entries[n] = b
  <2>1. PICK m \in 0..MaxReport : entries \in [1..m -> bad]
    BY DEF Reports
  <2>2. entries \in Seq(Nat) /\ DOMAIN entries = 1..m
    BY <2>1, ReportsType
  <2>3. DOMAIN entries = 1..Len(entries)
    BY <2>2
  <2>4. Len(entries) >= MaxErrors \/ \A b \in bad : \E n \in DOMAIN entries : entries[n] = b
    BY DEF Reports
  <2> QED
    BY <2>1, <2>2, <2>3, <2>4
<1>2. PICK e \in Nat, l \in Nat : e = Len(errors) /\ l = Len(entries) /\ e <= MaxErrors
  BY <1>1
<1>3. CASE ~Room
  <2>1. errors' = errors /\ ~(Len(errors) < MaxErrors)
    BY <1>3 DEF Appended, Room
  <2> QED
    BY <2>1 DEF Reported
<1>4. CASE Room
  <2>1. e < MaxErrors
    BY <1>2, <1>4 DEF Room
  <2> DEFINE room == MaxErrors - Len(errors)
             size == IF Len(entries) < room THEN Len(entries) ELSE room
  <2>2. PICK t \in Nat : t = size /\ t <= l /\ e + t <= MaxErrors /\ (e + t < MaxErrors => t = l /\ l < MaxErrors)
    <3>1. room \in Nat /\ room = MaxErrors - e
      BY <1>2, <2>1
    <3>2. size = IF l < room THEN l ELSE room
      BY <1>2
    <3> HIDE DEF size
    <3>3. size \in Nat
      BY <1>2, <3>1, <3>2
    <3> QED
      BY <1>2, <2>1, <3>1, <3>2, <3>3
  <2> DEFINE new == SubSeq(entries, 1, t)
  <2>3. new \in Seq(Nat) /\ Len(new) = t /\ \A n \in 1..t : new[n] = entries[n]
    BY <1>1, <1>2, <2>2
  <2>4. errors' = errors \o new
    BY <1>4, <2>2 DEF Appended
  <2> HIDE DEF new, size
  <2>5. /\ Len(errors') = e + t /\ \A n \in 1..e : errors'[n] = errors[n]
        /\ \A n \in 1..t : errors'[e + n] = entries[n] /\ entries[n] \in bad
    <3>1. /\ Len(errors \o new) = Len(errors) + Len(new)
          /\ \A n \in 1..Len(errors) : (errors \o new)[n] = errors[n]
          /\ \A n \in 1..Len(new) : (errors \o new)[Len(errors) + n] = new[n]
      BY SMTT(60), <2>3
    <3>2. \A n \in 1..t : entries[n] \in bad
      BY <1>1, <1>2, <2>2
    <3> QED
      BY <1>2, <2>3, <2>4, <3>1, <3>2
  <2>6. \A n \in 1..(e + t) : n \in 1..e \/ \E m \in 1..t : n = e + m
    <3> SUFFICES ASSUME NEW n \in 1..(e + t), n \notin 1..e PROVE \E m \in 1..t : n = e + m
      OBVIOUS
    <3>1. n - e \in 1..t /\ n = e + (n - e)
      OBVIOUS
    <3> QED
      BY <3>1
  <2>7. Reported' = Reported \cup {entries[n] : n \in 1..t}
    <3>1. Reported' = {errors'[n] : n \in 1..(e + t)} /\ Reported = {errors[n] : n \in 1..e}
      BY <1>2, <2>5 DEF Reported
    <3>2. ASSUME NEW n \in 1..(e + t) PROVE errors'[n] \in Reported \cup {entries[m] : m \in 1..t}
      <4>1. CASE n \in 1..e
        BY <2>5, <3>1, <4>1
      <4>2. CASE n \notin 1..e
        <5>1. PICK m \in 1..t : n = e + m
          BY <2>6, <4>2
        <5> QED
          BY <2>5, <5>1
      <4> QED
        BY <4>1, <4>2
    <3>3. ASSUME NEW n \in 1..e PROVE errors[n] \in Reported'
      <4>1. n \in 1..(e + t) /\ errors[n] = errors'[n]
        BY <2>5
      <4> QED
        BY <3>1, <4>1
    <3>4. ASSUME NEW m \in 1..t PROVE entries[m] \in Reported'
      <4>1. e + m \in 1..(e + t) /\ entries[m] = errors'[e + m]
        BY <2>5
      <4> QED
        BY <3>1, <4>1
    <3>5. Reported' \subseteq Reported \cup {entries[m] : m \in 1..t}
      BY <3>1, <3>2
    <3>6. Reported \cup {entries[m] : m \in 1..t} \subseteq Reported'
      BY <3>1, <3>3, <3>4
    <3> QED
      BY <3>5, <3>6
  <2>8. {entries[n] : n \in 1..t} \subseteq bad
    BY <2>5
  <2>9. ASSUME e + t < MaxErrors PROVE {entries[n] : n \in 1..t} = bad
    <3>1. t = l /\ l < MaxErrors
      BY <2>2, <2>9
    <3>2. \A b \in bad : \E n \in 1..l : entries[n] = b
      BY <1>1, <1>2, <3>1
    <3> QED
      BY <2>8, <3>1, <3>2
  <2> QED
    BY <1>2, <2>1, <2>2, <2>5, <2>7, <2>8, <2>9
<1> QED
  BY <1>3, <1>4

LEMMA RecordErrors ==
  ASSUME TypeInv, TypeInv', WorkInv, ValidInv, ErrorInv, ProcessRecords
  PROVE  ErrorInv'
<1>0. /\ valid \in Seq(Item) /\ errors \in Seq(Nat) /\ counts \in Counters /\ MaxErrors \in Nat /\ again \in Nat
  BY LoopLengths
<1>1. PICK good \in SUBSET DOMAIN valid, wrong \in SUBSET DOMAIN valid, all \in SUBSET DOMAIN valid :
        /\ counts' = [counts EXCEPT
             !.processed = @ + Processed(wrong),
             !.successful = @ + Cardinality(good),
             !.failed = @ + Cardinality(wrong) + Cardinality(all)]
        /\ again' = again + Cardinality(good \cap wrong) + Cardinality(all)
        /\ failures' = failures \cup {valid[n].line : n \in wrong \cup all}
        /\ \E entries \in Reports({valid[n].line : n \in wrong \cup all}) : errors' = Appended(entries)
  BY DEF ProcessRecords
<1> DEFINE bad == {valid[n].line : n \in wrong \cup all}
<1>2. PICK entries \in Reports(bad) : errors' = Appended(entries)
  BY <1>1
<1>3. valid' = <<>> /\ UNCHANGED <<work, taken>> /\ Scanned' = Scanned /\ Len(valid') = 0
  BY DEF ProcessRecords, Scanned
<1>4. bad \in SUBSET Nat /\ \A b \in bad : \E j \in 1..Len(valid) : b = valid[j].line
  <2>1. ASSUME NEW n \in wrong \cup all PROVE n \in 1..Len(valid) /\ valid[n].line \in Nat
    <3>1. n \in 1..Len(valid) /\ valid[n] \in Item
      BY <1>0, <1>1
    <3> QED
      BY <3>1 DEF Item
  <2> QED
    BY <2>1
<1>5. /\ IsFiniteSet(bad) /\ Cardinality(bad) = Cardinality(wrong \cup all)
      /\ IsFiniteSet(wrong) /\ Cardinality(wrong) \in Nat /\ IsFiniteSet(all) /\ Cardinality(all) \in Nat
      /\ Cardinality(wrong \cup all) \in Nat /\ Cardinality(good \cap wrong) \in Nat /\ Cardinality(wrong \cap all) \in Nat
      /\ IsFiniteSet(wrong \cup all)
  <2>1. wrong \cup all \in SUBSET DOMAIN valid /\ good \cap wrong \in SUBSET DOMAIN valid /\ wrong \cap all \in SUBSET DOMAIN valid
    OBVIOUS
  <2> QED
    BY <1>0, <2>1, WrongNumbers, WrongRows
<1>6. failures' = failures \cup bad
  BY <1>1
<1> HIDE DEF bad
<1>7. \A b \in bad : \E k \in 1..Scanned : b = taken[k].line
  BY <1>4 DEF ValidInv
<1>8. failures \cap bad = {}
  <2> SUFFICES ASSUME NEW r \in failures, r \in bad PROVE FALSE
    OBVIOUS
  <2>1. PICK j \in 1..Len(valid) : r = valid[j].line
    BY <1>4
  <2> QED
    BY <2>1 DEF ErrorInv
<1>9. /\ Len(errors') <= MaxErrors
      /\ Reported' \subseteq Reported \cup bad
      /\ Len(errors') < MaxErrors => Len(errors) < MaxErrors /\ Reported' = Reported \cup bad
  BY <1>0, <1>2, <1>4, AppendedReport DEF ErrorInv
<1>10. PICK c \in Nat, n \in Nat, a \in Nat : c = Cardinality(failures) /\ n = counts.failed /\ a = again /\ c <= n /\ n <= c + a
  <2>1. Cardinality(failures) \in Nat
    BY FS_CardinalityType DEF ErrorInv
  <2> QED
    BY <1>0, <2>1 DEF ErrorInv, Counters
<1>11. IsFiniteSet(failures') /\ Cardinality(failures') = c + Cardinality(wrong \cup all)
  <2>1. IsFiniteSet(failures)
    BY DEF ErrorInv
  <2>2. Cardinality(failures \cup bad) = Cardinality(failures) + Cardinality(bad) - Cardinality(failures \cap bad)
    BY <1>5, <2>1, FS_Union
  <2>3. Cardinality(failures \cap bad) = 0
    BY <1>8, FS_EmptySet
  <2>4. IsFiniteSet(failures \cup bad)
    BY <1>5, <2>1, FS_Union
  <2> QED
    BY <1>5, <1>6, <1>10, <2>2, <2>3, <2>4
<1>12. PICK w \in Nat, x \in Nat, u \in Nat, g \in Nat :
         /\ w = Cardinality(wrong) /\ x = Cardinality(all) /\ u = Cardinality(wrong \cup all) /\ g = Cardinality(good \cap wrong)
         /\ u <= w + x /\ w <= u
  <2>1. Cardinality(wrong \cup all) = Cardinality(wrong) + Cardinality(all) - Cardinality(wrong \cap all)
    BY <1>5, FS_Union
  <2>2. Cardinality(wrong) <= Cardinality(wrong \cup all)
    BY <1>5, FS_Subset
  <2> QED
    BY <1>5, <2>1, <2>2
<1>13. counts'.failed = n + w + x /\ again' = a + g + x
  BY <1>0, <1>1, <1>10, <1>12 DEF Counters
<1>14. Cardinality(failures') <= counts'.failed /\ counts'.failed <= Cardinality(failures') + again'
  BY <1>10, <1>11, <1>12, <1>13
<1>15. \A r \in failures' : \E k \in 1..Scanned' : r = taken'[k].line
  BY <1>3, <1>6, <1>7 DEF ErrorInv
<1>16. \A r \in failures' : \A j \in 1..Len(valid') : r # valid'[j].line
  BY <1>3
<1>17. Reported' \subseteq failures' /\ (Len(errors') < MaxErrors => Reported' = failures')
  BY <1>6, <1>9 DEF ErrorInv
<1> QED
  BY <1>9, <1>11, <1>14, <1>15, <1>16, <1>17 DEF ErrorInv

LEMMA ErrorStep ==
  ASSUME TypeInv, TypeInv', ItemInv, WorkInv, WorkInv', UniqueNumbers, UniqueNumbers', ValidInv, ErrorInv, [Next]_vars
  PROVE  ErrorInv'
<1>0. /\ taken \in Seq(Item) /\ Len(taken) \in Nat /\ counts \in Counters
  BY LoopLengths
<1>1. CASE Calm
  BY <1>1 DEF Calm, ErrorInv, Reported, Scanned
<1>2. CASE ParseArray
  <2>1. UNCHANGED <<work, valid, errors, taken, failures, again>>
    BY <1>2 DEF ParseArray, tallyVars
  <2>2. counts'.failed = counts.failed
    <3>1. \/ counts' = counts
          \/ counts' = [counts EXCEPT !.total = Cardinality({n \in DOMAIN buffer : ~Blank(buffer[n])})]
      BY <1>2 DEF ParseArray
    <3> QED
      BY <1>0, <3>1 DEF Counters
  <2> QED
    BY <2>1, <2>2 DEF ErrorInv, Reported, Scanned
<1>3. CASE \E items \in Seq(Item) : Takes(items)
  <2>1. PICK items \in Seq(Item) : Takes(items)
    BY <1>3
  <2>2. work = <<>> /\ valid = <<>> /\ taken' = taken \o items /\ UNCHANGED <<errors, failures, again>>
    BY <2>1 DEF Takes, WorkInv, Live
  <2>3. counts'.failed = counts.failed
    BY <1>0, <2>1 DEF Takes, Counters
  <2>4. PICK s \in Nat, l \in Nat : s = Len(taken) /\ l = Len(items)
    BY <1>0
  <2>5. /\ Len(taken') = s + l
        /\ \A k \in 1..s : taken'[k] = taken[k]
        /\ \A j \in 1..l : taken'[s + j] = items[j]
    BY <1>0, <2>2, <2>4
  <2>6. Scanned = s /\ Reported' = Reported
    BY <2>2, <2>4 DEF Scanned, Reported
  <2>7. \A r \in failures : \E k \in 1..s : r = taken'[k].line
    <3> SUFFICES ASSUME NEW r \in failures PROVE \E k \in 1..s : r = taken'[k].line
      OBVIOUS
    <3>1. PICK k \in 1..s : r = taken[k].line
      BY <2>6 DEF ErrorInv
    <3> QED
      BY <2>5, <3>1
  <2>8. Scanned' \in Nat /\ s <= Scanned' /\ \A j \in 1..Len(valid') : j \in 1..l /\ valid'[j] = taken'[s + j]
    <3>1. CASE format = "ndjson"
      <4>1. work' = items /\ valid' = <<>> /\ Len(valid') = 0
        BY <2>1, <2>2, <3>1 DEF Takes
      <4> QED
        BY <2>4, <2>5, <4>1 DEF Scanned
    <3>2. CASE format # "ndjson"
      <4>1. work' = <<>> /\ Len(work') = 0 /\ valid' = items
        BY <2>1, <2>2, <3>2 DEF Takes
      <4> QED
        BY <2>4, <2>5, <4>1 DEF Scanned
    <3> QED
      BY <3>1, <3>2
  <2>9. \A r \in failures : \E k \in 1..Scanned' : r = taken'[k].line
    <3> SUFFICES ASSUME NEW r \in failures PROVE \E k \in 1..Scanned' : r = taken'[k].line
      OBVIOUS
    <3>1. PICK k \in 1..s : r = taken'[k].line
      BY <2>7
    <3>2. k \in 1..Scanned'
      BY <2>8
    <3> QED
      BY <3>1, <3>2
  <2>10. \A r \in failures : \A j \in 1..Len(valid') : r # valid'[j].line
    <3> SUFFICES ASSUME NEW r \in failures, NEW j \in 1..Len(valid'), r = valid'[j].line
                 PROVE  FALSE
      OBVIOUS
    <3>1. PICK k \in 1..s : r = taken'[k].line
      BY <2>7
    <3>2. j \in 1..l /\ valid'[j] = taken'[s + j]
      BY <2>8
    <3>3. k \in 1..Len(taken') /\ s + j \in 1..Len(taken') /\ k # s + j
      BY <2>5, <3>2
    <3>4. taken'[k].line = taken'[s + j].line
      BY <3>1, <3>2
    <3> QED
      BY <3>3, <3>4 DEF UniqueNumbers
  <2> QED
    BY <2>2, <2>3, <2>6, <2>9, <2>10 DEF ErrorInv
<1> QED
  BY <1>1, <1>2, <1>3, NextShapes, ScanErrors, RecordErrors

-----------------------------------------------------------------------------
(* The theorems *)

CountingInv == WorkInv /\ SumInv /\ TotalInv /\ RowInv /\ ValidInv /\ ErrorInv

LEMMA CountingInit == Init /\ TypeInv => CountingInv
<1> SUFFICES ASSUME Init, TypeInv PROVE CountingInv
  OBVIOUS
<1>1. /\ work = <<>> /\ taken = <<>> /\ valid = <<>> /\ errors = <<>> /\ loop = "wait" /\ parser = "open"
      /\ counts = Zero /\ row = Zero /\ failures = {} /\ again = 0
  BY DEF Init
<1>2. Len(work) = 0 /\ Len(taken) = 0 /\ Len(valid) = 0 /\ Len(errors) = 0 /\ Scanned = 0
  BY <1>1 DEF Scanned
<1>3. WorkInv
  BY <1>1, <1>2 DEF WorkInv, Live
<1>4. Passed = 0 /\ Unparsed = 0
  BY <1>2, MetStep DEF Passed, Unparsed
<1>5. /\ counts.total = 0 /\ counts.processed = 0 /\ counts.successful = 0 /\ counts.failed = 0
      /\ row.total = 0 /\ row.processed = 0 /\ row.successful = 0 /\ row.failed = 0
  BY <1>1 DEF Zero
<1>6. SumInv /\ RowInv
  BY <1>1, <1>2, <1>4, <1>5 DEF SumInv, RowInv
<1>7. TotalInv
  BY <1>1, <1>2, <1>5 DEF TotalInv
<1>8. ValidInv
  BY <1>2 DEF ValidInv
<1>9. Reported = {}
  BY <1>2 DEF Reported
<1>10. ErrorInv
  BY <1>1, <1>2, <1>5, <1>9, LoopLengths, FS_EmptySet DEF ErrorInv
<1> QED
  BY <1>3, <1>6, <1>7, <1>8, <1>10 DEF CountingInv

LEMMA CountingHolds == Spec => [](TypeInv /\ TextInv /\ ItemInv /\ DoneInv /\ CountingInv)
<1>1. Init => TypeInv /\ CountingInv
  BY InitTypes, CountingInit
<1>2. TypeInv /\ TakenInv => UniqueNumbers
  BY NumbersUnique
<1>3. ASSUME TypeInv, TypeInv', TextInv, ItemInv, DoneInv, UniqueNumbers, UniqueNumbers', CountingInv, [Next]_vars
      PROVE  CountingInv'
  <2>1. WorkInv /\ SumInv /\ TotalInv /\ RowInv /\ ValidInv /\ ErrorInv
    BY <1>3 DEF CountingInv
  <2>2. WorkInv'
    BY <1>3, <2>1, WorkStep
  <2>3. SumInv' /\ TotalInv' /\ RowInv'
    BY <1>3, <2>1, <2>2, SumStep, TotalStep, RowStep
  <2>4. ValidInv' /\ ErrorInv'
    BY <1>3, <2>1, <2>2, ValidStep, ErrorStep
  <2> QED
    BY <2>2, <2>3, <2>4 DEF CountingInv
<1>4. TypeInv /\ TypeInv' /\ TextInv /\ ItemInv /\ DoneInv /\ UniqueNumbers /\ UniqueNumbers' /\ CountingInv /\ [Next]_vars
      => CountingInv'
  BY <1>3
<1> QED
  BY <1>1, <1>2, <1>4, ItemsHold, PTL DEF Spec

\* Whatever a file has in it, wherever its chunks and batches end and whichever RELEASE or COMMIT
\* raises an error, the totals agree with the items the import has come to: they leave none out,
\* and they exceed their number by just the rows these errors have counted once more.
THEOREM TotalsTheorem == Spec => []TotalsAddUp
<1>1. ASSUME TypeInv, TextInv, ItemInv, DoneInv, CountingInv PROVE TotalsAddUp
  <2>1. row.successful <= row.processed /\ row.processed <= row.total
    BY <1>1 DEF CountingInv, RowInv
  <2>2. ASSUME loop \in {"wait", "progress", "done"}
        PROVE  /\ counts.successful + counts.failed + Met("falsy") = Len(taken) + again
               /\ counts.processed + Met("falsy") + Met("junk") = Len(taken)
               /\ counts.successful <= counts.processed
               /\ counts.total >= Len(taken) /\ (format # "json" \/ loop = "done" => counts.total = Len(taken))
    <3>1. Live /\ valid = <<>> /\ work = <<>>
      BY <1>1, <2>2 DEF CountingInv, WorkInv, Live
    <3>2. Len(valid) = 0 /\ Len(work) = 0
      BY <3>1
    <3>3. PICK su \in Nat, fa \in Nat, pr \in Nat, pa \in Nat, un \in Nat, va \in Nat, ag \in Nat :
            /\ counts.successful = su /\ counts.failed = fa /\ counts.processed = pr
            /\ Passed = pa /\ Unparsed = un /\ Len(valid) = va /\ again = ag
      BY <1>1, CountTypes DEF CountingInv
    <3>4. PICK s \in Nat : s = Len(taken)
      BY <1>1, LoopLengths
    <3>5. Scanned = s
      BY <3>2, <3>4 DEF Scanned
    <3>6. su + fa + pa + va = s + ag /\ pr + pa + un + va = s /\ su <= pr
      BY <1>1, <3>1, <3>3, <3>5, SumsGrow DEF CountingInv
    <3>7. su + fa + pa = s + ag /\ pr + pa + un = s
      BY <3>2, <3>3, <3>6
    <3>8. /\ counts.successful + counts.failed + Met("falsy") = Len(taken) + again
          /\ counts.processed + Met("falsy") + Met("junk") = Len(taken)
          /\ counts.successful <= counts.processed
      BY <3>3, <3>4, <3>6, <3>7, MetIsPassed
    <3>9. Len(taken) <= counts.total /\ (format # "json" \/ loop = "done" => counts.total = Len(taken))
      BY <1>1, <3>1, TotalReaches DEF CountingInv
    <3>10. counts.total \in Nat
      BY <1>1, CountTypes DEF CountingInv
    <3>11. counts.total >= Len(taken)
      BY <3>4, <3>9, <3>10
    <3> QED
      BY <3>8, <3>9, <3>11
  <2> QED
    BY <2>1, <2>2 DEF TotalsAddUp
<1>2. TypeInv /\ TextInv /\ ItemInv /\ DoneInv /\ CountingInv => TotalsAddUp
  BY <1>1
<1> QED
  BY <1>2, CountingHolds, PTL

\* However the rows that fail are spread over the batches, and with rows that are successful too,
\* the report keeps its limit, names every failed row as long as it is shorter, and failedRows
\* is their number but for rows these errors have counted once more.
THEOREM ErrorsTheorem == Spec => []ErrorsTell
<1>1. TypeInv /\ CountingInv => ErrorsTell
  <2> SUFFICES ASSUME TypeInv, ErrorInv PROVE ErrorsTell
    BY DEF CountingInv
  <2>1. DOMAIN errors = 1..Len(errors)
    BY LoopLengths
  <2>2. {errors[n] : n \in DOMAIN errors} = Reported
    BY <2>1 DEF Reported
  <2> QED
    BY <2>2 DEF ErrorInv, ErrorsTell
<1> QED
  BY <1>1, CountingHolds, PTL

-----------------------------------------------------------------------------
(* Memory *)

\* Some line of the file is at least as long.
Fits(s) == \E n \in 1..Len(file) : Len(s) <= Len(file[n])

BufferInv == Len(buffer) <= Len(file) /\ \A i \in 1..Len(buffer) : Fits(buffer[i])

HeldInv ==
  /\ parser = "ended" => BufferInv
  /\ Len(work) + Len(valid) <= BatchSize
  /\ format = "json" => batch = <<>> /\ Len(lines) + Len(queue) <= Len(file)

LEMMA TrimShortens == ASSUME NEW s \in Seq(Piece) PROVE Len(Trim(s)) <= Len(s)
<1>1. PICK from \in {1, 2}, to \in Int : to <= Len(s) /\ Trim(s) = SubSeq(s, from, to)
  BY TrimParts
<1>2. Len(Trim(s)) = IF from <= to THEN to - from + 1 ELSE 0
  BY <1>1, SubSeqItems
<1>3. Len(s) \in Nat
  OBVIOUS
<1> QED
  BY <1>1, <1>2, <1>3

LEMMA ItemFits == ASSUME TypeInv, NEW item, NEW r, Good(item, r) PROVE Fits(item.text)
<1>1. PICK n \in 1..Len(file) : TextBut(item.text, n, cuts)
  BY DEF Good, GoodBut
<1>2. file[n] \in Seq(Piece)
  BY FileLines
<1>3. Len(item.text) = Len(Trim(file[n]))
  BY <1>1 DEF TextBut, Legible
<1>4. Len(Trim(file[n])) <= Len(file[n])
  BY <1>2, TrimShortens
<1> QED
  BY <1>1, <1>3, <1>4 DEF Fits

LEMMA LineFits == ASSUME TypeInv, NEW s, NEW n, WholeLine(s, n) PROVE Fits(s)
<1>1. n \in 1..Len(file) /\ Len(s) = Len(file[n])
  BY DEF WholeLine
<1>2. file[n] \in Seq(Piece) /\ Len(file[n]) \in Nat
  BY <1>1, FileLines
<1> QED
  BY <1>1, <1>2 DEF Fits

\* Before the parser ends, its buffer is a part of the file.
LEMMA OpenBuffer == ASSUME TypeInv, TextInv, parser = "open" PROVE BufferInv
<1>1. /\ Len(file) \in Nat \ {0} /\ Sent \in Nat /\ Sent < Len(file) /\ Sent + 1 \in 1..Len(file)
      /\ Len(buffer) \in Nat \ {0} /\ Kept \in Seq(Piece) /\ rest[1] \in Seq(Piece) /\ file[Sent + 1] \in Seq(Piece)
  BY FileLines
<1>2. Fits(Kept)
  <2>1. Len(Kept) + Len(rest[1]) = Len(file[Sent + 1])
    BY DEF TextInv, KeptInv
  <2>2. Len(Kept) \in Nat /\ Len(rest[1]) \in Nat
    BY <1>1
  <2>3. Len(Kept) <= Len(file[Sent + 1])
    BY <2>1, <2>2
  <2> QED
    BY <1>1, <2>3 DEF Fits
<1>3. CASE format # "json"
  <2>1. Len(buffer) = 1 /\ Kept = buffer[1]
    BY <1>3 DEF TypeInv, TypeOK, Kept
  <2> QED
    BY <1>1, <1>2, <2>1 DEF BufferInv
<1>4. CASE format = "json"
  <2>1. Len(buffer) = Sent + 1 /\ \A i \in 1..Sent : buffer[i] = file[i]
    BY <1>4 DEF TextInv, KeptInv
  <2>2. ASSUME NEW i \in 1..Len(buffer) PROVE Fits(buffer[i])
    <3>1. CASE i \in 1..Sent
      <4>1. buffer[i] = file[i] /\ i \in 1..Len(file)
        BY <1>1, <2>1, <3>1
      <4>2. Len(file[i]) \in Nat
        BY <4>1, FileLines
      <4> QED
        BY <4>1, <4>2 DEF Fits
    <3>2. CASE i \notin 1..Sent
      <4>1. i = Len(buffer)
        BY <1>1, <2>1, <3>2
      <4> QED
        BY <1>2, <4>1 DEF Kept
    <3> QED
      BY <3>1, <3>2
  <2> QED
    BY <1>1, <2>1, <2>2 DEF BufferInv
<1> QED
  BY <1>3, <1>4

LEMMA HeldInit == Init /\ TypeInv => HeldInv
<1> SUFFICES ASSUME Init, TypeInv PROVE HeldInv
  OBVIOUS
<1>1. /\ parser = "open" /\ work = <<>> /\ valid = <<>> /\ batch = <<>> /\ lines = <<>> /\ queue = <<>>
  BY DEF Init
<1>2. Len(work) = 0 /\ Len(valid) = 0 /\ Len(lines) = 0 /\ Len(queue) = 0
  BY <1>1
<1>3. Len(file) \in Nat /\ BatchSize \in Nat
  BY FileLines, SizesAssumption
<1> QED
  BY <1>1, <1>2, <1>3 DEF HeldInv

LEMMA HeldStep ==
  ASSUME TypeInv, TypeInv', EndInv, TextInv, ItemInv, WorkInv, HeldInv, [Next]_vars
  PROVE  HeldInv'
<1>0. /\ Len(lines) \in Nat /\ Len(queue) \in Nat /\ Len(batch) \in Nat /\ BatchSize \in Nat \ {0}
      /\ Len(work) \in Nat /\ Len(valid) \in Nat /\ Len(file) \in Nat \ {0} /\ Len(buffer) \in Nat
      /\ lines \in Seq(Seq(Piece)) /\ queue \in Seq(Item) /\ ready \in Seq(Seq(Item))
      /\ work \in Seq(Item) /\ valid \in Seq(Item) /\ parser \in {"open", "ended"}
      /\ batchNumber * BatchSize + 1 \in Nat \ {0}
  <2>1. batchNumber \in Nat /\ BatchSize \in Nat \ {0}
    BY ItemLengths
  <2>2. batchNumber * BatchSize + 1 \in Nat \ {0}
    <3>1. batchNumber * BatchSize \in Nat
      BY <2>1
    <3> QED
      BY <3>1
  <2>3. lines \in Seq(Seq(Piece))
    BY DEF TypeInv, TypeOK
  <2>4. Len(file) \in Nat \ {0} /\ Len(buffer) \in Nat
    BY FileLines
  <2> QED
    BY <2>1, <2>2, <2>3, <2>4, Lengths, LoopLengths, ItemLengths
<1> USE DEF Fits
<1>1. CASE UNCHANGED <<format, file, buffer, parser, lines, queue, batch, work, valid>>
  BY <1>1 DEF HeldInv, BufferInv
<1>2. CASE SourceStep \/ SourceBreaks
  <2>1. source = "open" /\ UNCHANGED <<format, file, parser, queue, batch, work, valid>>
        /\ (format = "json" => lines' = lines)
    BY <1>2 DEF SourceStep, SendChunk, SourceEnds, SourceBreaks, parserVars, batchVars, loopVars
  <2>2. parser = "open"
    BY <1>0, <2>1 DEF EndInv
  <2> QED
    BY <2>1, <2>2 DEF HeldInv
<1>3. CASE ParseLine
  <2>1. /\ lines # <<>> /\ lines' = Tail(lines) /\ Push(lines[1])
        /\ UNCHANGED <<format, file, buffer, parser, batch, work, valid>>
    BY <1>3 DEF ParseLine, sourceVars, batchVars, loopVars
  <2>2. Len(lines') = Len(lines) - 1 /\ lines[1] \in Seq(Piece)
    BY <1>0, <2>1
  <2>3. Len(queue') <= Len(queue) + 1 /\ Len(queue') \in Nat
    <3>1. Len(queue') <= Len(queue) + 1 /\ queue' \in Seq(Item)
      BY <2>1, <2>2, PushType DEF TypeInv
    <3> QED
      BY <3>1
  <2>4. Len(lines') + Len(queue') <= Len(lines) + Len(queue)
    BY <1>0, <2>2, <2>3
  <2>5. format = "json" => Len(lines') + Len(queue') <= Len(file)
    BY <1>0, <2>2, <2>3, <2>4 DEF HeldInv
  <2> QED
    BY <2>1, <2>5 DEF HeldInv, BufferInv
<1>4. CASE ParserEnds
  <2>1. /\ format # "json" /\ buffer' = << <<>> >> /\ UNCHANGED <<format, file, work, valid>>
    BY <1>4 DEF ParserEnds, loopVars
  <2>2. Len(buffer') = 1 /\ buffer'[1] = <<>> /\ Len(buffer'[1]) = 0
    BY <2>1
  <2>3. 1 \in 1..Len(file) /\ Len(file[1]) \in Nat
    <3>1. 1 \in 1..Len(file)
      BY <1>0
    <3>2. file[1] \in Seq(Piece)
      BY <3>1, FileLines
    <3> QED
      BY <3>1, <3>2
  <2>4. BufferInv'
    BY <1>0, <2>1, <2>2, <2>3 DEF BufferInv
  <2> QED
    BY <2>1, <2>4 DEF HeldInv
<1>5. CASE ParseArray
  <2>1. /\ format = "json" /\ parser = "open" /\ UNCHANGED <<format, file, buffer, queue, batch, work, valid>>
        /\ lines' \in {lines, buffer}
    BY <1>5 DEF ParseArray, batchVars
  <2>2. BufferInv
    BY <2>1, OpenBuffer
  <2>3. BufferInv'
    BY <2>1, <2>2 DEF BufferInv
  <2>4. Len(queue) = 0
    <3>1. lineNumber = 0 /\ taken = <<>> /\ Len(taken) = 0
      BY <2>1 DEF TextInv, LineInv, ItemInv, ArrayInv
    <3>2. Rank(0) = 0
      BY RankStep
    <3>3. Rank(lineNumber) = Len(taken) + Len(queue)
      BY <2>1 DEF ItemInv, ArrayInv
    <3> QED
      BY <1>0, <3>1, <3>2, <3>3
  <2>5. Len(lines') + Len(queue') <= Len(file)
    BY <1>0, <2>1, <2>2, <2>4 DEF HeldInv, BufferInv
  <2> QED
    BY <2>1, <2>3, <2>5 DEF HeldInv
<1>6. CASE BatchStep
  BY <1>6 DEF BatchStep, AddToBatch, BatchesEnd, parserVars, loopVars, HeldInv, BufferInv
<1>7. CASE TakeBatch
  <2> DEFINE items == IF format = "csv" THEN Numbered(ready[1], batchNumber * BatchSize + 1) ELSE ready[1]
  <2>1. /\ loop = "wait" /\ ready # <<>>
        /\ (valid' = items /\ work' = work) \/ (valid' = valid /\ work' = items)
        /\ UNCHANGED <<format, file, buffer, parser, lines, queue, batch>>
    BY <1>7 DEF TakeBatch, parserVars
  <2>2. work = <<>> /\ valid = <<>>
    BY <2>1 DEF WorkInv, Live
  <2>3. ready[1] \in Seq(Item) /\ Len(ready[1]) \in 1..BatchSize
    <3>1. 1 \in DOMAIN ready /\ ready[1] \in Seq(Item)
      BY <1>0, <2>1
    <3> QED
      BY <3>1 DEF TypeInv, TypeOK
  <2>4. Len(items) <= BatchSize /\ Len(items) \in Nat
    <3>1. Len(items) = Len(ready[1])
      BY <1>0, <2>3, NumberedType
    <3> QED
      BY <1>0, <2>3, <3>1
  <2> HIDE DEF items
  <2>5. Len(work') + Len(valid') <= BatchSize
    BY <2>1, <2>2, <2>4
  <2> QED
    BY <2>1, <2>5 DEF HeldInv, BufferInv
<1>8. CASE TakeSlice
  <2> DEFINE size == IF Len(queue) < BatchSize THEN Len(queue) ELSE BatchSize
             items == Numbered(SubSeq(queue, 1, size), batchNumber * BatchSize + 1)
  <2>1. /\ loop = "wait" /\ valid' = items /\ queue' = SubSeq(queue, size + 1, Len(queue))
        /\ UNCHANGED <<format, file, buffer, parser, lines, batch, work>>
    BY <1>8 DEF TakeSlice, parserVars, batchVars
  <2>2. work = <<>> /\ Len(work) = 0
    BY <2>1 DEF WorkInv, Live
  <2>3. size \in Nat /\ size <= Len(queue) /\ size <= BatchSize
    BY <1>0
  <2> HIDE DEF size
  <2>4. SubSeq(queue, 1, size) \in Seq(Item) /\ Len(SubSeq(queue, 1, size)) = size
    BY <1>0, <2>3
  <2>5. Len(items) = size
    BY <1>0, <2>4, NumberedType
  <2>6. Len(queue') <= Len(queue) /\ Len(queue') \in Nat
    BY <1>0, <2>1, <2>3
  <2>7. Len(work') + Len(valid') <= BatchSize
    BY <2>1, <2>2, <2>3, <2>5
  <2> HIDE DEF items
  <2>8. format = "json" => Len(lines') + Len(queue') <= Len(file)
    <3>1. Len(lines') = Len(lines)
      BY <2>1
    <3>2. format = "json" => Len(lines) + Len(queue) <= Len(file)
      BY DEF HeldInv
    <3> QED
      BY <1>0, <2>6, <3>1, <3>2
  <2> QED
    BY <2>1, <2>7, <2>8 DEF HeldInv, BufferInv
<1>9. CASE ScanItem
  <2>1. /\ work # <<>> /\ work' = Tail(work) /\ valid' \in {valid, Append(valid, work[1])}
        /\ UNCHANGED <<format, file, buffer, parser, lines, queue, batch>>
    BY <1>9 DEF ScanItem, parserVars, batchVars
  <2>2. Len(work') = Len(work) - 1 /\ Len(valid') <= Len(valid) + 1 /\ Len(valid') \in Nat
    BY <1>0, <2>1
  <2>3. Len(work') + Len(valid') <= BatchSize
    BY <1>0, <2>2 DEF HeldInv
  <2> QED
    BY <2>1, <2>3 DEF HeldInv, BufferInv
<1>10. CASE ProcessRecords
  <2>1. valid' = <<>> /\ UNCHANGED <<format, file, buffer, parser, lines, queue, batch, work>>
    BY <1>10 DEF ProcessRecords, parserVars, batchVars
  <2>2. Len(valid') = 0
    BY <2>1
  <2>3. Len(work') + Len(valid') <= BatchSize
    BY <1>0, <2>1, <2>2 DEF HeldInv
  <2> QED
    BY <2>1, <2>3 DEF HeldInv, BufferInv
<1>11. CASE ParserFails \/ ScanEnds \/ ValidationFails \/ DatabaseFails \/ UpdateJobProgress \/ Complete \/ UNCHANGED vars
  BY <1>1, <1>11 DEF ParserFails, ScanEnds, ValidationFails, DatabaseFails, UpdateJobProgress, Complete, vars,
     parserVars, batchVars
<1> QED
  BY <1>2, <1>3, <1>4, <1>5, <1>6, <1>7, <1>8, <1>9, <1>10, <1>11 DEF Next, ParserStep, LoopStep

\* What waits to be looked at and what waits to be written are rows of the file.
LEMMA HeldFits ==
  ASSUME TypeInv, EndInv, TextInv, ItemInv, TakenInv, WorkInv, ValidInv, HeldInv
  PROVE  \A s \in Held : Fits(s)
<1>0. /\ lines \in Seq(Seq(Piece)) /\ queue \in Seq(Item) /\ batch \in Seq(Item) /\ ready \in Seq(Seq(Item))
      /\ work \in Seq(Item) /\ valid \in Seq(Item) /\ buffer \in Seq(Seq(Piece)) /\ Scanned \in Nat
      /\ Len(taken) \in Nat /\ Len(work) \in Nat
  <2>1. lines \in Seq(Seq(Piece))
    BY DEF TypeInv, TypeOK
  <2>2. buffer \in Seq(Seq(Piece))
    BY FileLines
  <2>3. Scanned \in Nat
    BY CountTypes
  <2> QED
    BY <2>1, <2>2, <2>3, ItemLengths, LoopLengths
<1>d. /\ DOMAIN buffer = 1..Len(buffer) /\ DOMAIN lines = 1..Len(lines) /\ DOMAIN queue = 1..Len(queue)
      /\ DOMAIN batch = 1..Len(batch) /\ DOMAIN ready = 1..Len(ready)
      /\ DOMAIN work = 1..Len(work) /\ DOMAIN valid = 1..Len(valid)
  BY <1>0
<1>1. ASSUME NEW i \in DOMAIN buffer PROVE Fits(buffer[i])
  <2>1. BufferInv
    BY OpenBuffer, ItemLengths DEF HeldInv
  <2> QED
    BY <1>1, <1>d, <2>1 DEF BufferInv
<1>2. ASSUME NEW i \in DOMAIN lines PROVE Fits(lines[i])
  <2>1. WholeLine(lines[i], lineNumber + i)
    BY <1>2, <1>d DEF TextInv, LineInv
  <2> QED
    BY <2>1, LineFits
<1>3. ASSUME NEW i \in DOMAIN queue PROVE Fits(queue[i].text)
  <2>1. i \in 1..Len(queue)
    BY <1>0
  <2>2. \E r : Good(queue[i], r)
    <3>1. CASE format = "json"
      BY <2>1, <3>1 DEF ItemInv, ArrayInv
    <3>2. CASE format # "json" /\ batches = "open"
      BY <2>1, <3>2 DEF ItemInv, OpenInv
    <3>3. CASE format # "json" /\ batches # "open"
      <4>1. queue = <<>>
        BY <3>3, ItemLengths DEF EndInv
      <4> QED
        BY <1>3, <4>1
    <3> QED
      BY <3>1, <3>2, <3>3
  <2> QED
    BY <2>2, ItemFits
<1>4. ASSUME NEW i \in DOMAIN batch PROVE Fits(batch[i].text)
  <2>1. i \in 1..Len(batch)
    BY <1>0
  <2>2. \E r : Good(batch[i], r)
    <3>1. CASE format = "json" \/ batches # "open"
      <4>1. batch = <<>>
        BY <3>1, ItemLengths DEF EndInv, HeldInv
      <4> QED
        BY <1>4, <4>1
    <3>2. CASE format # "json" /\ batches = "open"
      BY <2>1, <3>2 DEF ItemInv, OpenInv
    <3> QED
      BY <3>1, <3>2
  <2> QED
    BY <2>2, ItemFits
<1>5. ASSUME NEW b \in DOMAIN ready, NEW i \in DOMAIN ready[b] PROVE Fits(ready[b][i].text)
  <2>1. b \in 1..Len(ready) /\ ready[b] \in Seq(Item)
    BY <1>0
  <2>2. i \in 1..Len(ready[b])
    BY <2>1
  <2>3. \E r : Good(ready[b][i], r)
    <3>1. CASE format = "json"
      <4>1. ready = <<>>
        BY <3>1 DEF ItemInv, ArrayInv
      <4> QED
        BY <1>5, <4>1
    <3>2. CASE format # "json"
      BY <2>1, <2>2, <3>2 DEF ItemInv, ReadyInv
    <3> QED
      BY <3>1, <3>2
  <2> QED
    BY <2>3, ItemFits
<1>6. ASSUME NEW k \in 1..Len(taken) PROVE Fits(taken[k].text)
  BY ItemFits DEF TakenInv
<1>7. ASSUME NEW i \in DOMAIN work PROVE Fits(work[i].text)
  <2>1. i \in 1..Len(work) /\ work[i] = taken[Scanned + i]
    BY <1>7, <1>d DEF WorkInv
  <2>2. Scanned + i \in 1..Len(taken)
    <3>1. PICK l \in Nat, w \in Nat : l = Len(taken) /\ w = Len(work) /\ Scanned = l - w
      BY <1>0 DEF Scanned
    <3> QED
      BY <1>0, <2>1, <3>1
  <2> QED
    BY <1>6, <2>1, <2>2
<1>8. ASSUME NEW i \in DOMAIN valid PROVE Fits(valid[i].text)
  <2>1. PICK k \in 1..Scanned : valid[i] = taken[k]
    BY <1>8, <1>d DEF ValidInv
  <2>2. k \in 1..Len(taken)
    <3>1. PICK l \in Nat, w \in Nat : l = Len(taken) /\ w = Len(work) /\ Scanned = l - w
      BY <1>0 DEF Scanned
    <3> QED
      BY <1>0, <2>1, <3>1
  <2> QED
    BY <1>6, <2>1, <2>2
<1> QED
  <2> SUFFICES ASSUME NEW s \in Held PROVE Fits(s)
    OBVIOUS
  <2>1. \/ \E i \in DOMAIN buffer : s = buffer[i]
        \/ \E i \in DOMAIN lines : s = lines[i]
        \/ \E i \in DOMAIN queue : s = queue[i].text
        \/ \E i \in DOMAIN batch : s = batch[i].text
        \/ \E b \in DOMAIN ready : s \in {ready[b][i].text : i \in DOMAIN ready[b]}
        \/ \E i \in DOMAIN work : s = work[i].text
        \/ \E i \in DOMAIN valid : s = valid[i].text
    <3> DEFINE OfReady == UNION {{ready[b][n].text : n \in DOMAIN ready[b]} : b \in DOMAIN ready}
    <3>1. s \in OfReady => \E b \in DOMAIN ready : s \in {ready[b][i].text : i \in DOMAIN ready[b]}
      BY Zenon
    <3>2. s \in {buffer[n] : n \in DOMAIN buffer} \cup {lines[n] : n \in DOMAIN lines}
              \cup {queue[n].text : n \in DOMAIN queue} \cup {batch[n].text : n \in DOMAIN batch}
              \cup OfReady
              \cup {work[n].text : n \in DOMAIN work} \cup {valid[n].text : n \in DOMAIN valid}
      BY DEF Held
    <3> HIDE DEF OfReady
    <3> QED
      BY <3>1, <3>2
  <2>2. CASE \E i \in DOMAIN buffer : s = buffer[i]
    BY <1>1, <2>2
  <2>3. CASE \E i \in DOMAIN lines : s = lines[i]
    BY <1>2, <2>3
  <2>4. CASE \E i \in DOMAIN queue : s = queue[i].text
    BY <1>3, <2>4
  <2>5. CASE \E i \in DOMAIN batch : s = batch[i].text
    BY <1>4, <2>5
  <2>6. CASE \E b \in DOMAIN ready : s \in {ready[b][i].text : i \in DOMAIN ready[b]}
    <3>1. PICK b \in DOMAIN ready : s \in {ready[b][i].text : i \in DOMAIN ready[b]}
      BY <2>6
    <3>2. PICK i \in DOMAIN ready[b] : s = ready[b][i].text
      BY <3>1
    <3> QED
      BY <1>5, <3>2
  <2>7. CASE \E i \in DOMAIN work : s = work[i].text
    BY <1>7, <2>7
  <2>8. CASE \E i \in DOMAIN valid : s = valid[i].text
    BY <1>8, <2>8
  <2> QED
    BY <2>1, <2>2, <2>3, <2>4, <2>5, <2>6, <2>7, <2>8

\* However many lines a CSV or NDJSON file has, and however slow the database, what waits in memory
\* is a number of lines that depends on the sizes of buffers and batches alone, none of them longer
\* than the longest of the file.  A JSON file waits as a whole, once as text and once as an array.
THEOREM MemoryTheorem == Spec => []MemoryIsBounded
<1>1. Init => HeldInv
  BY InitTypes, HeldInit
<1>2. CountingInv => WorkInv /\ ValidInv
  BY DEF CountingInv
<1>3. TypeInv /\ TypeInv' /\ EndInv /\ TextInv /\ ItemInv /\ WorkInv /\ HeldInv /\ [Next]_vars => HeldInv'
  BY HeldStep
<1>4. ASSUME TypeInv, EndInv, TextInv, ItemInv, TakenInv, WorkInv, ValidInv, WaitInv, HeldInv PROVE MemoryIsBounded
  <2>0. DOMAIN file = 1..Len(file)
    BY <1>4, FileLines
  <2>1. \A s \in Held : \E n \in DOMAIN file : Len(s) <= Len(file[n])
    BY <1>4, <2>0, HeldFits DEF Fits
  <2>2. Len(batch) < BatchSize /\ Len(work) + Len(valid) <= BatchSize
    BY <1>4 DEF TypeInv, TypeOK, HeldInv
  <2>3. CASE format = "json"
    <3>1. BufferInv
      BY <1>4, OpenBuffer, ItemLengths DEF HeldInv
    <3> QED
      BY <1>4, <2>1, <2>2, <2>3, <3>1 DEF MemoryIsBounded, HeldInv, BufferInv
  <2>4. CASE format # "json"
    <3>1. Len(buffer) = 1
      BY <1>4, <2>4 DEF TypeInv, TypeOK
    <3> QED
      BY <1>4, <2>1, <2>2, <2>4, <3>1, Lengths DEF WaitInv, MemoryIsBounded
  <2> QED
    BY <2>3, <2>4
<1>5. TypeInv /\ EndInv /\ TextInv /\ ItemInv /\ TakenInv /\ WorkInv /\ ValidInv /\ WaitInv /\ HeldInv => MemoryIsBounded
  BY <1>4
<1> QED
  BY <1>1, <1>2, <1>3, <1>5, ItemsHold, WaitHolds, CountingHolds, PTL DEF Spec
=============================================================================
