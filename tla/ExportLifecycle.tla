-------------------------- MODULE ExportLifecycle --------------------------
(***************************************************************************)
(* What a client may rely on when it asks for an export, with no queue,    *)
(* locks, pages, saved entities or cleanup in sight: a document that is    *)
(* written once, all at once, and that is whole but for one row to each    *)
(* that has left the selection while it was written.  An export that takes *)
(* longer than the cleanup allows for (Slow) may be called FAILED for a    *)
(* while; the document and what is in it do not depend on that.            *)
(***************************************************************************)
EXTENDS Integers, Sequences, FiniteSets

CONSTANTS
  Row,     \* rows the table may have
  Tables,  \* what may be selected to begin with: rows, and created_at
  Slow     \* whether an export may outlive the thresholds of the cleanup

VARIABLES
  created,   \* created_at of each row
  rows,      \* the rows that match the filters
  status,    \* as the status endpoint shows it, "none" before the export exists
  counted,   \* the rows the export has promised
  left,      \* how often a row has left them since, -1 before
  tied,      \* whether two rows have had the same created_at since
  document   \* the rows of the file, <<>> as long as there is none

table == <<created, rows, left, tied>>
vars == <<table, status, counted, document>>

Distinct == \A a, b \in rows : created[a] = created[b] => a = b

Init ==
  /\ \E t \in Tables : rows = t.rows /\ created = t.created
  /\ status = "none" /\ counted = {} /\ left = -1 /\ tied = ~Distinct /\ document = <<>>

Missing(d) == {r \in counted : \A n \in DOMAIN d : d[n] # r}

InOrder(d) == \A m, n \in DOMAIN d : m < n => d[m] # d[n] /\ created[d[m]] <= created[d[n]]

\* A line for each row that was promised and a promised row in some line, but for one to
\* each that left; and if none left, no line of another row and none twice, sorted.  Rows
\* with equal times may take each other's place.
Whole(d) ==
  /\ Len(d) + left >= Cardinality(counted)
  /\ ~tied => Cardinality(Missing(d)) <= left
  /\ left = 0 => \A n \in DOMAIN d : d[n] \in rows
  /\ left = 0 /\ rows = counted => Len(d) = Cardinality(rows) /\ (~tied => InOrder(d))

Promised == left >= 0

\* An export that nobody has promised does not notice.
Edit == Promised /\ UNCHANGED <<status, counted, document>>

Enter(r) ==
  /\ r \notin rows /\ rows' = rows \cup {r}
  /\ created'[r] \in Nat /\ created' = [created EXCEPT ![r] = created'[r]]
  /\ tied' = (tied \/ ~Distinct') /\ Edit /\ UNCHANGED left

Leave(r) ==
  /\ r \in rows /\ rows' = rows \ {r}
  /\ left' = left + 1 /\ Edit /\ UNCHANGED <<created, tied>>

Become(s) == status' = s /\ UNCHANGED <<table, counted, document>>

Accept == status = "none" /\ Become("PENDING")

Claim == status = "PENDING" /\ Become("PROCESSING")

InHand == status = "PROCESSING" \/ (Slow /\ status = "FAILED")

Count ==
  /\ InHand /\ ~Promised
  /\ counted' = rows /\ left' = 0 /\ tied' = ~Distinct
  /\ UNCHANGED <<created, rows, status, document>>

Deliver ==
  /\ status = "PROCESSING" /\ document = <<>> /\ Promised
  /\ Whole(document')
  /\ status' = "COMPLETED" /\ UNCHANGED <<table, counted>>

\* The export fails, or nobody is left to finish it.
GiveUp == status = "PROCESSING" /\ Become("FAILED")

\* The cleanup takes an export for dead that has come to its end meanwhile.
Doubt == Slow /\ status = "COMPLETED" /\ Become("FAILED")

\* The export it took for dead goes on, or its document is asked for.
Return ==
  /\ Slow /\ status = "FAILED"
  /\ \/ document = <<>> /\ Become("PROCESSING")
     \/ (~tied => Cardinality(Missing(document)) <= left) /\ Become("COMPLETED")

Next ==
  \/ \E r \in Row : Enter(r) \/ Leave(r)
  \/ Accept \/ Claim \/ Count \/ Deliver \/ GiveUp \/ Doubt \/ Return

Spec == Init /\ [][Next]_vars
=============================================================================
