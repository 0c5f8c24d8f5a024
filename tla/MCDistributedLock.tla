------------------------ MODULE MCDistributedLock ------------------------
(* Instances of DistributedLock: callers c1 and c2 run on node n1, c3 and c4 on n2. *)
EXTENDS DistributedLockRefinement

CONSTANTS n1, n2, c1, c2, c3, c4

HomeOfCallers == [c \in {c1, c2, c3, c4} |-> IF c \in {c1, c2} THEN n1 ELSE n2]

\* Only c4 asks twice: the jobs and the cleanup ask with retries: 0, as the others do.
RetriesOfCallers == [c \in {c1, c2, c3, c4} |-> IF c = c4 THEN 1 ELSE 0]
=============================================================================
