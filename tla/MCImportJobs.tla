---------------------------- MODULE MCImportJobs ----------------------------
(* Instances of ImportJobs: r1 and r2 are requests with the same key. *)
EXTENDS ImportJobsRefinement, TLC

CONSTANTS r1, r2, k1

BothWithKey == [r \in Request |-> k1]
NoneWithKey == [r \in Request |-> NoKey]

\* Workers are interchangeable; used by runs that check no liveness.
Workers == Permutations(Worker)
=============================================================================
