---------------------------- MODULE MCExportJobs ----------------------------
(* Instances of ExportJobs: three rows in pages of two. *)
EXTENDS ExportJobsRefinement

CONSTANTS a, b, c

\* All three are counted, and one may leave and come back at the time of c; or
\* two are counted, and the third may come between them.
SomeTables ==
  LET At(x, y, z) == [r \in Row |-> IF r = a THEN x ELSE IF r = b THEN y ELSE z]
  IN  {[rows |-> {a, b, c}, created |-> At(0, 1, 2)], [rows |-> {a, b}, created |-> At(1, 3, 0)]}
=============================================================================
