--------------------------- MODULE MCRecordUpsert ---------------------------
(* Instances of RecordUpsert: two keys, one id that may have a row already. *)
EXTENDS RecordUpsert

CONSTANTS a, b, k1, k2, d1

R(i, k, c) == [id |-> i, key |-> k, check |-> c]
Plain(k) == R(NoId, k, "passes")

\* Both orders of two keys, a key that comes again in its batch and in the next one,
\* records that the checks refuse, and records that name a row by its id.
ManyFiles ==
  { <<Plain(k1), Plain(k2)>>, <<Plain(k2), Plain(k1)>>,
    <<R(NoId, k1, "reference"), Plain(k1), Plain(k1)>>,
    <<R(NoId, k1, "invalid"), R(NoId, k2, "invalid")>>,
    <<R(d1, k1, "passes"), R(d1, k2, "passes")>> }
=============================================================================
