---------------------------- MODULE LockService ----------------------------
(***************************************************************************)
(* What the services may rely on when they take a lock, with no Redis,     *)
(* expiry, timers, retries or nodes in sight: one token at the key, which  *)
(* belongs to whoever got it until it leaves.  A token nobody answers for  *)
(* (Orphan) goes away by itself.  A caller that is not reliable may lose   *)
(* its lock at any time, and once a process has been told to stop so may   *)
(* every caller.  ImportJobs and ExportJobs keep a lock of this kind for   *)
(* each job.                                                               *)
(***************************************************************************)
CONSTANTS Caller, NoCaller, Orphan, Reliable

VARIABLES
  token,    \* whose token is at the key: a caller's, Orphan, or NoCaller if it is free
  working,  \* the callers that believe they hold the lock
  stopping  \* whether some process has been told to stop

vars == <<token, working, stopping>>

Init == token = NoCaller /\ working = {} /\ stopping = FALSE

Acquire(c) ==
  /\ token = NoCaller /\ c \notin working
  /\ token' = c /\ working' = working \cup {c} /\ UNCHANGED stopping

\* A token is stored for a caller that is never told so.
Leak ==
  /\ token = NoCaller
  /\ token' = Orphan /\ UNCHANGED <<working, stopping>>

\* A caller releases the lock, or a process dies with all its callers: the key is
\* free now or later, and nobody else's token is touched.
Leave(S) ==
  /\ S # {} /\ working' = working \ S
  /\ token' \in IF token \in S THEN {NoCaller, Orphan} ELSE {token}
  /\ UNCHANGED stopping

Expire ==
  /\ token = Orphan
  /\ token' = NoCaller /\ UNCHANGED <<working, stopping>>

MayLapse(c) == c \notin Reliable \/ stopping

Lapse(c) ==
  /\ token = c /\ MayLapse(c)
  /\ token' = NoCaller /\ UNCHANGED <<working, stopping>>

Stop ==
  /\ ~stopping
  /\ stopping' = TRUE /\ UNCHANGED <<token, working>>

Next ==
  \/ \E c \in Caller : Acquire(c) \/ Lapse(c)
  \/ \E S \in SUBSET working : Leave(S)
  \/ Leak \/ Expire \/ Stop

Spec == Init /\ [][Next]_vars
=============================================================================
