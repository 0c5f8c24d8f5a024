---------------------------- MODULE JobLifecycle ----------------------------
(***************************************************************************)
(* What a client may rely on when it polls import jobs, with no locks,     *)
(* queue, workers or cleanup in sight: a job is claimed once, its file is  *)
(* written only while it is being processed, each batch once, and COMPLETED *)
(* comes after the last batch.  A finished job never changes, unless an    *)
(* import may outlive the thresholds of the cleanup (Slow).                *)
(***************************************************************************)
EXTENDS Naturals

CONSTANTS
  Job,
  Batches,
  Slow  \* whether the cleanup may take an import for dead that is not

VARIABLES
  status,   \* as the status endpoint shows it, "none" before the job exists
  written   \* batches of its file that are in the tables

vars == <<status, written>>

Init ==
  /\ status = [j \in Job |-> "none"]
  /\ written = [j \in Job |-> 0]

Become(j, s) == status' = [status EXCEPT ![j] = s] /\ UNCHANGED written

Accept(j) == status[j] = "none" /\ Become(j, "PENDING")

Claim(j) == status[j] = "PENDING" /\ Become(j, "PROCESSING")

InHand(j) == status[j] = "PROCESSING" \/ (Slow /\ status[j] = "FAILED")

Write(j) ==
  /\ InHand(j) /\ written[j] < Batches
  /\ written' = [written EXCEPT ![j] = @ + 1]
  /\ UNCHANGED status

Complete(j) == status[j] = "PROCESSING" /\ written[j] = Batches /\ Become(j, "COMPLETED")

\* The import fails, or nobody is left to finish it.
GiveUp(j) == status[j] = "PROCESSING" /\ Become(j, "FAILED")

\* An import that was taken for dead has come to its end meanwhile.
Doubt(j) == Slow /\ status[j] = "COMPLETED" /\ Become(j, "FAILED")

Next ==
  \E j \in Job :
    Accept(j) \/ Claim(j) \/ Write(j) \/ Complete(j) \/ GiveUp(j) \/ Doubt(j)

Spec == Init /\ [][Next]_vars
=============================================================================
