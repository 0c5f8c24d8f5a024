--------------------- MODULE DistributedLockRefinement ---------------------
(***************************************************************************)
(* DistributedLock implements LockService.  The token counts as its        *)
(* owner's for as long as the owner has not called releaseLock; the expiry, *)
(* the renewals and the attempts are hidden.                               *)
(***************************************************************************)
EXTENDS DistributedLock

CONSTANT Orphan  \* the token of a caller that is not working under it

ASSUME OrphanAssumption == Orphan \notin Caller \cup {NoCaller}

Working == {c \in Caller : pc[c] = "held"}

Token == IF owner \in Working \cup {NoCaller} THEN owner ELSE Orphan

Lock == INSTANCE LockService WITH
  token <- Token, working <- Working, stopping <- ~NoShutdown,
  Reliable <- {c \in Caller : Dependable(HomeOf[c])}

\* What a caller sees of the lock is what LockService allows: as long as no process
\* shuts down, a caller on a node where Redis answers and timers run on time has the
\* key from acquireLock to releaseLock, whatever fails elsewhere, and nobody's
\* token is taken away by the scripts of another.
ImplementsLock == Lock!Spec
=============================================================================
