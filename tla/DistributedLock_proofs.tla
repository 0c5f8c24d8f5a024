----------------------- MODULE DistributedLock_proofs -----------------------
(***************************************************************************)
(* Proofs about DistributedLock for any nodes, callers, expiry and faults. *)
(***************************************************************************)
EXTENDS DistributedLockRefinement, TLAPS

LEMMA HalfBounds == Half \in Nat /\ 0 < Half /\ Half < TTL
BY TimeAssumption, SMT DEF Half

\* Every variable keeps its type, whatever fails (all of distributed-lock.service.ts).
THEOREM TypeCorrect == Spec => []TypeOK
<1>1. Init => TypeOK
  BY HalfBounds, TimeAssumption DEF Init, TypeOK
<1>2. TypeOK /\ [Next]_vars => TypeOK'
  <2> SUFFICES ASSUME TypeOK, [Next]_vars PROVE TypeOK'
    OBVIOUS
  <2> USE HalfBounds, TimeAssumption, CallerAssumption DEF TypeOK
  <2>1. ASSUME NEW c \in Caller, AcquireLock(c) PROVE TypeOK'
    BY <2>1 DEF AcquireLock, StartLockRenewal
  <2>2. ASSUME NEW c \in Caller, AcquireRefused(c) PROVE TypeOK'
    BY <2>2 DEF AcquireRefused, NextAttempt, redisVars, timerVars
  <2>3. ASSUME NEW c \in Caller, AcquireError(c) PROVE TypeOK'
    BY <2>3 DEF AcquireError, NextAttempt, redisVars, timerVars
  <2>4. ASSUME NEW c \in Caller, ReleaseLock(c) PROVE TypeOK'
    BY <2>4 DEF ReleaseLock, StopLockRenewal, ClearIntervals, redisVars
  <2>5. ASSUME NEW c \in Caller, ReleaseEval(c) PROVE TypeOK'
    BY <2>5 DEF ReleaseEval, DeleteIfOwned, FreeKey, redisVars, timerVars
  <2>6. ASSUME NEW c \in Caller, ReleaseError(c) PROVE TypeOK'
    BY <2>6 DEF ReleaseError, DeleteIfOwned, FreeKey, redisVars, timerVars
  <2>7. ASSUME NEW c \in Caller, Renew(c) PROVE TypeOK'
    BY <2>7 DEF Renew, Fires
  <2>8. ASSUME NEW c \in Caller, RenewRefused(c) PROVE TypeOK'
    BY <2>8 DEF RenewRefused, Fires
  <2>9. ASSUME NEW c \in Caller, RenewError(c) PROVE TypeOK'
    BY <2>9 DEF RenewError, Fires
  <2>10. ASSUME NEW c \in Caller, RenewalStops(c) PROVE TypeOK'
    BY <2>10 DEF RenewalStops, StopLockRenewal, ClearIntervals, redisVars
  <2>11. ASSUME NEW n \in Node, ShutdownBegins(n) PROVE TypeOK'
    BY <2>11 DEF ShutdownBegins, ClearIntervals, redisVars
  <2>12. ASSUME NEW n \in Node, ShutdownGet(n) PROVE TypeOK'
    BY <2>12 DEF ShutdownGet, redisVars, timerVars
  <2>13. ASSUME NEW n \in Node, ShutdownDel(n) PROVE TypeOK'
    BY <2>13 DEF ShutdownDel, FreeKey, timerVars
  <2>18. ASSUME NEW n \in Node, ShutdownError(n) PROVE TypeOK'
    BY <2>18 DEF ShutdownError, redisVars, timerVars
  <2>14. ASSUME NEW n \in Node, ShutdownQuit(n) PROVE TypeOK'
    BY <2>14 DEF ShutdownQuit, redisVars
  <2>15. ASSUME NEW n \in Node, ProcessEnds(n) PROVE TypeOK'
    BY <2>15 DEF ProcessEnds, ClearIntervals, redisVars
  <2>16. CASE Tick
    BY <2>16 DEF Tick, Expire, FreeKey
  <2>17. CASE UNCHANGED vars
    BY <2>17 DEF vars
  <2> QED
    BY <2>1, <2>2, <2>3, <2>4, <2>5, <2>6, <2>7, <2>8, <2>9, <2>10, <2>11, <2>12,
       <2>13, <2>14, <2>15, <2>16, <2>17, <2>18 DEF Next, CallerStep, TimerStep, ShutdownStep
<1> QED
  BY <1>1, <1>2, PTL DEF Spec

-----------------------------------------------------------------------------
\* The strengthening of FaultIsolation and IntervalsTracked.  The map entry of a
\* node is an interval of that node, whatever happens.
ActiveAtHome ==
  \A n \in Node : active[n] # NoCaller => HomeOf[active[n]] = n

\* On a dependable node the holder owns the key, its interval runs, is the one in
\* the map, and fires before the key expires.
Isolated(c) ==
  /\ c \notin refused
  /\ c \in live => pc[c] = "held"
  /\ pc[c] = "held" =>
       owner = c /\ c \in live /\ active[HomeOf[c]] = c /\ due[c] < ttl

IInv ==
  /\ TypeOK
  /\ ActiveAtHome
  /\ NoShutdown => \A c \in Caller : Dependable(HomeOf[c]) => Isolated(c)

\* A node that has begun to shut down never counts as undisturbed again.
LEMMA ShutdownIsForGood == ASSUME TypeOK, [Next]_vars, NoShutdown' PROVE NoShutdown
<1> SUFFICES ASSUME NEW n \in Node, node'[n] \in {"up", "crashed"}
             PROVE  node[n] \in {"up", "crashed"}
  BY DEF NoShutdown
<1>1. CASE \E c \in Caller : CallerStep(c) \/ TimerStep(c)
  BY <1>1 DEF CallerStep, TimerStep, AcquireLock, AcquireRefused, AcquireError, ReleaseLock,
     ReleaseEval, ReleaseError, Renew, RenewRefused, RenewError, RenewalStops, Fires
<1>2. ASSUME NEW m \in Node, ShutdownStep(m) PROVE node[n] \in {"up", "crashed"}
  BY <1>2 DEF TypeOK, ShutdownStep, ShutdownBegins, ShutdownGet, ShutdownDel, ShutdownError, ShutdownQuit
<1>3. ASSUME NEW m \in Node, ProcessEnds(m) PROVE node[n] \in {"up", "crashed"}
  BY <1>3 DEF TypeOK, ProcessEnds
<1>4. CASE Tick \/ UNCHANGED vars
  BY <1>4 DEF Tick, vars
<1> QED
  BY <1>1, <1>2, <1>3, <1>4 DEF Next

LEMMA ActiveAtHomeStep == ASSUME TypeOK, ActiveAtHome, [Next]_vars PROVE ActiveAtHome'
<1> USE CallerAssumption DEF TypeOK, ActiveAtHome
<1>1. ASSUME NEW c \in Caller, CallerStep(c) \/ TimerStep(c) PROVE ActiveAtHome'
  BY <1>1 DEF CallerStep, TimerStep, AcquireLock, AcquireRefused, AcquireError, ReleaseLock,
     ReleaseEval, ReleaseError, Renew, RenewRefused, RenewError, RenewalStops, Fires,
     StartLockRenewal, StopLockRenewal, timerVars
<1>2. ASSUME NEW n \in Node, ShutdownStep(n) \/ ProcessEnds(n) PROVE ActiveAtHome'
  BY <1>2 DEF ShutdownStep, ShutdownBegins, ShutdownGet, ShutdownDel, ShutdownError, ShutdownQuit, ProcessEnds,
     timerVars
<1>3. CASE Tick \/ UNCHANGED vars
  BY <1>3 DEF Tick, vars
<1> QED
  BY <1>1, <1>2, <1>3 DEF Next

\* One step keeps a caller on a dependable node isolated.
LEMMA IsolatedStep ==
  ASSUME IInv, [Next]_vars, NoShutdown, NoShutdown',
         NEW d \in Caller, Dependable(HomeOf[d])
  PROVE  Isolated(d)'
<1> USE HalfBounds, TimeAssumption, CallerAssumption DEF TypeOK, Isolated
<1>0. TypeOK /\ ActiveAtHome /\ \A c \in Caller : Dependable(HomeOf[c]) => Isolated(c)
  BY DEF IInv
<1>1. ASSUME NEW c \in Caller, AcquireLock(c) PROVE Isolated(d)'
  BY <1>0, <1>1 DEF AcquireLock, KeyIsFree, StartLockRenewal
<1>2. ASSUME NEW c \in Caller, AcquireRefused(c) PROVE Isolated(d)'
  BY <1>0, <1>2 DEF AcquireRefused, NextAttempt, redisVars, timerVars
<1>3. ASSUME NEW c \in Caller, AcquireError(c) PROVE Isolated(d)'
  BY <1>0, <1>3 DEF AcquireError, NextAttempt, KeyIsFree, redisVars, timerVars
<1>4. ASSUME NEW c \in Caller, ReleaseLock(c) PROVE Isolated(d)'
  BY <1>0, <1>4 DEF ReleaseLock, StopLockRenewal, ClearIntervals, redisVars, ActiveAtHome
<1>5. ASSUME NEW c \in Caller, ReleaseEval(c) PROVE Isolated(d)'
  BY <1>0, <1>5 DEF ReleaseEval, DeleteIfOwned, OwnsKey, FreeKey, redisVars, timerVars
<1>6. ASSUME NEW c \in Caller, ReleaseError(c) PROVE Isolated(d)'
  BY <1>0, <1>6 DEF ReleaseError, DeleteIfOwned, OwnsKey, FreeKey, redisVars, timerVars
<1>7. ASSUME NEW c \in Caller, Renew(c) PROVE Isolated(d)'
  BY <1>0, <1>7 DEF Renew, Fires
<1>8. ASSUME NEW c \in Caller, RenewRefused(c) PROVE Isolated(d)'
  BY <1>0, <1>8 DEF RenewRefused, OwnsKey, Fires
<1>9. ASSUME NEW c \in Caller, RenewError(c) PROVE Isolated(d)'
  <2>1. ~Dependable(HomeOf[c])
    <3>1. node[HomeOf[c]] \in {"up", "crashed"}
      BY DEF NoShutdown
    <3>2. c \in Flaky
      BY <1>9, <3>1 DEF RenewError, MayError, Running, Open
    <3> QED
      BY <3>2 DEF Dependable
  <2> QED
    BY <1>0, <1>9, <2>1 DEF RenewError, OwnsKey, Fires
<1>10. ASSUME NEW c \in Caller, RenewalStops(c) PROVE Isolated(d)'
  <2>1. HomeOf[c] # HomeOf[d]
    BY <1>0, <1>10 DEF RenewalStops
  <2> QED
    BY <1>0, <1>10, <2>1 DEF RenewalStops, StopLockRenewal, ClearIntervals, redisVars, ActiveAtHome
<1>11. ASSUME NEW n \in Node, ShutdownStep(n) PROVE Isolated(d)'
  BY <1>0, <1>11 DEF NoShutdown, ShutdownStep, ShutdownBegins, ShutdownGet, ShutdownDel, ShutdownError, ShutdownQuit
<1>12. ASSUME NEW n \in Node, ProcessEnds(n) PROVE Isolated(d)'
  BY <1>0, <1>12 DEF ProcessEnds, ClearIntervals, redisVars
<1>13. CASE Tick
  BY <1>0, <1>13 DEF Tick, TimersServed, Dependable, Expire, FreeKey
<1>14. CASE UNCHANGED vars
  BY <1>0, <1>14 DEF vars
<1> QED
  BY <1>1, <1>2, <1>3, <1>4, <1>5, <1>6, <1>7, <1>8, <1>9, <1>10, <1>11, <1>12, <1>13, <1>14
  DEF Next, CallerStep, TimerStep

LEMMA IInvInvariant == Spec => []IInv
<1>1. Init => IInv
  BY HalfBounds, TimeAssumption DEF Init, IInv, TypeOK, ActiveAtHome, Isolated
<1>2. IInv /\ [Next]_vars /\ TypeOK' => IInv'
  <2> SUFFICES ASSUME IInv, [Next]_vars, TypeOK' PROVE IInv'
    OBVIOUS
  <2>1. ActiveAtHome'
    BY ActiveAtHomeStep DEF IInv
  <2>2. ASSUME NoShutdown', NEW c \in Caller, Dependable(HomeOf[c]) PROVE Isolated(c)'
    BY <2>2, ShutdownIsForGood, IsolatedStep DEF IInv
  <2> QED
    BY <2>1, <2>2 DEF IInv, Dependable
<1> QED
  BY <1>1, <1>2, TypeCorrect, PTL DEF Spec

\* A caller on a node where nothing goes wrong owns the key for as long as it
\* holds the lock, whatever goes wrong elsewhere, until some node shuts down.
THEOREM IsolationTheorem == Spec => []FaultIsolation
<1>1. IInv => FaultIsolation
  BY DEF IInv, FaultIsolation, Isolated
<1> QED
  BY <1>1, IInvInvariant, PTL

\* On such a node every running interval belongs to a holder and is in the map.
THEOREM TrackingTheorem == Spec => []IntervalsTracked
<1>1. IInv => IntervalsTracked
  BY DEF IInv, TypeOK, IntervalsTracked, Isolated
<1> QED
  BY <1>1, IInvInvariant, PTL

\* No other caller ever takes a key away from its owner before the key expires.
THEOREM OwnerTheorem == Spec => OnlyOwnerFrees
<1>1. TypeOK /\ [Next]_vars
        => [NoShutdown /\ owner # NoCaller /\ ttl > 1 /\ owner' # owner
              => pc[owner] = "releasing" /\ pc'[owner] = "done"]_vars
  <2> SUFFICES ASSUME TypeOK, Next, NoShutdown, owner # NoCaller, ttl > 1, owner' # owner
               PROVE  pc[owner] = "releasing" /\ pc'[owner] = "done"
    BY DEF vars
  <2> USE DEF TypeOK, redisVars
  <2>1. ASSUME NEW c \in Caller, CallerStep(c)
        PROVE  pc[owner] = "releasing" /\ pc'[owner] = "done"
    BY <2>1 DEF CallerStep, AcquireLock, AcquireRefused, AcquireError, ReleaseLock, ReleaseEval,
       ReleaseError, KeyIsFree, DeleteIfOwned, OwnsKey
  <2>2. ASSUME NEW c \in Caller, TimerStep(c) PROVE FALSE
    BY <2>2 DEF TimerStep, Renew, RenewRefused, RenewError, RenewalStops, Fires
  <2>3. ASSUME NEW n \in Node, ShutdownStep(n) \/ ProcessEnds(n) PROVE FALSE
    BY <2>3 DEF NoShutdown, ShutdownStep, ShutdownBegins, ShutdownGet, ShutdownDel, ShutdownError, ShutdownQuit,
       ProcessEnds
  <2>4. CASE Tick
    BY <2>4 DEF Tick, Expire
  <2> QED
    BY <2>1, <2>2, <2>3, <2>4 DEF Next
<1> QED
  BY <1>1, TypeCorrect, PTL DEF Spec, OnlyOwnerFrees

-----------------------------------------------------------------------------
(* An abandoned key becomes free: the steps behind AbandonedKeyFrees *)

Abandoned(c) == owner = c /\ pc[c] # "held"

\* A renewal that can still reach Redis and would succeed belongs to a holder, and its
\* interval is the one that releaseLock and onModuleDestroy find.  Intervals that were
\* overwritten in the map may run on, but their callers never own the key again.
RenewalInv ==
  \A c \in live :
    /\ pc[c] # "acquiring" /\ Running(HomeOf[c])
    /\ owner = c /\ Open(HomeOf[c]) => pc[c] = "held" /\ active[HomeOf[c]] = c

\* Nothing makes an abandoned key live longer, nobody takes it over before it is free, and
\* every tick brings it nearer to its end: releaseLock stops the renewal before the DEL that
\* may be lost, and a SET whose answer was lost starts none.
AbandonedDies ==
  [][\A c \in Caller : Abandoned(c) =>
       owner' = NoCaller \/ (Abandoned(c)' /\ ttl' <= ttl /\ (Tick => ttl' < ttl))]_vars

\* Intervals that hold up the time.
Due == {c \in live : due[c] = 0}

TimerGoesOn(c) == c \in refused \/ (c \in Due /\ (Connected(c) \/ MayError(c)))

\* As long as the key is taken time can pass, or a timer or an answer it has to wait for can
\* be served, on nodes that shut down too.
TimeGoesOn == owner # NoCaller => TimersServed \/ \E c \in Caller : TimerGoesOn(c)

\* Between two ticks there are only so many of them to serve: each takes one from the due
\* intervals, or one from the answers, and nothing else makes an interval due.
TimersCount ==
  [][~Tick => /\ Due' \subseteq Due
              /\ \A c \in Caller : TimerStep(c) =>
                   Due' # Due \/ (refused' \subseteq refused /\ refused' # refused)]_vars

LEMMA RenewalStep == ASSUME TypeOK, RenewalInv, [Next]_vars PROVE RenewalInv'
<1> USE CallerAssumption DEF TypeOK, RenewalInv
<1>0. \A n \in Node : Open(n)' => Running(n)'
  BY DEF Running, Open
<1>1. ASSUME NEW c \in Caller, AcquireLock(c) PROVE RenewalInv'
  BY <1>1 DEF AcquireLock, KeyIsFree, StartLockRenewal, Connected, Running, Open
<1>2. ASSUME NEW c \in Caller, AcquireRefused(c) PROVE RenewalInv'
  BY <1>2 DEF AcquireRefused, NextAttempt, redisVars, timerVars, Running, Open
<1>3. ASSUME NEW c \in Caller, AcquireError(c) PROVE RenewalInv'
  BY <1>3 DEF AcquireError, NextAttempt, KeyIsFree, redisVars, timerVars, Running, Open
<1>4. ASSUME NEW c \in Caller, ReleaseLock(c) PROVE RenewalInv'
  BY <1>4 DEF ReleaseLock, StopLockRenewal, ClearIntervals, redisVars, Running, Open
<1>5. ASSUME NEW c \in Caller, ReleaseEval(c) \/ ReleaseError(c) PROVE RenewalInv'
  BY <1>5 DEF ReleaseEval, ReleaseError, DeleteIfOwned, OwnsKey, FreeKey, redisVars, timerVars, Running, Open
<1>6. ASSUME NEW c \in Caller, Renew(c) \/ RenewRefused(c) \/ RenewError(c) PROVE RenewalInv'
  BY <1>6 DEF Renew, RenewRefused, RenewError, Fires, Running, Open
<1>7. ASSUME NEW c \in Caller, RenewalStops(c) PROVE RenewalInv'
  BY <1>7 DEF RenewalStops, StopLockRenewal, ClearIntervals, redisVars, Running, Open
<1>8. ASSUME NEW n \in Node, ShutdownStep(n) PROVE RenewalInv'
  BY <1>8 DEF ShutdownStep, ShutdownBegins, ShutdownGet, ShutdownDel, ShutdownError, ShutdownQuit, ClearIntervals,
     FreeKey, redisVars, timerVars, Running, Open
<1>9. ASSUME NEW n \in Node, ProcessEnds(n) PROVE RenewalInv'
  BY <1>9 DEF ProcessEnds, ClearIntervals, redisVars, Running, Open
<1>10. CASE Tick
  BY <1>10 DEF Tick, Expire, FreeKey, Running, Open
<1>11. CASE UNCHANGED vars
  BY <1>11 DEF vars, Running, Open
<1> QED
  BY <1>1, <1>2, <1>3, <1>4, <1>5, <1>6, <1>7, <1>8, <1>9, <1>10, <1>11 DEF Next, CallerStep, TimerStep

LEMMA RenewalHolds == Spec => [](TypeOK /\ RenewalInv)
<1>1. Init => RenewalInv
  BY DEF Init, RenewalInv
<1> QED
  BY <1>1, RenewalStep, TypeCorrect, PTL DEF Spec

\* One step with an abandoned key.
LEMMA AbandonedStep ==
  ASSUME TypeOK, RenewalInv, [Next]_vars, NEW d \in Caller, Abandoned(d)
  PROVE  owner' = NoCaller \/ (Abandoned(d)' /\ ttl' <= ttl /\ (Tick => ttl' < ttl))
<1> DEFINE Goal == owner' = NoCaller \/ (Abandoned(d)' /\ ttl' <= ttl)
<1> USE TimeAssumption, CallerAssumption DEF TypeOK, Abandoned
<1>0. Tick => owner' = NoCaller \/ (ttl' < ttl /\ ttl' <= ttl /\ owner' = owner /\ pc' = pc)
  BY DEF Tick, Expire, FreeKey
<1>1. ASSUME NEW c \in Caller, AcquireLock(c) PROVE Goal
  BY <1>1 DEF AcquireLock, KeyIsFree
<1>2. ASSUME NEW c \in Caller, AcquireRefused(c) \/ AcquireError(c) PROVE Goal
  BY <1>2 DEF AcquireRefused, AcquireError, KeyIsFree, NextAttempt, redisVars
<1>3. ASSUME NEW c \in Caller, ReleaseLock(c) \/ ReleaseEval(c) \/ ReleaseError(c) PROVE Goal
  BY <1>3 DEF ReleaseLock, ReleaseEval, ReleaseError, DeleteIfOwned, FreeKey, redisVars
\* The renewal would have to be that of a holder.
<1>4. ASSUME NEW c \in Caller, Renew(c) \/ RenewError(c) PROVE Goal
  BY <1>4 DEF Renew, RenewError, Fires, OwnsKey, Connected, RenewalInv
<1>5. ASSUME NEW c \in Caller, RenewRefused(c) \/ RenewalStops(c) PROVE Goal
  BY <1>5 DEF RenewRefused, RenewalStops, Fires, redisVars
<1>6. ASSUME NEW n \in Node, ShutdownStep(n) \/ ProcessEnds(n) PROVE Goal
  BY <1>6 DEF ShutdownStep, ShutdownBegins, ShutdownGet, ShutdownDel, ShutdownError, ShutdownQuit, ProcessEnds,
     FreeKey, redisVars
<1>7. ASSUME Tick PROVE Goal
  BY <1>0, <1>7
<1>8. ASSUME UNCHANGED vars PROVE Goal
  <2>1. owner' = owner /\ pc' = pc /\ ttl' = ttl /\ ttl <= ttl
    BY <1>8 DEF vars
  <2> QED
    BY <2>1
<1>9. Goal
  BY <1>1, <1>2, <1>3, <1>4, <1>5, <1>6, <1>7, <1>8 DEF Next, CallerStep, TimerStep
<1> QED
  BY <1>0, <1>9

\* AbandonedDies: what is left of the life of an abandoned key only falls, for any callers,
\* nodes, retries and expiry, and whatever fails.
THEOREM AbandonedTheorem == Spec => AbandonedDies
<1>1. TypeOK /\ RenewalInv /\ [Next]_vars =>
        [\A c \in Caller : Abandoned(c) =>
           owner' = NoCaller \/ (Abandoned(c)' /\ ttl' <= ttl /\ (Tick => ttl' < ttl))]_vars
  BY AbandonedStep
<1> QED
  BY <1>1, RenewalHolds, PTL DEF Spec, AbandonedDies

\* A timer that holds up the time can be served: its node answers, or raises an error, or
\* first has an earlier answer to handle.
LEMMA TimersAreServed == ASSUME TypeOK, RenewalInv PROVE TimeGoesOn
<1> SUFFICES ASSUME ~TimersServed PROVE \E c \in Caller : TimerGoesOn(c)
  BY DEF TimeGoesOn
<1>1. PICK c \in live : due[c] = 0
  BY HalfBounds DEF TimersServed, TypeOK
<1>2. c \in Caller /\ Running(HomeOf[c]) /\ c \in Due
  BY <1>1 DEF RenewalInv, TypeOK, Due
<1>3. CASE InOrder(HomeOf[c])
  <2>1. Connected(c) \/ MayError(c)
    BY <1>2, <1>3 DEF Connected, MayError
  <2> QED
    BY <1>2, <2>1 DEF TimerGoesOn
<1>4. CASE ~InOrder(HomeOf[c])
  <2>1. PICK e \in refused : HomeOf[e] = HomeOf[c]
    BY <1>4 DEF InOrder
  <2>2. e \in Caller
    BY <2>1 DEF TypeOK
  <2> QED
    BY <2>1, <2>2 DEF TimerGoesOn
<1> QED
  BY <1>3, <1>4

LEMMA DueStep ==
  ASSUME TypeOK, [Next]_vars, ~Tick
  PROVE  /\ Due' \subseteq Due
         /\ \A c \in Caller : TimerStep(c) =>
              Due' # Due \/ (refused' \subseteq refused /\ refused' # refused)
<1> USE HalfBounds, CallerAssumption DEF TypeOK, Due
<1>1. ASSUME NEW c \in Caller, AcquireLock(c) PROVE Due' \subseteq Due
  BY <1>1 DEF AcquireLock, StartLockRenewal
<1>2. ASSUME NEW c \in Caller, ReleaseLock(c) \/ RenewalStops(c) PROVE Due' \subseteq Due
  BY <1>2 DEF ReleaseLock, RenewalStops, StopLockRenewal, ClearIntervals
<1>3. ASSUME NEW c \in Caller, AcquireRefused(c) \/ AcquireError(c) \/ ReleaseEval(c) \/ ReleaseError(c)
      PROVE  Due' \subseteq Due
  BY <1>3 DEF AcquireRefused, AcquireError, ReleaseEval, ReleaseError, timerVars
<1>4. ASSUME NEW c \in Caller, Fires(c) PROVE Due' \subseteq Due /\ Due' # Due
  <2>1. c \in Due /\ c \notin Due'
    BY <1>4 DEF Fires
  <2>2. Due' \subseteq Due
    BY <1>4 DEF Fires
  <2> QED
    BY <2>1, <2>2
<1>5. ASSUME NEW n \in Node, ShutdownStep(n) \/ ProcessEnds(n) PROVE Due' \subseteq Due
  BY <1>5 DEF ShutdownStep, ShutdownBegins, ShutdownGet, ShutdownDel, ShutdownError, ShutdownQuit, ProcessEnds,
     ClearIntervals, timerVars
<1>6. ASSUME UNCHANGED vars PROVE Due' \subseteq Due
  <2>1. live' = live /\ due' = due
    BY <1>6 DEF vars
  <2> QED
    BY <2>1
<1>7. Due' \subseteq Due
  BY <1>1, <1>2, <1>3, <1>4, <1>5, <1>6
     DEF Next, CallerStep, TimerStep, Renew, RenewRefused, RenewError
<1>8. ASSUME NEW c \in Caller, TimerStep(c)
      PROVE  Due' # Due \/ (refused' \subseteq refused /\ refused' # refused)
  <2>1. CASE RenewalStops(c)
    BY <2>1 DEF RenewalStops
  <2>2. CASE Fires(c)
    BY <1>4, <2>2
  <2> QED
    BY <1>8, <2>1, <2>2 DEF TimerStep, Renew, RenewRefused, RenewError
<1> QED
  BY <1>7, <1>8

\* TimeGoesOn and TimersCount: a key that is taken never stops the time, and what
\* timers do between two ticks uses them up.  With AbandonedDies these are the steps of the argument
\* for AbandonedKeyFrees, for any callers and nodes.
THEOREM TimeTheorem == Spec => []TimeGoesOn /\ TimersCount
<1>1. TypeOK /\ RenewalInv => TimeGoesOn
  BY TimersAreServed
<1>2. TypeOK /\ [Next]_vars =>
        [~Tick => /\ Due' \subseteq Due
                  /\ \A c \in Caller : TimerStep(c) =>
                       Due' # Due \/ (refused' \subseteq refused /\ refused' # refused)]_vars
  BY DueStep
<1> QED
  BY <1>1, <1>2, RenewalHolds, PTL DEF Spec, TimersCount

-----------------------------------------------------------------------------
(* DistributedLock implements LockService *)

\* Time takes the key only from a caller that may lose it, and tokens of nobody.
LEMMA TickRefines == ASSUME IInv, IInv', Tick PROVE [Lock!Next]_(Lock!vars)
<1> USE CallerAssumption, OrphanAssumption DEF TypeOK, Working, Token, Lock!vars
<1>0. TypeOK /\ TypeOK' /\ (NoShutdown <=> NoShutdown') /\ Working' = Working
  BY DEF IInv, Tick, NoShutdown
<1>1. CASE owner' = owner
  BY <1>0, <1>1
<1>2. CASE owner' # owner
  <2>1. owner' = NoCaller /\ owner \in Caller
    BY <1>0, <1>2 DEF Tick, Expire, FreeKey
  <2>2. CASE owner \in Working
    <3>1. PICK c \in Caller : c = owner
      BY <2>1
    <3>2. Lock!MayLapse(c)
      BY <1>0, <2>1, <2>2, <3>1 DEF IInv, Isolated, Tick, Dependable, Lock!MayLapse
    <3>3. Lock!Lapse(c)
      BY <1>0, <2>1, <2>2, <3>1, <3>2 DEF Lock!Lapse
    <3> QED
      BY <3>3 DEF Lock!Next
  <2>3. CASE owner \notin Working
    BY <1>0, <2>1, <2>3 DEF Lock!Next, Lock!Expire
  <2> QED
    BY <2>2, <2>3
<1> QED
  BY <1>1, <1>2

\* A process that ends leaves the lock with all its callers.
LEMMA EndRefines ==
  ASSUME TypeOK, NEW n \in Node, ProcessEnds(n) PROVE [Lock!Next]_(Lock!vars)
<1> USE CallerAssumption, OrphanAssumption DEF TypeOK, Token, Lock!vars, redisVars
<1> DEFINE S == {c \in Working : HomeOf[c] = n}
<1>1. Working' = Working \ S
  BY DEF ProcessEnds, Working
<1>2. NoShutdown <=> NoShutdown'
  BY DEF ProcessEnds, NoShutdown
<1>3. owner' = owner
  BY DEF ProcessEnds
<1>4. CASE S = {}
  BY <1>1, <1>2, <1>3, <1>4
<1>5. CASE S # {}
  <2>1. Lock!Leave(S)
    BY <1>1, <1>2, <1>3, <1>5 DEF Lock!Leave, Working
  <2> QED
    BY <2>1 DEF Lock!Next
<1> QED
  BY <1>4, <1>5

\* Every step is a step of LockService or cannot be told from none.
LEMMA LockStep == ASSUME IInv, IInv', [Next]_vars PROVE [Lock!Next]_(Lock!vars)
<1> USE CallerAssumption, OrphanAssumption DEF Token, Lock!vars, redisVars, timerVars
<1>0. TypeOK
  BY DEF IInv
<1>1. ASSUME NEW c \in Caller, AcquireLock(c) PROVE [Lock!Next]_(Lock!vars)
  <2>1. Lock!Acquire(c)
    BY <1>0, <1>1 DEF TypeOK, AcquireLock, KeyIsFree, Working, NoShutdown, Lock!Acquire
  <2> QED
    BY <2>1 DEF Lock!Next
<1>2. ASSUME NEW c \in Caller, AcquireRefused(c) PROVE [Lock!Next]_(Lock!vars)
  BY <1>0, <1>2 DEF TypeOK, AcquireRefused, NextAttempt, Working, NoShutdown
<1>3. ASSUME NEW c \in Caller, AcquireError(c) PROVE [Lock!Next]_(Lock!vars)
  <2>1. Working' = Working /\ (NoShutdown <=> NoShutdown')
    BY <1>0, <1>3 DEF TypeOK, AcquireError, NextAttempt, Working, NoShutdown
  <2>2. c \notin Working
    BY <1>3 DEF AcquireError, Working
  <2> QED
    BY <1>0, <1>3, <2>1, <2>2 DEF TypeOK, AcquireError, KeyIsFree, Working, Lock!Next, Lock!Leak
<1>4. ASSUME NEW c \in Caller, ReleaseLock(c) PROVE [Lock!Next]_(Lock!vars)
  <2>1. Working' = Working \ {c} /\ c \in Working /\ (NoShutdown <=> NoShutdown')
    BY <1>0, <1>4 DEF TypeOK, ReleaseLock, Working, NoShutdown
  <2>2. Lock!Leave({c})
    BY <1>0, <1>4, <2>1 DEF TypeOK, ReleaseLock, Working, Lock!Leave
  <2> QED
    BY <2>1, <2>2 DEF Lock!Next
<1>5. ASSUME NEW c \in Caller, ReleaseEval(c) \/ ReleaseError(c) PROVE [Lock!Next]_(Lock!vars)
  <2>1. Working' = Working /\ c \notin Working /\ (NoShutdown <=> NoShutdown')
    BY <1>0, <1>5 DEF TypeOK, ReleaseEval, ReleaseError, Working, NoShutdown
  <2>2. CASE owner' = owner
    BY <2>1, <2>2
  <2>3. CASE owner' # owner
    <3>1. Lock!Expire
      BY <1>0, <1>5, <2>1, <2>3
      DEF TypeOK, ReleaseEval, ReleaseError, DeleteIfOwned, OwnsKey, FreeKey, Lock!Expire
    <3> QED
      BY <3>1 DEF Lock!Next
  <2> QED
    BY <2>2, <2>3
<1>6. ASSUME NEW c \in Caller, TimerStep(c) PROVE [Lock!Next]_(Lock!vars)
  BY <1>6 DEF TimerStep, Renew, RenewRefused, RenewError, RenewalStops, Fires, Working, NoShutdown
<1>7. ASSUME NEW n \in Node, ShutdownStep(n) PROVE [Lock!Next]_(Lock!vars)
  <2>1. Working' = Working
    BY <1>7 DEF ShutdownStep, ShutdownBegins, ShutdownGet, ShutdownDel, ShutdownError, ShutdownQuit, Working
  <2>2. CASE ShutdownBegins(n)
    <3>1. ~NoShutdown' /\ owner' = owner
      BY <1>0, <2>2 DEF TypeOK, ShutdownBegins, NoShutdown
    <3> QED
      BY <2>1, <3>1 DEF Lock!Next, Lock!Stop
  <2>3. CASE ShutdownGet(n) \/ ShutdownDel(n) \/ ShutdownError(n) \/ ShutdownQuit(n)
    <3>1. ~NoShutdown /\ ~NoShutdown'
      BY <1>0, <2>3 DEF TypeOK, ShutdownGet, ShutdownDel, ShutdownError, ShutdownQuit, NoShutdown
    <3>2. owner' \in {owner, NoCaller}
      BY <2>3 DEF ShutdownGet, ShutdownDel, ShutdownError, ShutdownQuit, FreeKey
    <3> QED
      BY <1>0, <2>1, <3>1, <3>2
      DEF TypeOK, Working, Lock!Next, Lock!Lapse, Lock!MayLapse, Lock!Expire
  <2> QED
    BY <1>7, <2>2, <2>3 DEF ShutdownStep
<1>8. ASSUME NEW n \in Node, ProcessEnds(n) PROVE [Lock!Next]_(Lock!vars)
  BY <1>0, <1>8, EndRefines
<1>9. CASE Tick
  BY <1>9, TickRefines
<1>10. CASE UNCHANGED vars
  BY <1>10 DEF vars, Working, NoShutdown
<1> QED
  BY <1>1, <1>2, <1>3, <1>4, <1>5, <1>6, <1>7, <1>8, <1>9, <1>10 DEF Next, CallerStep

\* What a caller sees of the lock follows LockService, for any callers, nodes and faults:
\* what ImportJobs and ExportJobs take a job's lock for is what Redis and the timers give.
THEOREM LockTheorem == Spec => ImplementsLock
<1>1. Init => Lock!Init
  BY DEF Init, Lock!Init, Token, Working, NoShutdown
<1>2. IInv /\ IInv' /\ [Next]_vars => [Lock!Next]_(Lock!vars)
  BY LockStep
<1> QED
  BY <1>1, <1>2, IInvInvariant, PTL DEF Spec, ImplementsLock, Lock!Spec
=============================================================================
