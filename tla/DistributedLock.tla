-------------------------- MODULE DistributedLock --------------------------
(***************************************************************************)
(* The Redis lock of src/src/common/services/distributed-lock.service.ts,  *)
(* for one resource key.  A caller is one call of acquireLock together     *)
(* with the lock object it returns, so its token is fresh and the caller   *)
(* itself stands for it.  Time is a countdown in ticks; the sleep between  *)
(* two attempts and the names of keys and nodes are left out.              *)
(***************************************************************************)
EXTENDS Naturals

CONSTANTS
  Node,      \* the processes of the service
  Caller,    \* the calls of acquireLock
  HomeOf,    \* the node a caller runs on
  NoCaller,  \* no token at the key, no interval in the map
  TTL,       \* the expiry given to SET PX and PEXPIRE, in ticks
  Retries,   \* how often each caller repeats a refused attempt
  Flaky,     \* callers whose commands Redis may fail to answer
  Slow,      \* nodes whose event loop may run a timer late
  Stopping   \* nodes that may be told to shut down

ASSUME CallerAssumption ==
  /\ HomeOf \in [Caller -> Node]
  /\ NoCaller \notin Caller
ASSUME TimeAssumption == TTL \in Nat \ {0, 1} /\ Retries \in [Caller -> Nat]
ASSUME FaultAssumption == Flaky \subseteq Caller /\ Slow \subseteq Node /\ Stopping \subseteq Node

VARIABLES
  owner,    \* the token stored at the key
  ttl,      \* what is left of its expiry
  pc,       \* where each caller stands
  attempt,  \* attempts a caller has used up
  live,     \* callers whose renewal interval is running
  due,      \* ticks until a running interval fires
  refused,  \* callers whose renewal came back false and has not been handled
  active,   \* activeLocks of each node: the interval it knows of
  node      \* life cycle of each node

redisVars == <<owner, ttl>>
timerVars == <<live, due, refused, active>>
vars == <<owner, ttl, pc, attempt, live, due, refused, active, node>>

Half == TTL \div 2

TypeOK ==
  /\ owner \in Caller \cup {NoCaller}
  /\ ttl \in 0..TTL
  /\ pc \in [Caller -> {"acquiring", "held", "releasing", "done", "failed", "dead"}]
  /\ attempt \in [Caller -> Nat] /\ \A c \in Caller : attempt[c] <= Retries[c]
  /\ live \subseteq Caller
  /\ due \in [Caller -> 0..Half]
  /\ refused \subseteq Caller
  /\ active \in [Node -> Caller \cup {NoCaller}]
  /\ node \in [Node -> {"up", "destroying", "deleting", "clearing", "quit", "exited", "crashed"}]

Init ==
  /\ owner = NoCaller /\ ttl = 0
  /\ pc = [c \in Caller |-> "acquiring"]
  /\ attempt = [c \in Caller |-> 0]
  /\ live = {} /\ refused = {}
  /\ due = [c \in Caller |-> 0]
  /\ active = [n \in Node |-> NoCaller]
  /\ node = [n \in Node |-> "up"]

-----------------------------------------------------------------------------
\* The one Redis connection of a node answers its commands in order until quit()
\* closes it: nothing is answered before a refused renewal has been handled.  A
\* command of a flaky caller, or of any caller after quit(), may raise an error.
Open(n) == node[n] \in {"up", "destroying", "deleting", "clearing"}
Running(n) == Open(n) \/ node[n] = "quit"
InOrder(n) == \A c \in refused : HomeOf[c] # n
Connected(c) == Open(HomeOf[c]) /\ InOrder(HomeOf[c])
MayError(c) == Running(HomeOf[c]) /\ InOrder(HomeOf[c]) /\ (c \in Flaky \/ ~Open(HomeOf[c]))

\* Variant: the script compares nothing before it deletes.
OwnsKey_NoCompare(c) == owner # NoCaller

\* The comparison both Lua scripts make before they act.
OwnsKey(c) == owner = c

FreeKey == owner' = NoCaller /\ ttl' = 0

\* DEL inside releaseLock's script, when the comparison allows it.
DeleteIfOwned(c) == IF OwnsKey(c) THEN FreeKey ELSE UNCHANGED redisVars

\* clearInterval of the intervals in S.
ClearIntervals(S) ==
  /\ live' = live \ S
  /\ due' = [c \in Caller |-> IF c \in S THEN 0 ELSE due[c]]

\* Variant: the map entry goes, the interval keeps running.
StopLockRenewal_LeavesInterval(n) ==
  /\ UNCHANGED <<live, due>>
  /\ active' = [active EXCEPT ![n] = NoCaller]

\* stopLockRenewal finds the interval by the key, whoever started it.
StopLockRenewal(n) ==
  /\ ClearIntervals({active[n]})
  /\ active' = [active EXCEPT ![n] = NoCaller]

\* Variant: the interval is as long as the expiry.
StartLockRenewal_FullTTL(c) ==
  /\ live' = live \cup {c}
  /\ due' = [due EXCEPT ![c] = TTL]
  /\ active' = [active EXCEPT ![HomeOf[c]] = c]

\* startLockRenewal overwrites the entry of an interval still in the map.
StartLockRenewal(c) ==
  /\ live' = live \cup {c}
  /\ due' = [due EXCEPT ![c] = Half]
  /\ active' = [active EXCEPT ![HomeOf[c]] = c]

-----------------------------------------------------------------------------
\* Variant: SET without NX.
KeyIsFree_Always == TRUE

\* SET NX succeeds only on an absent key.
KeyIsFree == owner = NoCaller

\* An attempt that did not get the lock is repeated, or acquireLock gives up.
NextAttempt(c) ==
  IF attempt[c] < Retries[c]
  THEN attempt' = [attempt EXCEPT ![c] = @ + 1] /\ UNCHANGED pc
  ELSE pc' = [pc EXCEPT ![c] = "failed"] /\ UNCHANGED attempt

AcquireLock(c) ==
  /\ pc[c] = "acquiring" /\ Connected(c)
  /\ KeyIsFree
  /\ owner' = c /\ ttl' = TTL
  /\ pc' = [pc EXCEPT ![c] = "held"]
  /\ StartLockRenewal(c)
  /\ UNCHANGED <<attempt, refused, node>>

AcquireRefused(c) ==
  /\ pc[c] = "acquiring" /\ Connected(c)
  /\ ~KeyIsFree
  /\ NextAttempt(c)
  /\ UNCHANGED <<redisVars, timerVars, node>>

\* SET raises an error; Redis may have stored the token all the same.
AcquireError(c) ==
  /\ pc[c] = "acquiring" /\ MayError(c)
  /\ \/ UNCHANGED redisVars
     \/ Connected(c) /\ KeyIsFree /\ owner' = c /\ ttl' = TTL
  /\ NextAttempt(c)
  /\ UNCHANGED <<timerVars, node>>

\* releaseLock stops the renewal before it sends the script.
ReleaseLock(c) ==
  /\ pc[c] = "held" /\ Running(HomeOf[c])
  /\ pc' = [pc EXCEPT ![c] = "releasing"]
  /\ StopLockRenewal(HomeOf[c])
  /\ UNCHANGED <<redisVars, attempt, refused, node>>

ReleaseEval(c) ==
  /\ pc[c] = "releasing" /\ Connected(c)
  /\ DeleteIfOwned(c)
  /\ pc' = [pc EXCEPT ![c] = "done"]
  /\ UNCHANGED <<attempt, timerVars, node>>

\* The script raises an error, before or after Redis ran it: releaseLock says false.
ReleaseError(c) ==
  /\ pc[c] = "releasing" /\ MayError(c)
  /\ UNCHANGED redisVars \/ (Connected(c) /\ DeleteIfOwned(c))
  /\ pc' = [pc EXCEPT ![c] = "done"]
  /\ UNCHANGED <<attempt, timerVars, node>>

-----------------------------------------------------------------------------
\* The interval of c fires and extendLock's script runs.
Fires(c) ==
  /\ c \in live /\ due[c] = 0
  /\ due' = [due EXCEPT ![c] = Half]
  /\ UNCHANGED <<owner, pc, attempt, live, active, node>>

Renew(c) ==
  /\ Connected(c) /\ Fires(c)
  /\ OwnsKey(c)
  /\ ttl' = TTL
  /\ UNCHANGED refused

RenewRefused(c) ==
  /\ Connected(c) /\ Fires(c)
  /\ ~OwnsKey(c)
  /\ refused' = refused \cup {c}
  /\ UNCHANGED ttl

\* The script raises an error, before or after Redis ran it: extendLock says false.
RenewError(c) ==
  /\ MayError(c) /\ Fires(c)
  /\ refused' = refused \cup {c}
  /\ UNCHANGED ttl \/ (Connected(c) /\ OwnsKey(c) /\ ttl' = TTL)

\* A renewal that returned false ends "the" renewal of the key on this node.
RenewalStops(c) ==
  /\ c \in refused
  /\ refused' = refused \ {c}
  /\ StopLockRenewal(HomeOf[c])
  /\ UNCHANGED <<redisVars, pc, attempt, node>>

-----------------------------------------------------------------------------
\* onModuleDestroy clears the interval it knows of, then GETs the key.
ShutdownBegins(n) ==
  /\ n \in Stopping /\ node[n] = "up"
  /\ ClearIntervals({active[n]})
  /\ node' = [node EXCEPT ![n] = IF active[n] = NoCaller THEN "clearing" ELSE "destroying"]
  /\ UNCHANGED <<redisVars, pc, attempt, refused, active>>

\* releaseLockByKey: the token starts with the id of this node, or it does not.
ShutdownGet(n) ==
  /\ node[n] = "destroying" /\ InOrder(n)
  /\ node' = [node EXCEPT ![n] =
       IF owner # NoCaller /\ HomeOf[owner] = n THEN "deleting" ELSE "clearing"]
  /\ UNCHANGED <<redisVars, pc, attempt, timerVars>>

\* releaseLockByKey: DEL, whatever the key holds by now, and whether or not it is answered.
ShutdownDel(n) ==
  /\ node[n] = "deleting" /\ InOrder(n)
  /\ FreeKey
  /\ node' = [node EXCEPT ![n] = "clearing"]
  /\ UNCHANGED <<pc, attempt, timerVars>>

\* GET or DEL raises an error, which onModuleDestroy only logs: the key is left.
ShutdownError(n) ==
  /\ node[n] \in {"destroying", "deleting"} /\ InOrder(n)
  /\ \E c \in Flaky : HomeOf[c] = n
  /\ node' = [node EXCEPT ![n] = "clearing"]
  /\ UNCHANGED <<redisVars, pc, attempt, timerVars>>

ShutdownQuit(n) ==
  /\ node[n] = "clearing"
  /\ active' = [active EXCEPT ![n] = NoCaller]
  /\ node' = [node EXCEPT ![n] = "quit"]
  /\ UNCHANGED <<redisVars, pc, attempt, live, due, refused>>

\* The process ends, after a shutdown or at any point: its timers end with it.
ProcessEnds(n) ==
  /\ node[n] \notin {"exited", "crashed"}
  /\ node' = [node EXCEPT ![n] = IF @ = "up" THEN "crashed" ELSE "exited"]
  /\ pc' = [c \in Caller |-> IF HomeOf[c] = n THEN "dead" ELSE pc[c]]
  /\ ClearIntervals({c \in Caller : HomeOf[c] = n})
  /\ refused' = {c \in refused : HomeOf[c] # n}
  /\ active' = [active EXCEPT ![n] = NoCaller]
  /\ UNCHANGED <<redisVars, attempt>>

-----------------------------------------------------------------------------
\* Time passes.  A timer that is due runs first, unless its node is slow.
TimersServed == \A c \in live : HomeOf[c] \in Slow \/ due[c] > 0

Expire ==
  IF ttl > 1 THEN ttl' = ttl - 1 /\ UNCHANGED owner ELSE FreeKey

Tick ==
  /\ TimersServed
  /\ owner # NoCaller \/ live # {}
  /\ Expire
  /\ due' = [c \in Caller |-> IF c \in live /\ due[c] > 0 THEN due[c] - 1 ELSE due[c]]
  /\ UNCHANGED <<pc, attempt, live, refused, active, node>>

CallerStep(c) ==
  \/ AcquireLock(c) \/ AcquireRefused(c) \/ AcquireError(c)
  \/ ReleaseLock(c) \/ ReleaseEval(c) \/ ReleaseError(c)

TimerStep(c) == Renew(c) \/ RenewRefused(c) \/ RenewError(c) \/ RenewalStops(c)

ShutdownStep(n) ==
  \/ ShutdownBegins(n) \/ ShutdownGet(n) \/ ShutdownDel(n) \/ ShutdownError(n) \/ ShutdownQuit(n)

Next ==
  \/ \E c \in Caller : CallerStep(c) \/ TimerStep(c)
  \/ \E n \in Node : ShutdownStep(n) \/ ProcessEnds(n)
  \/ Tick

\* Time goes on, timers and replies are served.  Work under the lock may take
\* for ever: nothing makes a caller release.
Fairness ==
  /\ WF_vars(Tick)
  /\ \A c \in Caller :
       /\ WF_vars(AcquireLock(c) \/ AcquireRefused(c) \/ AcquireError(c))
       /\ WF_vars(ReleaseEval(c) \/ ReleaseError(c))
       /\ WF_vars(TimerStep(c))

Spec == Init /\ [][Next]_vars
FairSpec == Spec /\ Fairness

-----------------------------------------------------------------------------
NoShutdown == \A n \in Node : node[n] \in {"up", "crashed"}

\* Nothing goes wrong on this node itself, whatever goes wrong on the others.
Dependable(n) ==
  /\ n \notin Slow \cup Stopping
  /\ \A c \in Flaky : HomeOf[c] # n

\* A caller that holds the lock on a node where Redis always answers and timers
\* run on time owns the key until it releases it: errors, late timers and
\* crashes of other nodes never cost it the lock (acquireLock, startLockRenewal
\* and the token comparison of both scripts).
FaultIsolation ==
  NoShutdown =>
    \A c \in Caller : pc[c] = "held" /\ Dependable(HomeOf[c]) => owner = c

\* On such a node no renewal interval outlives its lock, and onModuleDestroy can
\* find every interval that runs (activeLocks against setInterval).
IntervalsTracked ==
  NoShutdown =>
    \A c \in live :
      Dependable(HomeOf[c]) => pc[c] = "held" /\ active[HomeOf[c]] = c

\* Before its expiry the key changes hands only because its owner releases it:
\* neither releaseLock, extendLock nor acquireLock of another caller removes it.
OnlyOwnerFrees ==
  [][NoShutdown /\ owner # NoCaller /\ ttl > 1 /\ owner' # owner
       => pc[owner] = "releasing" /\ pc'[owner] = "done"]_vars

\* A key whose caller is not working under it any more becomes free: a crashed
\* holder, a release whose DEL was lost and a SET whose answer was lost block
\* nobody for ever, because no interval is left to renew it (releaseLock stops
\* the renewal before it deletes).
AbandonedKeyFrees ==
  \A c \in Caller : (owner = c /\ pc[c] # "held") ~> (owner # c)

\* What README.md:552 promises: one worker at a time behind the lock.
MutualExclusion ==
  \A c, d \in Caller : pc[c] = "held" /\ pc[d] = "held" => c = d
=============================================================================
