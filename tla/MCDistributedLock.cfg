\* One dependable node next to one with every fault there is.
CONSTANTS
  n1 = n1
  n2 = n2
  c1 = c1
  c2 = c2
  c3 = c3
  c4 = c4
  NoCaller = NoCaller
  Orphan = Orphan
  Node = {n1, n2}
  Caller = {c1, c2, c3, c4}
  HomeOf <- HomeOfCallers
  TTL = 2
  Retries <- RetriesOfCallers
  Flaky = {c3}
  Slow = {n2}
  Stopping = {n2}
SPECIFICATION FairSpec
INVARIANTS
  TypeOK
  IntervalsTracked
PROPERTIES
  ImplementsLock
  OnlyOwnerFrees
  AbandonedKeyFrees
CHECK_DEADLOCK FALSE
