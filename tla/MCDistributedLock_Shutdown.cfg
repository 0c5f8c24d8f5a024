\* A graceful shutdown is all that happens.
CONSTANTS
  n1 = n1
  n2 = n2
  c1 = c1
  c2 = c2
  c3 = c3
  c4 = c4
  NoCaller = NoCaller
  Orphan = Orphan
  Node = {n1, n2}
  Caller = {c1, c2, c3, c4}
  HomeOf <- HomeOfCallers
  TTL = 2
  Retries <- RetriesOfCallers
  Flaky = {}
  Slow = {}
  Stopping = {n2}
SPECIFICATION Spec
INVARIANT MutualExclusion
CHECK_DEADLOCK FALSE
