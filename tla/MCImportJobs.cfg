\* Two requests with one key, two workers; no restarts. Database errors: see the other runs.
CONSTANTS
  r1 = r1
  r2 = r2
  k1 = k1
  NoKey = NoKey
  NoJob = NoJob
  NoWorker = NoWorker
  NoCleaner = NoCleaner
  Orphan = Orphan
  Request = {r1, r2}
  Key = {k1}
  KeyOf <- BothWithKey
  FromUrl = {r2}
  Worker = {w1, w2}
  Cleaner = {c1}
  Batches = 2
  MaxAttempts = 2
  MaxStalls = 1
  RestartStaleJobs = FALSE
  Faults = {"request", "crash", "redis", "lapse", "stall", "slow"}
SPECIFICATION Spec
SYMMETRY Workers
INVARIANTS
  TypeOK
  OneExecution
  NoBatchTwice
  CompletedIsWhole
  LockColumns
  KeyNamesOneJob
