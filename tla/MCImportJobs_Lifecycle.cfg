\* One job, two workers: crashes, stalled deliveries and lost answers of the database.
CONSTANTS
  r1 = r1
  r2 = r2
  k1 = k1
  NoKey = NoKey
  NoJob = NoJob
  NoWorker = NoWorker
  NoCleaner = NoCleaner
  Orphan = Orphan
  Request = {r1}
  Key = {k1}
  KeyOf <- BothWithKey
  FromUrl = {r1}
  Worker = {w1, w2}
  Cleaner = {c1}
  Batches = 2
  MaxAttempts = 2
  MaxStalls = 1
  RestartStaleJobs = FALSE
  Faults = {"crash", "db", "stall", "slow"}
SPECIFICATION FairSpec
INVARIANTS
  CompletedIsWhole
  LockColumns
PROPERTIES
  ProcessingIsTemporary
  ImplementsLifecycle
