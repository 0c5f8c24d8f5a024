\* Two workers, three rows in pages of two.
CONSTANTS
  a = a
  b = b
  c = c
  NoWorker = NoWorker
  Orphan = Orphan
  NoRead = NoRead
  Worker = {w1, w2}
  Row = {a, b, c}
  Tables <- SomeTables
  Times = {2}
  MaxLeaves = 1
  MaxUpdates = 1
  PageSize = 2
  MaxDeliveries = 2
  RestartStaleJobs = FALSE
  Faults = {"request", "crash", "redis", "lapse", "db", "s3", "slow"}
SPECIFICATION FairSpec
INVARIANTS
  TypeOK
  OneExecution
  LockColumns
  FileIsWhole
  FileIsExact
PROPERTIES
  ImplementsLifecycle
  ProcessingIsTemporary
CHECK_DEADLOCK FALSE
