\* Four files in three formats, batches of two rows; it stops when the import has ended.
CONSTANTS
  Formats = {"csv", "ndjson", "json"}
  Files <- SomeFiles
  BatchSize = 2
  MaxErrors = 2
  MaxReport = 4
  ProgressEvery = 2
  Hwm = 1
  ChunkLines = 2
  Faults = {"source", "db", "commit"}
SPECIFICATION FairSpec
INVARIANTS
  TypeOK
  RowsKeepTheirNumber
  DoneIsWhole
  TotalsAddUp
  ErrorsTell
  MemoryIsBounded
PROPERTY ImportComesToAnEnd
CHECK_DEADLOCK FALSE
