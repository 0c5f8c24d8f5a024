\* Two imports into one table, batches of two records.
CONSTANTS
  a = a
  b = b
  k1 = k1
  k2 = k2
  d1 = d1
  NoId = NoId
  NoRow = NoRow
  Before = Before
  Import = {a, b}
  Key = {k1, k2}
  Id = {d1}
  Kinds = {"articles", "comments"}
  Files <- ManyFiles
  MaxLines = 3
  BatchSize = 2
  Faults = {"record", "batch", "release", "commit", "import"}
SPECIFICATION FairSpec
INVARIANTS
  TypeOK
  EveryLineCounted
  SuccessfulIsStored
  FailedLeavesNoTrace
  KeysAreUnique
PROPERTIES
  EveryImportEnds
  RowsKeepTheirKey
