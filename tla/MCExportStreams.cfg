\* Every format to both kinds of reader, empty, full and short pages; it stops at the end.
CONSTANTS
  Formats = {"ndjson", "json", "csv"}
  Sinks = {"upload", "response"}
  Sizes <- SomeSizes
  PageSize = 2
  Hwm = 1
  Faults = {"db", "s3", "abort"}
SPECIFICATION FairSpec
INVARIANTS
  TypeOK
  SunkIsPrefix
  CompleteIsWhole
PROPERTY ExportEnds
CHECK_DEADLOCK FALSE
