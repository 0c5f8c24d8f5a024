\* Nothing fails, and the reader is as slow as it likes.
CONSTANTS
  Formats = {"ndjson", "json", "csv"}
  Sinks = {"upload", "response"}
  Sizes = {9}
  PageSize = 2
  Hwm = 1
  Faults = {}
SPECIFICATION Spec
INVARIANT MemoryIsBounded
CHECK_DEADLOCK FALSE
