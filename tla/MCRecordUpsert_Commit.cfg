\* One import whose COMMIT may raise an error.
CONSTANTS
  a = a
  b = b
  k1 = k1
  k2 = k2
  d1 = d1
  NoId = NoId
  NoRow = NoRow
  Before = Before
  Import = {a}
  Key = {k1, k2}
  Id = {d1}
  Kinds = {"users", "articles", "comments"}
  Files <- ManyFiles
  MaxLines = 3
  BatchSize = 2
  Faults = {"commit"}
SPECIFICATION Spec
INVARIANT CountedOnce
