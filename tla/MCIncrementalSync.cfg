SPECIFICATION Spec
CONSTANTS
  k1 = k1
  a = a
  b = b
  Keys = {k1}
  NullKey = NullKey
  Columns <- Two
  Configs <- SyncedDeletes
  MaxRuns = 3
CHECK_DEADLOCK FALSE
INVARIANTS
  OneRowPerKey
