SPECIFICATION Spec
CONSTANTS
  k1 = k1
  a = a
  b = b
  Keys = {k1}
  NullKey = NullKey
  Columns <- Two
  Configs <- Writes
  MaxRuns = 3
CHECK_DEADLOCK FALSE
INVARIANTS
  TypeOK
  OneRowPerKey
PROPERTIES
  IncrementApplied
  OthersUntouched
  ColumnsFollowPolicy
