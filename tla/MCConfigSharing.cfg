SPECIFICATION Spec
CONSTANTS
  t1 = t1
  t2 = t2
  t3 = t3
  n1 = n1
  s1 = s1
  s2 = s2
  Threads = {t1, t2, t3}
  Nodes = {n1}
  Sources = {s1, s2}
  Nothing = Nothing
  Nobody = Nobody
  Depth = 2
  MaxNodes = 4
SYMMETRY Symmetry
CHECK_DEADLOCK FALSE
INVARIANTS
  UnknownOnlyWhileLoading
  OneInstance
