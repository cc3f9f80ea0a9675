SPECIFICATION Spec
CONSTANTS
  t1 = t1
  t2 = t2
  t3 = t3
  Threads = {t1, t2, t3}
  Limits <- MCLimits
  MaxDepth = 3
SYMMETRY Symmetry
INVARIANTS
  TypeOK
  SlotsConserved
  NoHoldAndWait
  CleanWhenIdle
PROPERTIES
  InnermostBlockDecides
  ImplementsBoundedCompute
