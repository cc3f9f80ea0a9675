SPECIFICATION Spec
CONSTANTS
  t1 = t1
  t2 = t2
  Threads = {t1, t2}
  Limits <- OneSlot
  MaxDepth = 2
  Kinds <- AllKinds
  NodeCount = 2
  Paced = TRUE
INVARIANTS
  CollectedWithinLimit
