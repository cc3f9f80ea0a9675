SPECIFICATION FairSpec
CONSTANTS
  t1 = t1
  t2 = t2
  Threads = {t1, t2}
  Limits <- MCLimits
  MaxDepth = 2
  Kinds <- KindsWithoutPythonFrames
  NodeCount = 2
  Paced = TRUE
INVARIANTS
  TypeOK
  ComputesWithSlot
  CollectedWithinLimit
  SlotKeptOnlyForData
PROPERTIES
  ImplementsBoundedCompute
  RunFinishes
