SPECIFICATION Spec
CONSTANTS
  r1 = r1
  r2 = r2
  Runs = {r1, r2}
  c1 = c1
  c2 = c2
  Columns = {c1, c2}
  Strategies <- OneCommitStrategies
  Partitioned = TRUE
  Overlap = TRUE
  MaxStarts = 2
  MaxFaults = 1
  MaxCrashes = 0
  MaxAppends = 1
CHECK_DEADLOCK FALSE
SYMMETRY Symmetry
INVARIANTS
  TypeOK
  BatchNotDoubled
PROPERTIES
  DocsPersisted
  PartitionedAsConfigured
  ImplementsAtomicTable
