SPECIFICATION FairSpec
CONSTANTS
  r1 = r1
  Runs = {r1}
  c1 = c1
  Columns = {c1}
  Strategies <- AllStrategies
  Partitioned = FALSE
  Overlap = FALSE
  MaxStarts = 3
  MaxFaults = 2
  MaxCrashes = 1
  MaxAppends = 0
CHECK_DEADLOCK FALSE
INVARIANTS
  BatchNotDoubled
  SuccessMeansWritten
PROPERTIES
  ImplementsAtomicTable
  MetadataGetsThrough
