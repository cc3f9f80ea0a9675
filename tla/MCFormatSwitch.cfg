SPECIFICATION Spec
CONSTANTS
  p1 = p1
  p2 = p2
  Processes = {p1, p2}
  Kinds = {"unity", "fabric"}
  MaxNodes = 4
  MaxFaults = 2
SYMMETRY Symmetry
CHECK_DEADLOCK FALSE
INVARIANTS
  TypeOK
  LeftoversAndRacesDontBlock
  CachesStayTrue
PROPERTIES
  SuccessMeansPublished
