SPECIFICATION Spec
CONSTANTS
  Stores <- AllStores
  Kinds <- AllKinds
  Formats <- AllFormats
  MaxNodes = 4
  MaxMishaps = 2
CHECK_DEADLOCK FALSE
INVARIANTS
  LeftoversDontBlock
  SuccessKeepsHistory
