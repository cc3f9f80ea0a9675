SPECIFICATION Spec
CONSTANTS
  k1 = k1
  k2 = k2
  v1 = v1
  v2 = v2
  None = None
  Open = Open
  Keys = {k1, k2}
  Values = {v1, v2}
  Configs <- DeltaInvalidate
  RestoringConfigs <- DeltaInvalidate
  MaxTime = 6
SYMMETRY Symmetry
PROPERTIES
  RevivedHasClosedRow
