SPECIFICATION Spec
CONSTANTS
  MaxVersions = 2
  MaxLayers = 1
  Jobs = {j1, j2}
  SharedImports = TRUE
  ReconcileAnytime = FALSE
SYMMETRY JobSymmetry
CHECK_DEADLOCK FALSE
INVARIANTS
  ServedIsReady
