SPECIFICATION Spec
CONSTANTS
  MaxVersions = 1
  MaxLayers = 2
  Jobs = {j1, j2}
  SharedImports = FALSE
  ReconcileAnytime = TRUE
SYMMETRY JobSymmetry
CHECK_DEADLOCK FALSE
INVARIANTS
  ReadyIsPublished
