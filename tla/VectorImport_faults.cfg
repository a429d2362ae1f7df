SPECIFICATION Spec
CONSTANTS
  MaxVersions = 2
  MaxLayers = 2
  Jobs = {j1, j2}
  SharedImports = FALSE
  ReconcileAnytime = FALSE
SYMMETRY JobSymmetry
CHECK_DEADLOCK FALSE
INVARIANTS
  TypeOK
  ReadyIsPublished
  ServedIsReady
  NoLeftovers
  ImportingIsDriven
PROPERTIES
  ImplementsDataset
