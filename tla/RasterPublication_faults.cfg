SPECIFICATION Spec
CONSTANTS
  Jobs = {j1, j2}
  NoJob = none
  MaxRevision = 3
SYMMETRY JobSymmetry
CHECK_DEADLOCK FALSE
INVARIANTS
  ServedExists
  NoLeftovers
  RequestsDoNotPile
  ShownIsDriven
PROPERTIES
  RevisionGrows
