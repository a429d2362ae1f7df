SPECIFICATION Spec
CONSTANTS
  Requests = {r1, r2}
  DatasetVersions = {a, b}
  NoVersion = none
  NoDocument = undrafted
  Nobody = nobody
  MaxWrites = 3
SYMMETRY MapSymmetry
INVARIANTS
  VersionsAreNumbered
  ActivationsChain
  GrantsNothing
  ReferencesAreSound
