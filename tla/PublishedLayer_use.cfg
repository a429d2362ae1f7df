SPECIFICATION Spec
CONSTANTS
  Null = null
  Empty = empty
  Word = word
  NoCursor = none
  SampleSize = 3
  TopValues = 2
  TopValuesMaxDistinct = 2
  Requests = {r1, r2}
  ClassCounts = {0, 4, 9}
  MaxRevision = 3
  MaxLimit = 2
  FirstFid = 0
  Values <- SmallValues
  Collation <- TextOrder
  Tables <- SmallTables
SYMMETRY StyleSymmetry
INVARIANTS
  ClassesAreTold
  LegendTellsTheColor
  PagesAreComplete
PROPERTIES
  StyleIsRevised
