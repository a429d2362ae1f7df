SPECIFICATION Spec
CONSTANTS
  Exports = {e1}
  NoExport = none
  MaxActive = 1
  Requests = 2
  Readers = {r1}
CHECK_DEADLOCK FALSE
INVARIANTS
  LinksLead
  ObjectsAreKept
  ActiveIsBounded
PROPERTIES
  EndedIsSettled
