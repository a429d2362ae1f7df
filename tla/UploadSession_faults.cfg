SPECIFICATION FairSpec
CONSTANTS
  Uploads = {u1}
  Requests = {r1, r2, r3}
  NoUpload = NoUpload
  MaxLost = 1
  MaxAbandoned = 2
CHECK_DEADLOCK FALSE
INVARIANTS
  SingleDriver
  CompletedVerified
  AbortedIsClean
  UploadingIsOpen
PROPERTIES
  SettledFrozen
  TransientSettles
