SPECIFICATION Spec
CONSTANTS
  Jobs = {j1}
  Workers = {w1, w2, w3}
  NoJob = NoJob
  RetryLimits = {0, 1, 2}
  Script <- MCScript
  Top = 4
  HandlerFaults = {"RetryableJobError", "Exception"}
  MaxWebCrashes = 1
  MaxWorkerCrashes = 2
  MaxTimeLimits = 1
  MaxPublishFaults = 1
  MaxRedeliveries = 2
SYMMETRY WorkerSymmetry
CHECK_DEADLOCK FALSE
INVARIANTS
  SingleExecutor
  RetryBudget
PROPERTIES
  TerminalFrozen
  CancelledOnlySettles
  ProgressMonotonic
  ImplementsContract
