SPECIFICATION FairSpec
CONSTANTS
  Jobs = {j1}
  Workers = {w1, w2}
  NoJob = NoJob
  RetryLimits = {1}
  Script <- MCScript
  Top = 4
  HandlerFaults = {}
  MaxWebCrashes = 0
  MaxWorkerCrashes = 1
  MaxTimeLimits = 0
  MaxPublishFaults = 0
  MaxRedeliveries = 0
CHECK_DEADLOCK FALSE
PROPERTIES
  UncancelledFinishes
