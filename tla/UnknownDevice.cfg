SPECIFICATION Spec
CONSTANTS
  MaxDevices = 3
  Stale = 2
  SweepLimit = 1
  MaxBatches = 2
  MaxFailures = 0
  MaxRecords = 1
INVARIANT ValidBatchPersists
