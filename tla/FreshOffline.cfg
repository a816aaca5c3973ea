SPECIFICATION Spec
CONSTANTS
  MaxDevices = 1
  Stale = 2
  SweepLimit = 1
  MaxBatches = 2
  MaxFailures = 0
  MaxRecords = 1
PROPERTY OnlyStaleGoOffline
