SPECIFICATION FairSpec
CONSTANTS
  MaxDevices = 3
  Stale = 1
  SweepLimit = 1
  MaxBatches = 2
  MaxFailures = 1
  MaxRecords = 2
INVARIANTS TypeOK TornOnlyByBreakOff
PROPERTIES SilentGoesOffline LatestStateCatchesUp FreshOfflineOnlyByOverlap
