CONSTANTS
  Runs = {f1, f2}
  Posts = {p1}
  BatchSize = 2
  FlushInterval = 2
  MaxBackoff = 5
  MaxRecords = 4
  MaxFailures = 2
  Device <- MCDevice
  Minute <- MCMinute
SPECIFICATION PathFairSpec
INVARIANTS
  TypeOK
  NewestUnlessLate
  HistoryKeepsFirst
  SingleFlight
  FifoOrder
  NoRecordDropped
  LogNeverAhead
  NoStranding
  BackoffMatchesFailures
PROPERTIES
  ImplementsFeed
  ReadingBecomesVisible
  EveryRecordDelivered
