CONSTANTS
  BatchSize = 2
  MaxBatches = 2
  MaxReadings = 4
  MaxFailures = 1
SPECIFICATION FairSpec
INVARIANTS
  TypeOK
  DrainedWhenNoMore
PROPERTIES
  ImplementsPolicy
  OverdueLeaves
