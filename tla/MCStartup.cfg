CONSTANTS
  Scenarios <- RunScenarios
  Variants <- RunVariants
  RetryLimit = 2
  OldTrades = 1
  SnapshotSize = 2
  Window = 2
  MaxTrades = 1
  MaxFaults = 1
  MaxDrops = 1
  MaxStarts = 1

SPECIFICATION FairSpec

INVARIANTS
  SentOnceInOrder
  
  ReadyIsEarned
  

PROPERTIES
  RequestsAnswered
  

CHECK_DEADLOCK FALSE
