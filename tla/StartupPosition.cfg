CONSTANTS
  Scenarios <- PlainScenario
  Variants <- RunVariants
  RetryLimit = 2
  OldTrades = 1
  SnapshotSize = 2
  Window = 2
  MaxTrades = 1
  MaxFaults = 0
  MaxDrops = 0
  MaxStarts = 1

SPECIFICATION Spec

INVARIANT PositionSeeded

CHECK_DEADLOCK FALSE
