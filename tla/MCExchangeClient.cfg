CONSTANTS
  a = a
  x1 = x1
  x2 = x2
  NoCloid = NoCloid
  Oids <- MCOids
  Cloids <- MCCloids
  ExtCloid <- MCExt
  Batches <- MCBatches
  Sizes <- MCSizes
  Results <- MCResults
  Updates <- MCUpdates
  Fills <- MCFills
  Infos <- MCInfos
  Listings <- MCListings
  AdoptExisting = TRUE
  NotFoundProbes = 1
  MaxRetired = 1
  MaxBatch = 1
  MaxTids = 2
  MaxRequests = 1
  MaxSessions = 1
  MaxStops = 1

SPECIFICATION Spec

INVARIANTS
  TypeOK
  IndexSound
  FillsAccounted
  ListenerInformed

PROPERTIES
  TerminalSticky
  FillSumGrows
  ImplementsLifecycle

CHECK_DEADLOCK FALSE
