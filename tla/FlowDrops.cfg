CONSTANTS
  a = a
  x1 = x1
  x2 = x2
  x3 = x3
  NoCloid = NoCloid
  Oids <- MCOids
  Cloids <- MCCloids
  ExtCloid <- MCExt
  Batches <- MCBatches
  Scenarios <- OneScenario
  Results = {}
  Updates = {}
  Fills = {}
  Infos = {}
  Listings = {}
  MaxBatch = 1
  Own = {a}
  NumOids = 1
  Sizes = {2}
  AmendSizes = {}
  AdoptExisting = FALSE
  PatientModify = TRUE
  InOrder = FALSE
  AmendErrors = {}
  MayReject = TRUE
  MayCancel = TRUE
  MaxForeign = 0
  MaxTimeouts = 1
  MaxInfoFails = 1
  MaxDrops = 1
  MaxRequests = 2
  MaxSessions = 1
  MaxStops = 0
  NotFoundProbes = 1
  MaxRetired = 1
  MaxTids = 4

SPECIFICATION FlowSpec

INVARIANTS
  NoOrphan
  NoPhantom
  FillsAgree
  PositionAgrees
  FlagsInFlight

CHECK_DEADLOCK FALSE
