CONSTANTS
  a = a
  x1 = x1
  x2 = x2
  x3 = x3
  NoCloid = NoCloid
  Oids <- MCOids
  Cloids <- MCCloids
  ExtCloid <- MCExt
  Batches <- MCBatches
  Scenarios <- OneScenario
  Results = {}
  Updates = {}
  Fills = {}
  Infos = {}
  Listings = {}
  MaxBatch = 1
  Own = {a}
  NumOids = 2
  Sizes = {2}
  AmendSizes = {2}
  AdoptExisting = FALSE
  PatientModify = TRUE
  InOrder = TRUE
  AmendErrors = {}
  MayReject = FALSE
  MayCancel = FALSE
  MaxForeign = 0
  MaxTimeouts = 1
  MaxInfoFails = 0
  MaxDrops = 0
  MaxRequests = 2
  MaxSessions = 0
  MaxStops = 0
  NotFoundProbes = 1
  MaxRetired = 1
  MaxTids = 4

SPECIFICATION FlowSpec

INVARIANTS
  NoOrphan

CHECK_DEADLOCK FALSE
