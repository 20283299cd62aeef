CONSTANTS
  a = a
  x1 = x1
  x2 = x2
  x3 = x3
  NoCloid = NoCloid
  Oids <- MCOids
  Cloids <- MCCloids
  ExtCloid <- MCExt
  Batches <- MCBatches
  Scenarios <- OneScenario
  Results = {}
  Updates = {}
  Fills = {}
  Infos = {}
  Listings = {}
  MaxBatch = 1
  Own = {a}
  NumOids = 1
  Sizes = {1}
  AmendSizes = {}
  AdoptExisting = FALSE
  PatientModify = TRUE
  InOrder = TRUE
  AmendErrors = {}
  MayReject = FALSE
  MayCancel = FALSE
  MaxForeign = 0
  MaxTimeouts = 0
  MaxInfoFails = 2
  MaxDrops = 1
  MaxRequests = 1
  MaxSessions = 1
  MaxStops = 0
  NotFoundProbes = 1
  MaxRetired = 1
  MaxTids = 4

SPECIFICATION FairFlowSpec

PROPERTIES
  AllSettled

CHECK_DEADLOCK FALSE
