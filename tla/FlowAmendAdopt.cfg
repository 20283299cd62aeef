CONSTANTS
  a = a
  x1 = x1
  x2 = x2
  x3 = x3
  NoCloid = NoCloid
  Oids <- MCOids
  Cloids <- MCCloids
  ExtCloid <- MCExt
  Batches <- MCBatches
  Scenarios <- AmendOrAdopt
  Results = {}
  Updates = {}
  Fills = {}
  Infos = {}
  Listings = {}
  MaxBatch = 1
  Own = {a}
  NumOids = 2
  Sizes = {1, 2}
  AmendSizes = {2}
  AdoptExisting = TRUE
  PatientModify = TRUE
  InOrder = TRUE
  AmendErrors = {"kept", "canceled"}
  MayReject = FALSE
  MayCancel = FALSE
  MaxForeign = 1
  MaxTimeouts = 0
  MaxInfoFails = 0
  MaxDrops = 0
  MaxRequests = 2
  MaxSessions = 1
  MaxStops = 1
  NotFoundProbes = 1
  MaxRetired = 1
  MaxTids = 4

SPECIFICATION FlowSpec

INVARIANTS
  Consistent

CHECK_DEADLOCK FALSE
