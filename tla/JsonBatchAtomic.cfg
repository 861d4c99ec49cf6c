\* A group with a skipped request.
CONSTANTS
  RowRequests = {}
  Props = {}
  Immutable = {}
  EtagKind = "none"
  Isolations = {"snapshot"}
  FirstTags = {}
  Forms = {}
  RowMayFail = FALSE
  ContentIDs = {}
  NoID = NoID
  MaxBatchSize = 1
  MaxParts = 1
  Envelopes <- MCEnvelopes
  MaxRequests = 4
  Products = {}
  Me = "me"
  Categories = {}
  Clients = {}
  InitialProducts = {}
  InitialCategories = {}
  DbMayFail = TRUE
  LinkRequests = {}
SPECIFICATION WritesSpec
INVARIANT GroupIsAtomic
CHECK_DEADLOCK FALSE
