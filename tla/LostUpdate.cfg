\* Two conditional updates at read committed.
CONSTANTS
  r1 = r1
  r2 = r2
  RowRequests = {r1, r2}
  Props = {"name"}
  Immutable = {}
  EtagKind = "int"
  Isolations = {"readCommitted"}
  FirstTags = {1}
  Forms = {"match"}
  RowMayFail = FALSE
SPECIFICATION RowSpec
INVARIANT NoConcurrentOverwrite
CHECK_DEADLOCK FALSE
