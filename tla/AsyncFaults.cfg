\* A dispatched job and a directly started one, polled and cancelled by a
\* client while writes fail and the process crashes.
CONSTANTS
  j1 = j1
  j2 = j2
  c1 = c1
  JobIds = {j1, j2}
  RuntimeJobs = {j1}
  Clients = {c1}
  MaxQueueSize = 1
  TTL = 1
  DbMayFail = TRUE
  MaxCrashes = 1
  Changes = {}
  Pollers = {}
  Persistent = FALSE
  LogMayFail = FALSE
  MaxReloads = 0
SPECIFICATION JobsSpec
INVARIANTS SlotsMatchHolders RecordIsTruthful
PROPERTY ImplementsMonitor
