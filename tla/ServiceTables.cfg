\* Two dispatched jobs compete for one slot, without a crash and a failing
\* write.  Three changes are committed and recorded while a client reads, takes
\* its token and polls; inserts into the log fail and the process crashes.
CONSTANTS
  j1 = j1
  j2 = j2
  c1 = c1
  JobIds = {j1, j2}
  RuntimeJobs = {j1, j2}
  Clients = {c1}
  MaxQueueSize = 1
  TTL = 1
  DbMayFail = FALSE
  MaxCrashes = 0
  w1 = w1
  w2 = w2
  w3 = w3
  Changes = {w1, w2, w3}
  Pollers = {c1}
  Persistent = TRUE
  LogMayFail = TRUE
  MaxReloads = 1
SPECIFICATION FairTablesSpec
INVARIANTS HistoryIsSound FeedIsExact
PROPERTIES SlotsAreReturned JobsRunTheirCourse OwedIsDelivered
