\* Three requests to one row, with an immutable property, at both isolation
\* levels; multipart bodies of up to five parts; JSON batches of up to four
\* requests in up to two groups; two clients of two categories and a product.
\* Every request ends.
CONSTANTS
  r1 = r1
  r2 = r2
  r3 = r3
  RowRequests = {r1, r2, r3}
  Props = {"name", "code"}
  Immutable = {"code"}
  EtagKind = "int"
  Isolations = {"snapshot", "readCommitted"}
  FirstTags = {1}
  Forms = {"none", "noneMatchAny", "match"}
  RowMayFail = TRUE
  ContentIDs = {i1, i2}
  NoID = NoID
  MaxBatchSize = 3
  MaxParts = 5
  Envelopes <- MCEnvelopes
  MaxRequests = 4
  Products = {"p1"}
  Me = "me"
  Categories = {"c1", "c2"}
  Clients = {x, y}
  InitialProducts = {"p1"}
  InitialCategories = {"c1"}
  DbMayFail = TRUE
  LinkRequests <- MCRequests
SPECIFICATION WritesSpec
SYMMETRY Symmetry
INVARIANTS ConditionalWritesAreSafe FeedTellsTheRow
INVARIANTS ChangesetIsAtomic CommittedIsRecorded ReferencesStayInside
INVARIANTS GroupsAreWhole OnlyWhatMayRunRuns
INVARIANTS OnlyNamedColumnsChange LinksWereChecked FeedTellsTheTables
PROPERTY WritesAreAtomic
CHECK_DEADLOCK FALSE
