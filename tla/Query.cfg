\* Every query string, filter, pipeline, search and $expand of the catalogues;
\* an index under two searches, two builds, two writes and a restart.
SPECIFICATION QuerySpec
CONSTANTS
  URLs <- MCURLs
  Declared <- MCDeclared
  Navigations <- MCNavigations
  Filters <- MCFilters
  Rows <- MCRows
  Trimmed <- TrimmedOf
  Keys = {1, 2}
  Searches = {s1, s2}
  Contents = {"x", "y"}
  Wanted = "x"
  Absent = "-"
  InitialRows <- MCInitialRows
  Dialects = {"sqlite", "postgres"}
  MaxBuilds = 2
  MaxWrites = 2
  MaxRestarts = 1
  EntityKeys <- MCEntityKeys
  Tables <- MCTables
  Expands <- MCExpands
  Permits = {"all", "val"}
  MaxExpandDepth = 2
  BatchSize = 2
  MaxExpandWrites = 1
SYMMETRY Symmetric
INVARIANTS
  ReadAsWritten
  FilterMeansWhatItSays
  SnapshotAgreesWithSQL
  PipelineIsAnswered
  SearchMeansWhatItSays
  EachPageIsOneState
  PolicyReachesEveryLevel
  IndexFindsWhatMatches
CHECK_DEADLOCK FALSE
