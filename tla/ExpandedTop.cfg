\* The collections of an $expand as the client sees them, without writers.
SPECIFICATION QuerySpec
CONSTANTS
  URLs <- MCURLs
  Declared <- MCDeclared
  Navigations <- MCNavigations
  Filters <- MCFilters
  Rows <- MCRows
  Trimmed <- TrimmedOf
  Keys = {1, 2}
  Searches = {s1, s2}
  Contents = {"x", "y"}
  Wanted = "x"
  Absent = "-"
  InitialRows <- MCInitialRows
  Dialects = {"sqlite", "postgres"}
  MaxBuilds = 2
  MaxWrites = 2
  MaxRestarts = 1
  EntityKeys <- MCEntityKeys
  Tables <- MCTables
  Expands <- MCExpands
  Permits = {"all", "val"}
  MaxExpandDepth = 2
  BatchSize = 2
  MaxExpandWrites = 0
SYMMETRY Symmetric
INVARIANT ExpandedPagesAreCut
CHECK_DEADLOCK FALSE
