\* Two readers keep reading while a write that invalidates and one that does not
\* commit, and refreshes fail; two scans meet values the plan does not take.
CONSTANTS
  r1 = r1
  r2 = r2
  w1 = w1
  b1 = b1
  Readers = {r1, r2}
  Writers = {w1}
  QuietWriters = {b1}
  TTL = 2
  DbMayFail = TRUE
  Columns = {"c", "d"}
  Scans = {r1, r2}
  Lists = {{"c", "d"}}
  Fragile = {"c"}
  Stored = {"ok", "odd"}
  MaxWrites = 1
SPECIFICATION FairReadPathSpec
INVARIANTS SnapshotsAreFresh CountIsExact ReadsLikeGorm
PROPERTIES ReadersCatchUp PoisonWearsOff
