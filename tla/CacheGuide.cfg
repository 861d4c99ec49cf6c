\* One reader, a write that invalidates the cache and one that does not, against
\* what the caching guide says of every write.
CONSTANTS
  r1 = r1
  w1 = w1
  b1 = b1
  Readers = {r1}
  Writers = {w1}
  QuietWriters = {b1}
  TTL = 2
  DbMayFail = FALSE
  Columns = {"c"}
  Scans = {r1}
  Lists = {{"c"}}
  Fragile = {}
  Stored = {"ok"}
  MaxWrites = 0
SPECIFICATION FairReadPathSpec
PROPERTY WritesAreSeen
