\* Tables of up to three rows, single and composite keys and keys beyond the
\* exact range; pages of one and two rows; one write during the walk.
CONSTANTS
  KeySets <- MCKeySets
  Matching <- MCMatching
  Requests <- MCRequests
  Values = {0, 1, 2}
  Exact = 4
  MaxWrites = 1
SPECIFICATION FairSpec
INVARIANTS WalkIsExact
PROPERTIES WalkEnds
\* The client stops when there is no next link.
CHECK_DEADLOCK FALSE
