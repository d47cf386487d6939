SPECIFICATION FairSpec
CONSTANTS
  Nodes = {r, m, n}
  Root = r
  MaxReferences = 2
  MaxBrowses = 2
CHECK_DEADLOCK FALSE
INVARIANTS
  KnownIsReachable
  FoundHasChildren
PROPERTY
  BrowseReturns
