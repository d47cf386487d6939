SPECIFICATION Spec
CONSTANTS
  equals1 = equals1
  notEquals1 = notEquals1
  quality2 = quality2
  refused = refused
  p1 = p1
  p2 = p2
  on = on
  off = off
  NoPath = NoPath
  NoUpdate = NoUpdate
  Conditions <- MCFewConditions
  Paths <- MCOnePath
  Contents <- MCContents
  Kind <- MCKind
  ItemPath <- MCItemPath
  Expected <- MCExpected
  Timeout <- MCTimeout
  Updaters = {u1}
INVARIANT PassedMeansNeverSeen
