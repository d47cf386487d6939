SPECIFICATION Spec
CONSTANTS
  g = g
  p = p
  q = q
  Names = {g}
  Paths = {p, q}
  Objects <- MCObjects
  ItemKeys <- MCItemKeys
  Space <- MCSpace
  Refusals = TRUE
  LibraryStays = TRUE
  MaxSessions = 2
CHECK_DEADLOCK FALSE
INVARIANTS
  NodesAreServed
  AddedOncePerAsker
