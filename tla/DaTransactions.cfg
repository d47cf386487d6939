SPECIFICATION FairTransSpec
CONSTANTS
  g = g
  p = p
  Names = {g}
  Paths = {p}
  Objects <- MCObjects
  ItemKeys <- MCItemKeys
  Space <- MCSpace
  Refusals = TRUE
  LibraryStays = TRUE
  MaxSessions = 2
  Requests <- MCRequests
CHECK_DEADLOCK FALSE
INVARIANTS
  AdvisedIsAlive
  CompletionIsWhole
PROPERTIES
  EveryRequestEnds
