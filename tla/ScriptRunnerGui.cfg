SPECIFICATION FairSpec
CONSTANTS
  Scripts = {dummy, s, t, u}
  Dummy = dummy
  Unreadable = {dummy}
  Uncompilable = {u}
  Fatal = {t}
  Results = {r1, a1}
  Async = {a1}
  MaxRuns = 2
  MaxClicks = 3
  MaxUpdates = 2
CHECK_DEADLOCK FALSE
INVARIANT
  LeavesInOrder
PROPERTIES
  StaleOnlyFromCreation
  ExportIsFinal
  EveryResultShown
  RunEndsOrThrows
