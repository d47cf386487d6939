SPECIFICATION FairSpec
CONSTANTS
  Names = {a, b}
  NoName = NoName
  MaxSubscriptions = 2
  MaxItems = 1
  Threads = {t1, t2}
  SlowStart = TRUE
  SlowStop = TRUE
  HandlersThrow = TRUE
  GrowAt = {}
CHECK_DEADLOCK FALSE
PROPERTIES
  OneUnlessSlowStart
  ServedUnlessLate
  PendingIsPublished
  ThreadEndsWithSession
