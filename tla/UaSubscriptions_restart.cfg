SPECIFICATION Spec
CONSTANTS
  Names = {a, b}
  NoName = NoName
  MaxSubscriptions = 2
  MaxItems = 1
  Threads = {t1, t2}
  SlowStart = FALSE
  SlowStop = TRUE
  HandlersThrow = FALSE
  GrowAt = {}
CHECK_DEADLOCK FALSE
INVARIANT
  ServedWhileActive
