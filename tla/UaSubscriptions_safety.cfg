SPECIFICATION Spec
CONSTANTS
  Names = {a, b}
  NoName = NoName
  MaxSubscriptions = 2
  MaxItems = 2
  Threads = {t1, t2}
  SlowStart = TRUE
  SlowStop = TRUE
  HandlersThrow = TRUE
  GrowAt = {2}
SYMMETRY MCSymmetry
CHECK_DEADLOCK FALSE
INVARIANTS
  MappedIsActive
PROPERTY
  LostOnlyInRehash
