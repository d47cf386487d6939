SPECIFICATION FairSpec
CONSTANTS
  Names = {m, n}
  Failures = {"match", "create", "createInvalid", "activate", "activateBad", "namespace", "noNamespace", "browse", "addressSpace", "subscribe", "close"}
  MaxChannels = 4
CHECK_DEADLOCK FALSE
INVARIANTS
  ReadyIsConnected
  StartedIsKnown
PROPERTIES
  ThreadLeftByFailedStop
  CallReturns
