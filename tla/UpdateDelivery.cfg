SPECIFICATION FairSpec
CONSTANTS
  fast = fast
  slow = slow
  own = own
  shared = shared
  Groups <- MCGroups
  Items <- MCItems
  GroupItems <- MCGroupItems
  MaxVersion = 2
CHECK_DEADLOCK FALSE
INVARIANTS
  ValuesInOrder
  AtMostOneAfterStop
PROPERTIES
  ChannelSpec
  StopConfirmedIsFinal
  NotifiedIsHandled
