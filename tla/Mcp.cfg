SPECIFICATION FairSpec
CONSTANTS
  Ids = {"a", "b"}
  Slots = 1
  MaxCalls = 2
  Outbound = 2
  Unread = 2
CHECK_DEADLOCK FALSE
INVARIANT CallsCounted
PROPERTY CancelledBeforeKilled
PROPERTY CallsEnd
PROPERTY NothingLeftRunning
