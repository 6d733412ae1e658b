SPECIFICATION FairSpec
CONSTANTS
  Key = Key
  Modifier = Modifier
  Button = Button
  Operations = {"type", "click", "drag", "scroll", "move"}
  MaxRequests = 2
  MaxFaults = 1
  Batch = 3
CHECK_DEADLOCK FALSE
INVARIANT LedgerTrue
INVARIANT ReportHonest
PROPERTY DoubtEndsSession
