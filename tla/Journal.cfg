SPECIFICATION FairSpec
CONSTANTS
  MaxSubmits = 3
  MaxOps = 2
  MaxBytes = 3
  Sizes = {1, 2}
  Modes = {TRUE, FALSE}
CHECK_DEADLOCK FALSE
INVARIANT NothingMislaid
INVARIANT CallsSound
PROPERTY KeepsLog
PROPERTY NobodyWaits
