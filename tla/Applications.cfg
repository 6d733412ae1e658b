CONSTANTS
  Apps = 1
  Kids = {"k"}
  Calls = 2
  Lag = 1
  Mishaps = 1
SPECIFICATION Spec
CHECK_DEADLOCK FALSE
INVARIANT OwnershipTrue
PROPERTY RequestsTrue
PROPERTY SignalsInOrder
