SPECIFICATION Spec
CONSTANTS
  Ordinary = {"o"}
  Stops = {"s"}
  Crowds = {{"o"}, {"s"}}
  Connections = 1
  Behind = TRUE
CHECK_DEADLOCK FALSE
INVARIANT LateFailureCarried
