SPECIFICATION Spec
CONSTANTS
  Manager = {m1, m2}
  Generation = {g1, g2}
  None = None
  Hook = Hook
  MaxCalls = 4
  m1 = m1
  m2 = m2
  g1 = g1
  g2 = g2
CHECK_DEADLOCK FALSE
SYMMETRY Symmetry
VIEW Unread
INVARIANT RecordTrue
PROPERTY KeepsOne
PROPERTY FailureKept
PROPERTY ReplacedIsFinished
