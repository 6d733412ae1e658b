SPECIFICATION Spec
CONSTANTS
  Attempts = 2
  Queries = {"q1", "q2"}
  Faults = 2
  Families = {"manifest", "request", "windows"}
CHECK_DEADLOCK FALSE
INVARIANT DiskTrue
INVARIANT ManifestMeansWhole
INVARIANT WindowsTrue
PROPERTY FailureStands
