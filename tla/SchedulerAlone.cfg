CONSTANTS
  a = a
  b = b
  s = s
  t = t
  None = None
  Ordinary <- Gated
  Gating <- Gated
  Controls <- NoRequests
  Lossy <- Gated
  Raising <- Gated
  MaxBudget = 2
  CleanupSeconds = 1
  SettleGrace = 1
  ShutdownBudget = 1
  MaxOrdinary = 1
  MaxWaiters = 1
  InWorker = TRUE
SPECIFICATION FairSpec
INVARIANT TypeOK
INVARIANT EffectsAfterRecords
INVARIANT SuccessIsDurable
INVARIANT NotStartedMeansNoEffect
PROPERTY EverythingEnds
