CONSTANTS
  a = a
  b = b
  s = s
  t = t
  None = None
  Ordinary <- Both
  Gating <- Gated
  Controls <- Stops
  Lossy <- Stop
  Raising <- NoRequests
  MaxBudget = 1
  CleanupSeconds = 1
  SettleGrace = 1
  ShutdownBudget = 1
  MaxOrdinary = 2
  MaxWaiters = 1
  InWorker = TRUE
SPECIFICATION Spec
CONSTRAINT Two
INVARIANT OwnedOnce
INVARIANT JoinerSuccessNeedsOwner
PROPERTY DecisionsHold
VIEW Unread
