SPECIFICATION FairSpec
CONSTANTS
  Kinds = {"windows", "focus", "title", "gone", "close"}
  Incarnations = 2
CHECK_DEADLOCK FALSE
INVARIANT SlotSound
INVARIANT AttributionTrue
PROPERTY EffectVerified
PROPERTY CloseProven
PROPERTY CleanedUp
