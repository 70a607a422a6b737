SPECIFICATION FairSpec
CONSTANTS
  b1 = b1
  b2 = b2
  k1 = k1
  k2 = k2
  None = None
  EmptyBoot = EmptyBoot
  Boots = {b1}
  Welcomes <- FullWelcome
  Revs <- TwoRevs
  SurfaceRevs <- ThreeRevs
  Keys = {k1, k2}
  Size <- PairSizes
  MaxImages = 1
  MaxBytes = 2
  EventCapacity = 2
INVARIANTS GapClosedByNextEvent
PROPERTIES EmittedIsSeen
CHECK_DEADLOCK FALSE
