SPECIFICATION FairSpec
CONSTANTS
  None = None
  MaxCommands = 3
  QueueCapacity = 1
  BatchLimit = 2
  Mixes <- MixesAround
  MaxOwed = 1
  Claims = {TRUE}
  Remote = TRUE
INVARIANTS NoLostWake OneImageLease FinishedWhenGone
PROPERTIES StopEnds StopBounded QueuedIsTaken LivenessHeard
CHECK_DEADLOCK FALSE
