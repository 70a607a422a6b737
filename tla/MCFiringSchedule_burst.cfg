SPECIFICATION Spec
CONSTANTS
  None = None
  Intervals = {2}
  Calendars <- Bursts
  MissedWalk = 3
  MissedPasses = 4
  MaxTime = 12
  MaxSetBacks = 0
INVARIANTS LatestMissed
CHECK_DEADLOCK FALSE
