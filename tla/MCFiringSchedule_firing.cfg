SPECIFICATION FairSpec
CONSTANTS
  None = None
  Intervals = {2, 3}
  Calendars <- Even
  MissedWalk = 3
  MissedPasses = 4
  MaxTime = 12
  MaxSetBacks = 1
INVARIANTS LatestMissed
PROPERTIES FiresForward OccurrencesFired
CHECK_DEADLOCK FALSE
