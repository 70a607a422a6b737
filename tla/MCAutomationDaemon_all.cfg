SPECIFICATION FairSpec
CONSTANTS
  None = None
  t1 = t1
  w1 = w1
  Scripts = {s1}
  Texts = {t1}
  Works = {w1, w2}
  Given <- OneForm
  Occurrences = {1, 2, 3}
  MaxRuns = 3
  MaxRequests = 1
  Budgets <- PausingAll
  FailuresToPause = 2
PROPERTIES AllPausedTimeIsOver
CHECK_DEADLOCK FALSE
