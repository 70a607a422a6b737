SPECIFICATION Spec
CONSTANTS
  None = None
  t1 = t1
  w1 = w1
  Scripts = {s1}
  Texts = {t1}
  Works = {w1, w2}
  Given <- OneForm
  Occurrences = {1, 2, 3}
  MaxRuns = 3
  MaxRequests = 1
  Budgets <- Disabling
  FailuresToPause = 2
INVARIANTS DisabledUntilEnabled
CHECK_DEADLOCK FALSE
