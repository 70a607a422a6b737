SPECIFICATION FairSpec
CONSTANTS
  None = None
  s1 = s1 s2 = s2
  a1 = a1 a2 = a2
  Scripts = {s1, s2}
  Agents = {a1, a2}
  Owner <- TwoOwners
  MaxAgents = 1
  ScriptTokens = 1
  HostTokens = 2
  MaxTokens = 2
  Days = 1
  MaxFaults = 1
INVARIANTS CapHolds AtWorkIsCounted DaySpending
PROPERTIES ReservationsEnd
CHECK_DEADLOCK FALSE
