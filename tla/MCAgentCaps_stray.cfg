SPECIFICATION Spec
CONSTANTS
  None = None
  s1 = s1 s2 = s2
  a1 = a1 a2 = a2
  Scripts = {s1, s2}
  Agents = {a1, a2}
  Owner <- TwoOwners
  MaxAgents = 1
  ScriptTokens = 1
  HostTokens = 2
  MaxTokens = 0
  Days = 0
  MaxFaults = 1
INVARIANTS HostCap
CHECK_DEADLOCK FALSE
