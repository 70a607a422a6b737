SPECIFICATION Spec
CONSTANTS
  None = None
  MaxCommands = 1
  QueueCapacity = 1
  BatchLimit = 2
  Mixes <- MixesOfInput
  MaxOwed = 1
  Claims = {TRUE}
  Remote = FALSE
INVARIANTS StopWakes
CHECK_DEADLOCK FALSE
