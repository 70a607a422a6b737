SPECIFICATION Spec
CONSTANTS
  None = None
  MaxCommands = 3
  OwnerKinds <- AllKinds
  Valid = {TRUE, FALSE}
  QueueCapacity = 2
  BatchLimit = 2
  MaxSurfaces = 0
  MaxUnread = 2
  Remote = TRUE
  Versions = {TRUE, FALSE}
  Exemptions = {TRUE, FALSE}
INVARIANTS RequestsAccounted AnswersEarned ExecutedOnce OnlyRefusedOvertaken FramesIntact
PROPERTIES KeepsOrder
CHECK_DEADLOCK FALSE
