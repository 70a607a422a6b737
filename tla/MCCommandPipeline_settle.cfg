SPECIFICATION FairSpec
CONSTANTS
  None = None
  MaxCommands = 2
  OwnerKinds <- SettleKinds
  Valid = {TRUE, FALSE}
  QueueCapacity = 2
  BatchLimit = 2
  MaxSurfaces = 1
  MaxUnread = 2
  Remote = FALSE
  Versions = {TRUE, FALSE}
  Exemptions = {TRUE, FALSE}
PROPERTIES RequestsSettle
CHECK_DEADLOCK FALSE
