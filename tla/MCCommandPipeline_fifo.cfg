SPECIFICATION FairSpec
CONSTANTS
  None = None
  MaxCommands = 3
  OwnerKinds <- NavigationKinds
  Valid = {TRUE}
  QueueCapacity = 2
  BatchLimit = 2
  MaxSurfaces = 0
  MaxUnread = 2
  Remote = FALSE
  Versions = {TRUE, FALSE}
  Exemptions = {TRUE, FALSE}
PROPERTIES WaitingRequestHoldsLater
CHECK_DEADLOCK FALSE
