SPECIFICATION FairSpec
CONSTANTS
  daemon = daemon
  crashed = crashed
  c1 = c1
  c2 = c2
  a1 = a1
  a2 = a2
  Daemon = daemon
  Crashed = crashed
  Clients <- OneClient
  Owners <- OneClientOwners
  NoOwner = noOwner
  Areas <- TwoAreas
  NoArea = noArea
  Punctual = FALSE
  Commands <- AllCommands
  MaxCommands = 1
  MaxEvents = 1
PROPERTIES
  OperationsEnd
  OwedContentArrives
CHECK_DEADLOCK FALSE
