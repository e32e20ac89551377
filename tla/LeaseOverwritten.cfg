SPECIFICATION Spec
CONSTANTS
  daemon = daemon
  crashed = crashed
  c1 = c1
  c2 = c2
  a1 = a1
  a2 = a2
  Daemon = daemon
  Crashed = crashed
  Clients <- OneClient
  Owners <- OneClientOwners
  NoOwner = noOwner
  Areas <- TwoAreas
  NoArea = noArea
  Punctual = TRUE
  Commands <- AllCommands
  MaxCommands = 2
  MaxEvents = 1
PROPERTIES
  ReconcileSparesLeases
CHECK_DEADLOCK FALSE
