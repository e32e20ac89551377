SPECIFICATION RepairSpec
CONSTANTS
  daemon = daemon
  crashed = crashed
  c1 = c1
  a1 = a1
  a2 = a2
  a3 = a3
  Daemon = daemon
  Crashed = crashed
  Clients <- OneClient
  Owners <- OneClientOwners
  NoOwner = noOwner
  Areas <- ThreeAreas
  NoArea = noArea
  Punctual = TRUE
  Commands <- OnlyReconcile
  MaxCommands = 1
  MaxEvents = 0
INVARIANTS
  StartupRepairs
PROPERTIES
  RepairedPlacementIsStale
  ReconcileIsIdempotent
CHECK_DEADLOCK FALSE
