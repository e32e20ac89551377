SPECIFICATION Spec
CONSTANTS
  daemon = daemon
  crashed = crashed
  c1 = c1
  c2 = c2
  a1 = a1
  a2 = a2
  Daemon = daemon
  Crashed = crashed
  Clients <- TwoClients
  Owners <- TwoClientOwners
  NoOwner = noOwner
  Areas <- TwoAreas
  NoArea = noArea
  Punctual = FALSE
  Commands <- AllCommands
  MaxCommands = 2
  MaxEvents = 0
INVARIANTS
  CommitUnderLease
PROPERTIES
  NoResurrection
  SoftPathsRespectLease
SYMMETRY Symmetry
CHECK_DEADLOCK FALSE
