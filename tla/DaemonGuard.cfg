SPECIFICATION Spec
CONSTANTS
  Pids = {p1, p2}
  asker = asker
  stopper = stopper
  Clients = {asker, stopper}
  Calls <- MCCalls
  Attached = brain
  Roots = {brain, other}
  Nobody = Nobody
  MaxEvents = 2
CHECK_DEADLOCK FALSE
INVARIANTS
  TypeOK
  OneDaemon
  SnapshotTellsOfDaemon
PROPERTIES
  StopsOnlyBackground
  DaemonComesUp
