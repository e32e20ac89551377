SPECIFICATION Spec
CONSTANTS
  d = d
  e = e
  v1 = v1
  v2 = v2
  n1 = n1
  n2 = n2
  Sessions = {d, e}
  Nobody = Nobody
  Kinds <- KindsOf
  First <- FirstArea
  MaxEvents = 2
  Contents = {v1, v2}
  Names = {n1, n2}
  Nothing = Nothing
INVARIANTS
  TypeOK
  OneWorker
  SidecarTellsOfSummary
  NothingStaysTaken
PROPERTIES
  AreaSettles
CHECK_DEADLOCK FALSE
