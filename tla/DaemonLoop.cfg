SPECIFICATION Spec
CONSTANTS
  s1 = s1
  a = a
  b = b
  c = c
  Sources = {s1}
  Paths <- Tree
  Tracked <- Trackings
  Stale <- Stales
  Area <- InFolder
  MoveSrc <- Inner
  MoveDst <- Renamed
  MaxRetries = 1
  MaxRegensPerHour = 2
  MaxDepth = 2
  MaxEvents = 2
INVARIANTS
  TypeOK
  ChangesAreCarried
  OvershootsByOneBatch
PROPERTIES
  PolledAgainAndAgain
  ChangesSettle
CHECK_DEADLOCK FALSE
