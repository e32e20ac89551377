SPECIFICATION Spec
CONSTANTS
  Openers = {p1, p2}
  MaxOpens = 3
  MaxDeaths = 1
  FirstVersions <- MCFirstVersions
  NoVersion = NoVersion
  PromptInputs <- MCPromptInputs
  SummaryLengths <- MCSummaryLengths
  TargetChars = 10
  MaxChunks = 4
  Glue <- MCGlue
  Places <- MCPlaces
  PrefixOf <- MCPrefixOf
  Worlds <- MCWorlds
  MaxRounds = 3
  MaxHitches = 1
  Names <- MCNames
  Areas0 <- MCAreas0
  MaxPolls = 2
  MaxFaults = 1
  FailureThreshold = 3
  MaxRetries = 1
  MaxCalls = 5
  MaxCancels = 2
  AreaCount = 2
  Contents = {x, y}
  Unread = Unread
  MaxLoads = 3
  MaxChanges = 2
  MaxMisreads = 2
  Updaters = {u1}
  ChildPages = {k1}
  MaxUpdates = 3
  MaxPages = 2
  MaxVisits = 2
  MaxMishaps = 1
INVARIANTS
  HandedOutServes
  RefusedOnlyByRounding
  OnlyTheseAreLeftOut
  CommitIsAllOrNothing
  BreakerMeters
  CachesTellTheTruth
PROPERTIES
  MigratesInPlace
  FixedStaysFixed
  AskedIsHeard
\* Every routine comes to its end.
CHECK_DEADLOCK FALSE
