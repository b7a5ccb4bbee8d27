SPECIFICATION ServicesSpec
CONSTANTS
  Workers = {w1, w2}
  NoWorker = none
  RemindAfter = 1
  EscalateAfter = 2
  LastDay = 3
  MaxDay = 4
  MaxFailures = 2
  JobWorkers = {w1, w2}
  Nothing = Nothing
  JobTimeout = 1
  StaleAfter = 2
  MostTries = 2
  MaxDays = 0
  MaxTroubles = 1
  MaxChanges = 1
  Keys <- MCKeys
  NoKey = NoKey
  Grace = 1
  OverGrace = 1
  Events = {e1, e2}
  MaxAttempts = 2
  LastLicenceDay = 3
  MostEmployees = 2
  MaxMoves = 3
INVARIANTS
  NoticesAreSole
PROPERTIES
  PluginsKeepTheLicence
  EverythingIsDone
  NothingStaysUnderWay
CHECK_DEADLOCK FALSE
