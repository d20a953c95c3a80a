\* Two requests, three logins and two reloads.
CHECK_DEADLOCK FALSE
CONSTANTS
  Pinger = Pinger
  a1 = a1
  a2 = a2
  a3 = a3
  b1 = b1
  b2 = b2
  Databases <- MCDatabases
  SQLScrapes <- MCScrapes
  MaxPerTarget = 2
  MaxIdlePer = 1
  MaxClosed = 1
  Requests <- MCScrapes
  MaxLogins = 3
  MaxFollows = 2
  Runs <- MCDatabases
  Scripts <- MCScrapes
  WorkerLimits = {1, 2}
  MaxIdle = 1
  MaxRetained = 2
SYMMETRY Symmetric
SPECIFICATION MCSpec
INVARIANT
  FailedWereMade
