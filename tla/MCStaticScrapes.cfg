\* A target and the slots of the file's concurrency over two reloads; two
\* slots of trips in all, and limits that a reload changes; three series with
\* two points waiting at a time.
CONSTANTS
  NoState = NoState
  Targets <- MCTargets
  Intervals = {3}
  Hash <- MCHash
  FirstWindow = 2
  CheckInterval = 1
  LateShare = 2
  Limits = {1, 2}
  MaxReloads = 2
  Overrun = 1
  Stall = 1
  a = a
  b = b
  s1 = s1
  s2 = s2
  s3 = s3
  s4 = s4
  p1 = p1
  Collectors <- MCCollectors
  Scrapes <- MCScrapes
  Probes <- MCProbes
  CollectorOf <- MCCollectorOf
  LimitsOf <- MCLimitsOf
  Ceiling = 2
  Series = {1, 2, 3}
  MaxPending = 2
  MaxRequests = 2
  MaxPoints = 3
SPECIFICATION MCSpec
INVARIANTS
  OneAtATime
  WaitsEnd
  SlotsServed
  PointsKept
PROPERTIES
  TurnsCome
  WaiterServed
