\* The following has three reloads, enough to remove a collector, bring it back
\* and change it, and the probes and the backoff two, of which two failures
\* make a target back off.  After the last, a collector that is gone has no
\* probes and no trips.
CHECK_DEADLOCK FALSE
CONSTANTS
  None = None
  c = c
  d1 = d1
  d2 = d2
  k1 = k1
  k2 = k2
  t1 = t1
  t2 = t2
  reload = reload
  Names <- MCNames
  Definitions <- MCDefinitions
  Readers <- MCKeys
  Reloader <- reload
  Callers <- MCKeys
  Trips <- MCTrips
  Collector <- c
  Turns <- MCTrips
  CacheKeys <- MCKeys
  Objects = {1, 2, 3, 4}
  BackoffCollector <- c
  After = 2
  Limit = 1
  MaxReloads = 3
SYMMETRY Symmetric
SPECIFICATION MCSpec
INVARIANTS
  RetiredLeavesNothing
  FollowsTheLatest
  TripsShared
  NothingOlder
  BackoffHeld
PROPERTY
  FollowingSpec
