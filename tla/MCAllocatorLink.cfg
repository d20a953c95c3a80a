\* Three processes in turn and two heartbeats of each on their way; four
\* changes of the bundle, back and forth, one of three generations refused; two
\* instances, each of which may or may not reach its own address, one check
\* lost, which is one too many, and one that stops and may start again; every
\* set of at most four units of weight 2 or 5 over every list of at most
\* three members of capacity 1 or 3, at three balance factors: the fair share
\* itself, a little above it, and room for everything everywhere.  A placement
\* ends.
CHECK_DEADLOCK FALSE
CONSTANTS
  NoRecord = NoRecord
  MaxProcesses = 3
  MaxInFlight = 2
  RecordTTL = 1
  NoBundle = NoBundle
  g1 = g1
  g2 = g2
  g3 = g3
  Generations <- MCGenerations
  Refused <- MCRefused
  MaxChanges = 4
  MaxFailures = 1
  Nobody = Nobody
  Instances <- MCInstances
  Ids <- MCIds
  FailureThreshold = 1
  MaxLost = 1
  MaxStops = 1
  Keys <- MCKeys
  Names <- MCNames
  Score <- MCScore
  unitOrder <- MCunitOrder
  rank <- MCrank
  HashBits = 5
  LogBits = 2
  Milli = 4
  Weights = {2, 5}
  Caps = {1, 3}
  Factors = {4, 5, 12}
SPECIFICATION MCSpec
INVARIANTS
  NoChangeMissed
  RefusalKept
  PeersInOrder
  PlacementHolds
  OnlyItsOwnMove
PROPERTIES
  DownStaysDown
  HeartbeatsHeal
  BundlesDelivered
  PeersSettle
