\* Kills and failures: enough to leave a swap and its restore cut short.  Three
\* writes: one for each file that a change can span.
CONSTANTS
  None = None
  g1 = g1
  g2 = g2
  g3 = g3
  Generations <- MCGenerations
  Names <- MCNames
  Config = "config.yaml"
  Targets = "static-targets.yaml"
  NamesOf <- MCNamesOf
  CachedLoads = FALSE
  MaxKills = 1
  MaxLosses = 1
  MaxFailures = 2
  MaxMisreads = 1
  plain = plain
  grpc = grpc
  sent = sent
  Collectors = {plain, grpc}
  Grpc = {grpc}
  Messages = {sent}
  NoMessage = NoMessage
  Configurations <- MCConfigurations
  CollectorFiles <- MCCollectorFiles
  TargetFiles <- MCTargetFiles
  Malformed = Malformed
  Missing = Missing
  Nothing = Nothing
  MaxWrites = 3
SPECIFICATION MCSpec
INVARIANTS
  KillSafe
  PowerSafeOfNames
  OneGeneration
  NoChangeSleptThrough
PROPERTY
  ValidGetsInForce
