\* Bundles of other names than the one in force, and nothing else that fails.
CONSTANTS
  None = None
  g1 = g1
  g2 = g2
  g3 = g3
  Generations <- MCGenerations
  Names <- MCNames
  Config = "config.yaml"
  Targets = "static-targets.yaml"
  NamesOf <- MCNamesOf
  CachedLoads = TRUE
  MaxKills = 0
  MaxLosses = 0
  MaxFailures = 0
  MaxMisreads = 0
  plain = plain
  grpc = grpc
  sent = sent
  Collectors = {plain, grpc}
  Grpc = {grpc}
  Messages = {sent}
  NoMessage = NoMessage
  Configurations <- MCConfigurations
  CollectorFiles <- MCCollectorFiles
  TargetFiles <- MCTargetFiles
  Malformed = Malformed
  Missing = Missing
  Nothing = Nothing
  MaxWrites = 0
SPECIFICATION MCSpec
INVARIANTS
  PowerSafe
