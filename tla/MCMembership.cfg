CONSTANTS
  Members <- MCMembers
  Instances = {i1}
  NoInstance = none
  Capacities = {4}
  Inputs <- MCInputs
  Targets <- MCTargets
  TargetsOf <- MCTargetsOf
  IntervalOf <- MCIntervalOf
  Place <- MCPlace
  bundleOf <- MCbundleOf
  Pollers = {}
  TTL = 2
  Settle = 1
  HeartbeatInterval = 1
  Intervals = {0}
  MaxInterval = 0
  MaxMembers = 3
SPECIFICATION Spec
INVARIANTS
  TypeOK
  BundlesCurrent
  DrainsApart
  RecordsHeld
  WakeArmed
PROPERTIES
  NoGap
