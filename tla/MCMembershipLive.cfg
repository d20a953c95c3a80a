CONSTANTS
  Members <- MCTwo
  Instances = {i1}
  NoInstance = none
  Capacities = {4, 8}
  Inputs <- MCOneInput
  Targets <- MCTargets
  TargetsOf <- MCTargetsOf
  IntervalOf <- MCIntervalOf
  Place <- MCPlace
  bundleOf <- MCbundleOf
  Pollers = {p}
  TTL = 2
  Settle = 1
  HeartbeatInterval = 1
  Intervals = {2}
  MaxInterval = 2
  MaxMembers = 1
SPECIFICATION FairSpec
INVARIANT
  ProposedCurrent
PROPERTIES
  HeldBeforeEffect
  DrainsEnd
  ListTakesEffect
