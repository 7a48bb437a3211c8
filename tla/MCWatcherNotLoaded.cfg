CONSTANTS
  ingresses = ingresses
  pods = pods
  gateways = gateways
  Order <- TypedAndOptional
  Optional = {gateways}
  Topology <- ShownContents
  Debounced = TRUE
  MaxChanges = 1
  MaxErrors = 2
  MaxFailures = 0
SPECIFICATION Spec
INVARIANTS
  NotLoadedMeansNeverListed
CHECK_DEADLOCK FALSE
