CONSTANTS
  ingresses = ingresses
  pods = pods
  gateways = gateways
  Order <- TypedAndOptional
  Optional = {gateways}
  Topology <- ShownContents
  Debounced = TRUE
  MaxChanges = 2
  MaxErrors = 1
  MaxFailures = 0
SPECIFICATION Spec
PROPERTIES
  EventuallyFresh
CHECK_DEADLOCK FALSE
