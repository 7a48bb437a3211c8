CONSTANTS
  ingresses = ingresses
  pods = pods
  gateways = gateways
  Order <- TypedAndOptional
  Optional = {gateways}
  Topology <- ShownContents
  Debounced = FALSE
  MaxChanges = 1
  MaxErrors = 1
  MaxFailures = 1
SPECIFICATION TickingSpec
PROPERTIES
  EventuallyExact
  CancelStops
CHECK_DEADLOCK FALSE
