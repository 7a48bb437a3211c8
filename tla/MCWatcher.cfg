CONSTANTS
  ingresses = ingresses
  pods = pods
  gateways = gateways
  Order <- TypedAndOptional
  Optional = {gateways}
  Topology <- ShownContents
  Debounced = TRUE
  MaxChanges = 3
  MaxErrors = 1
  MaxFailures = 1
SPECIFICATION Spec
INVARIANTS
  TypeOK
  NoLostChange
  NoLostHealth
  NeverPartial
CHECK_DEADLOCK FALSE
