CONSTANTS
  routesV1 = routesV1
  routesV1beta1 = routesV1beta1
  virtualServersV1 = virtualServersV1
  gateway = gateway
  f5 = f5
  routes = routes
  virtualServers = virtualServers
  Preference <- Table
  ResourceOf <- Namings
  GroupOf <- Groupings
  Enabled = {gateway, f5}
  MaxChanges = 2
  MaxErrors = 1
SPECIFICATION Spec
INVARIANTS
  TypeOK
  OneInformerPerResource
  HealthOfRunning
  SnapshotFollows
PROPERTIES
  Converges
