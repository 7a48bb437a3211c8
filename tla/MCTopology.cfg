\* Every family; lists in every order.
SPECIFICATION Spec
CONSTANTS
  None = None
  Families = {"workloads", "competing", "attached", "exposures", "appliances"}
  Clusters <- MCClusters
INVARIANTS
  TypeOK
  ScopingLosesNothing
  NoDanglingEdges
  StableRebuild
  NoSilentConflict
  SplitReachesEveryRoute
  WorkingCanaryIsDrawn
  ReadyRouteHasBackend
  UsableNotInflated
  OnlyTraffic
  ReferencesExplained
CHECK_DEADLOCK FALSE
