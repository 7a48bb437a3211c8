\* The family in which two canaries can share a Service.
SPECIFICATION Spec
CONSTANTS
  None = None
  Families = {"competing"}
  Clusters <- MCClusters
INVARIANTS
  OrderIndependent
CHECK_DEADLOCK FALSE
