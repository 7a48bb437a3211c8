SPECIFICATION Spec
CONSTANTS
  Slots <- MCSlots
  None = None
  Replicas = 2
  MaxVersion = 2
  MaxInstances = 2
  MaxFaults = 2
INVARIANTS
  TypeOK
  SilentAfterLeaving
PROPERTIES
  ShownNeverGoesBack
  HandlersEnd
  PageEventuallyCurrent
  SignedOutIsRedirected
CHECK_DEADLOCK FALSE
