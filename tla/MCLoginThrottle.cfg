SPECIFICATION Spec
CONSTANTS
  forwarded = forwarded
  proxy = proxy
  direct = direct
  first = first
  second = second
  None = None
  Overflow = Overflow
  Attempts <- MCAttempts
  Requests <- MCRequests
  Trusted <- MCTrusted
  Clients <- MCClients
  Burst = 2
  Refill = 2
  ProxyBurst = 3
  ProxyRefill = 1
  MaxThrottled = 1
  MaxTime = 2
INVARIANTS
  TypeOK
  FailuresBounded
  RetryAfterSuffices
  OnlyFailuresThrottle
PROPERTIES
  OnlyFailuresCharge
SYMMETRY MCSymmetry
CHECK_DEADLOCK FALSE
