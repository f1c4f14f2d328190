SPECIFICATION FairSpec
CONSTANTS
  Requests = {c1, c2, c3}
  MaxRetries = 2
  FailureThreshold = 2
  OpenTimeout = 1
INVARIANTS
  Inv
PROPERTIES
  ImplementsSharedBreaker
  Answered
