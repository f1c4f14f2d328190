SPECIFICATION FairSpec
CONSTANTS
  Callers = {c1, c2, c3}
  FailureThreshold = 3
  OpenTimeout = 2
INVARIANTS
  IInv
PROPERTIES
  CoolOff
  TripIsEarned
  ImplementsGate
  Recovers
