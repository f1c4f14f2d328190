SPECIFICATION Spec
CONSTANTS
  Threads = {t1}
  Workers = {}
  Backends = {b1, b2}
  None = None
INVARIANT OwnsTheBackend
