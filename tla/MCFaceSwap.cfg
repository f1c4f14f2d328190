SPECIFICATION Spec
CONSTANTS
  Threads = {t1, t2}
  Workers = {w1, w2}
  Backends = {b1, b2}
  None = None
SYMMETRY Symmetry
INVARIANTS
  Inv
  NoRetryStorm
  HonestHealth
