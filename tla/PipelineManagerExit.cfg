SPECIFICATION Spec
CONSTANTS
  Requests = {r1}
  Pids = {p1, p2}
  NoPid = NoPid
INVARIANT ExitTracked
