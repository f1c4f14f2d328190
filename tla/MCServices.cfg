SPECIFICATION Spec
CONSTANTS
  FailureThreshold = 2
  OpenTimeout = 2
  Remotes = {"elevenlabs"}
  Looks = {l1, l2}
  Caps = {1, 7, 8}
  CapFloor = 1
  BudgetWindow = 2
  VendorMax = 4
  LipThreshold = 1
  LipTimeout = 1
  Callers = {k1, k2, k3, loop}
  EventLoop = loop
  Ttl = 2
  ProbeMax = 1
  Nobody = Nobody
  alice = alice
  bob = bob
  stage = stage
  Pipelines = {p1, p2}
  Images = {alice, bob, stage}
  Requests <- MCRequests
  NoFace = NoFace
  NoImage = NoImage
  FrameThreads = {k1, k2, k3}
  StampMax = 3
  Window = 1
  Senders = {s1, s2}
  Timeout = 5
  HealthTimeout = 2
  WorkMax = 2
  SwapMax = 4
  MaxLength = 7
  Unread = Unread
  None = None
SYMMETRY Symmetry
CHECK_DEADLOCK FALSE
INVARIANTS
  Inv
  LuxWhole
  WithinBudget
  AnswersFresh
  LoopWaitsLittle
  OwnFace
  SeenInOrder
  CountsAddUp
  OnTime
  FindsObject
