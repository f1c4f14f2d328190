SPECIFICATION FairSpec
CONSTANTS
  Requests = {r1, r2}
  Pids = {p1, p2}
  NoPid = NoPid
INVARIANTS
  Inv
PROPERTIES
  AbandonedOnlyWhenOvertaken
  OutputIsRead
  Answered
