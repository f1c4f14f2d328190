SPECIFICATION FairSpec
CONSTANTS
  Calls = {c1, c2}
  Expressions = {"happy", "angry"}
  FrameAges = {0, 1}
  FadeTime = 2
  TweakTime = 1
  Dwell = 2
  StaleAfter = 2
  AmbientAfter = 1
  PollGap = 2
INVARIANTS
  Inv
  RecoveringIsEarned
PROPERTIES
  AmbientRecovery
  EmoteFollows
