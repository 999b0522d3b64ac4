SPECIFICATION FairSpec
CONSTANTS
  s1 = s1
  s2 = s2
  Streams = {s1, s2}
  Window = 1
  Setups <- MCSetups
INVARIANTS
  StreamRight
PROPERTIES
  NoneLeftOut
  HandlersEnd
  StreamLives
CHECK_DEADLOCK FALSE
