SPECIFICATION FairSpec
CHECK_DEADLOCK FALSE
CONSTANTS
  Size = 20
  FrameMax = 20
  Narrow = 6
  Wide = 8
  BodyLengths = {2, 10, 11, 13, 22, 38}
  MaxSent = 10
  MaxReceived = 8
INVARIANTS TypeOK InStepWhileNarrow UnreadableForACause EndsForACause
PROPERTIES WholeIsAnswered
