SPECIFICATION FairSpec
CONSTANTS
  MaxPayload = 2
  Payloads <- SmallPayloads
  JsonBytes = {1, 2}
  NotUtf8 = {3}
  MaxMsgs = 2
  ForeignBytes = {0, 1, 3}
  MaxForeign = 8
CHECK_DEADLOCK FALSE
INVARIANTS
  TypeOK
  ReadFramesWhole
  FramesSurvive
PROPERTIES
  FlushedArrives
