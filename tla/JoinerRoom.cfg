SPECIFICATION FairSpec
CONSTANTS
  Sends = {1,2,3}
  BigSends = {3}
  MaxFrames = 2
  SendCap = 1
  EventCap = 1
CONSTRAINT LittleTraffic
INVARIANTS
  TypeOK
  EchoedOnce
  RoomClosedLast
PROPERTIES
  TaskEnds
  DeliversBothWays
