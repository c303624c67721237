SPECIFICATION Spec
CONSTANTS
  Sends = {1}
  BigSends = {}
  MaxFrames = 0
  SendCap = 1
  EventCap = 2
INVARIANT EchoMeansWritten
