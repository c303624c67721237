SPECIFICATION FairSpec
CONSTANTS
  Handles = {h1, h2}
  First = h1
  NoHandle = NoHandle
  h1 = h1
  h2 = h2
  MaxProgress = 2
  BootCap = 1
  EventCap = 2
INVARIANTS
  TypeOK
  NoPrematureShutdown
PROPERTIES
  ShutdownEndsTask
  DroppedTearsDownTor
  HostQuitTearsDownTor
