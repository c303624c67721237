SPECIFICATION FairSpec
CONSTANTS
  Widths = {1, 2}
  MaxLine = 4
  MaxMsgs = 2
  MaxScroll = 2
  Page = 2
  Height = 1
CONSTRAINT OneThingAtATime
INVARIANTS
  TypeOK
  PanicNeedsWideText
  TerminalRestored
  
PROPERTIES
  ShuttingIsFinal
  LoopIsLeft
  HeadlessExits
