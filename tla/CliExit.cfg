SPECIFICATION FairSpec
CONSTANTS
  Widths = {1}
  MaxLine = 1
  MaxMsgs = 2
  MaxScroll = 0
  Page = 1
  Height = 1
PROPERTY LeavingExits
