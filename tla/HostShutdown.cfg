SPECIFICATION FairSpec
CONSTANTS
  Conns = {c1, c2}
  Nonces = {n1}
  Hub = Hub
  NoConn = NoConn
  NoNonce = NoNonce
  Sends = {1}
  BigSends = {}
  MaxFrames = 0
  SendCap = 1
  MsgCap = 1
  EventCap = 1
  BcastCap = 1
CONSTRAINT StreamUnread
PROPERTIES
  QuitEndsStream
  ReaderEndDeregisters
  
