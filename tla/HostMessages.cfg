SPECIFICATION Spec
CONSTANTS
  Conns = {c1}
  Nonces = {n1}
  Hub = Hub
  NoConn = NoConn
  NoNonce = NoNonce
  Sends = {1, 2}
  BigSends = {}
  MaxFrames = 2
  SendCap = 1
  MsgCap = 2
  EventCap = 2
  BcastCap = 1
CONSTRAINT LittleTraffic

  
PROPERTIES
  DeliversToPeers
  DeliversFromPeers
