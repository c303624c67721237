SPECIFICATION Spec
CONSTANTS
  Conns = {c1}
  Nonces = {n1}
  Hub = Hub
  NoConn = NoConn
  NoNonce = NoNonce
  Sends = {}
  BigSends = {}
  MaxFrames = 1
  SendCap = 1
  MsgCap = 1
  EventCap = 2
  BcastCap = 1
  c1 = c1
  n1 = n1
INVARIANT PeerMessagesRelayed
