SPECIFICATION Spec
CONSTANTS
  Conns = {c1, c2}
  Nonces = {n1, n2}
  Hub = Hub
  NoConn = NoConn
  NoNonce = NoNonce
  Sends = {}
  BigSends = {}
  MaxFrames = 1
  SendCap = 1
  MsgCap = 1
  EventCap = 2
  BcastCap = 1
SYMMETRY AdmissionSymmetry
CONSTRAINT QuietRoom
INVARIANTS
  TypeOK
  NonceSingleUse
  OnlyAcceptedServed
  
  ViewAgrees
PROPERTIES
  AdmitsByInvite
