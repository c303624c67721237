SPECIFICATION Spec
CONSTANTS
  Conns = {c1, c2}
  Nonces = {n1, n2}
  HubId = HubId
  NoConn = NoConn
  NoNonce = NoNonce
  MaxFrames = 1
  MaxTexts = 1
  MsgCap = 1
  BcastCap = 1
CONSTRAINT LittleTraffic
SYMMETRY HubSymmetry
INVARIANTS
  TypeOK
  
PROPERTIES
  AdmitsByInvite
