SPECIFICATION Spec
CONSTANTS
  Codes = {c1}
  Attempts = {a1, a2}
  Skews <- SmallSkews
  MaxTime = 3
  Modulus = 16
  SkewTol = 2
  Ttl = 2
INVARIANTS
  TypeOK
  OneJoinPerInvite
  JoinedWasAccepted
  DecodeAgrees
