SPECIFICATION Spec
CONSTANTS
  b1 = b1
  Req = {r1, r2}
  Addr = {a1}
  block <- MCblock
  Ladder <- MCLadder
  SoftLadder <- MCSoftLadder
  Decay = 2
  MaxKeys = 1
  MaxActive = 2
  AgentLimit = 1
  LookupLimit = 1
  Period = 1
SYMMETRY Requests
INVARIANTS
  TypeOK
  StrikesAreEarned
  LongBansAreEarned
