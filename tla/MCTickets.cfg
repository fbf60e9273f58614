SPECIFICATION Spec
CONSTANTS
  asIssued = asIssued
  respelled = respelled
  Spelling = {asIssued, respelled}
  SID = {sid1}
  Role = {"agent"}
  Frac = 1
  MaxIssueTTL = 2
  TTLs <- MCTTLs
  RotateEvery = 3
  Lag = 1
  MaxTime = 8
  MaxIssued = 2
  MaxKey = 3
SYMMETRY Spellings
INVARIANTS
  TypeOK
  LiveTicketsVerify
  SpentAsSpelled
