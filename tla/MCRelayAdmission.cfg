SPECIFICATION Spec
CONSTANTS
  a1 = a1
  b1 = b1
  b2 = b2
  s1 = s1
  Conn = {a1, b1, b2}
  Sid = {s1}
  None = None
  sid <- MCsid
  role <- MCrole
  Spelling = {a1, b1, b2}
  Spellings <- MCSpellings
  Frac = 1
  MaxIssueTTL = 1
  RotateEvery = 10
  Lag = 0
  MaxTime = 5
  PairWait = 5
  Delay = 1
SYMMETRY Clients
INVARIANTS
  WaitOutlastsTickets
  CopiedUntilCloseOrCap
  LetInOnce
