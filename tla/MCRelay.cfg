SPECIFICATION FairSpec
CONSTANTS
  a1 = a1
  b1 = b1
  b2 = b2
  s1 = s1
  Sid = {s1}
  None = None
  DoneCap = 2
  Conn = {a1, b1, b2}
  sid <- MCsid
  role <- MCrole
  Size = {1, 3}
  MaxFrame = 2
  MaxBytes = 1
  MaxSent <- MCMaxSent
INVARIANTS
  TypeOK
  WaitingServed
  NothingLost
  WithinCap
PROPERTIES
  Refinement
  EveryConnCloses
  EveryPumpEnds
