SPECIFICATION FairSpec
CONSTANTS
  Doc = {d1}
  Blank = blank
  Big = big
  Absent = absent
  None = None
  MaxGrain = 2
  MaxWrites = 2
  MaxErrors = 1
  Source = {s1}
  Limit = 2
  Period = 2
  Lag = 1
CHECK_DEADLOCK FALSE
INVARIANTS
  TypeOK
  UpToDate
PROPERTIES
  NoticeCatchesUp
  RateLimited
  StopsWhenAsked
