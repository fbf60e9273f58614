SPECIFICATION Spec
CONSTANTS
  c1 = c1
  c2 = c2
  c3 = c3
  kA = kA
  kB = kB
  kR = kR
  ip1 = ip1
  ip2 = ip2
  None = None
  Key = {kA, kB, kR}
  IP = {ip1, ip2}
  aid <- MCaid
  rids <- MCrids
  addr <- MCaddr
  Conn = {c1, c2, c3}
  Lookup = {}
  TTL = 1
  Grace = 1
  MaxAgentsPerIP = 1
INVARIANTS
  TypeOK
  EveryEntryServed
  WholeSlot
PROPERTIES
  NeverDisplaced
