SPECIFICATION FairSpec
CONSTANTS
  c1 = c1
  c2 = c2
  c3 = c3
  kA = kA
  kB = kB
  kR = kR
  ip1 = ip1
  ip2 = ip2
  None = None
  Key = {kA, kB, kR}
  IP = {ip1, ip2}
  aid <- MCaid
  rids <- MCrids
  addr <- MCaddr
  Conn = {c1, c2}
  Lookup = {}
  TTL = 2
  Grace = 1
  MaxAgentsPerIP = 0
INVARIANTS
  AgentStaysListed
PROPERTIES
  DeadAgentForgotten
  ListingRefined
