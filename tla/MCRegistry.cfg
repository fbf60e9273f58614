SPECIFICATION Spec
CONSTANTS
  Key = {k1, k2, k3}
  Conn = {c1, c2}
  Slot = {s1, s2, s3}
  IP = {ip1}
  TTL = 2
  NoSlot = NoSlot
  Nobody = Nobody
SYMMETRY Symmetry
INVARIANTS
  TypeOK
  KeysBelong
PROPERTIES
  NoSilentTakeover
  Refinement
