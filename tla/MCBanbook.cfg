SPECIFICATION Spec
CONSTANTS
  Key = {k1, k2, k3}
  Ladder <- MCLadder
  SoftLadder <- MCSoftLadder
  Decay = 3
  MaxKeys = 2
  Lag = 1
  MaxActive = 4
SYMMETRY Keys
INVARIANTS
  TypeOK
  GaugeCovers
  SoftBansCapped
PROPERTIES
  BansHeld
