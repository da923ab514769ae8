\* A kill after the pointer replacement, then a power loss.
CONSTANTS
  a1 = a1
  a2 = a2
  g = g
  AuthIds <- MCOneAuthId
  Digests <- MCOneDigest
  GenesisDigest = g
  NoAuth = NoAuth
  Absent = Absent
  MaxVersion = 3
  Positions = {2}
  MaxKills = 1
  MaxPowerLosses = 1
  MaxIoErrors = 0
SPECIFICATION Spec
INVARIANTS
  PointerAtMostOneBehind
