\* Two competing authorizations, a failing storage call and a power loss.
CONSTANTS
  a1 = a1
  a2 = a2
  g = g
  AuthIds <- MCAuthIds
  Digests <- MCOneDigest
  GenesisDigest = g
  NoAuth = NoAuth
  Absent = Absent
  MaxVersion = 3
  Positions = {1, 2}
  MaxKills = 0
  MaxPowerLosses = 1
  MaxIoErrors = 1
SYMMETRY AuthSymmetry
SPECIFICATION MCSpec
INVARIANTS
  TypeOK
  ReportedSurvives
  NoFalseAlarm
  EvidenceBeforeEntry
PROPERTIES
  ImplementsLog
