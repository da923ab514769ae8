CONSTANTS
  x1 = x1
  x2 = x2
  k0 = k0
  k1 = k1
  k2 = k2
  Sessions = {x1, x2}
  InitialKey = k0
  Ordinals = {k1}
  MaxChain = 4
  MaxKills = 1
  NoKey = NoKey
SYMMETRY Symmetry
SPECIFICATION Spec
INVARIANTS
  TypeOK
  ReleaseBindsHead
  RecordsSurvive
  ExecutedCanBeReleased
PROPERTIES
  ChangeUnderHold
CHECK_DEADLOCK FALSE
