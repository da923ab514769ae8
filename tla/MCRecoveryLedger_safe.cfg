\* The ledger or the witness is restored, and a ledger that lost history is not
\* written to before the ceremony.
CONSTANTS
  c1 = c1
  c2 = c2
  v1 = v1
  r1 = r1
  r2 = r2
  Challenges = {c1}
  Evidences = {v1}
  Randoms = {r1, r2}
  GenesisRandom = r1
  Endings = {"EXPIRED"}
  Restorable = {"ledger", "witness"}
  WritesBehind = FALSE
  MaxJournal = 6
  MaxVersion = 3
  MaxRestores = 1
SPECIFICATION Spec
INVARIANTS
  TypeOK
  RestoreWithinEpochIsDetected
PROPERTIES
  AuthorityInWitnessedEpoch
  RecoveryOnlyDestroys
  NothingAcknowledgedTwice
CHECK_DEADLOCK FALSE
