\* A restored ledger that is written to and outgrows the witness is accepted.
CONSTANTS
  c1 = c1
  c2 = c2
  v1 = v1
  r1 = r1
  r2 = r2
  Challenges = {c1, c2}
  Evidences = {v1}
  Randoms = {r1, r2}
  GenesisRandom = r1
  Endings = {"EXPIRED"}
  Restorable = {"ledger", "rows"}
  WritesBehind = TRUE
  MaxJournal = 6
  MaxVersion = 2
  MaxRestores = 1
SPECIFICATION Spec
INVARIANTS
  RestoreWithinEpochIsDetected
CHECK_DEADLOCK FALSE
