\* Under the operator's fairness the ceremony leads out of every refusal.
CONSTANTS
  c1 = c1
  c2 = c2
  v1 = v1
  r1 = r1
  r2 = r2
  Challenges = {c1}
  Evidences = {v1}
  Randoms = {r1, r2}
  GenesisRandom = r1
  Endings = {"EXPIRED"}
  Restorable = {"ledger", "rows", "registry"}
  WritesBehind = FALSE
  MaxJournal = 2
  MaxVersion = 3
  MaxRestores = 1
SPECIFICATION FairSpec
PROPERTIES
  RefusalIsResolved
CHECK_DEADLOCK FALSE
