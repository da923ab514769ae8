\* Two connections, a recovery beside them, kills, failures and a deletion.
CONSTANTS
  c1 = c1
  w1 = w1
  w2 = w2
  o1 = o1
  o2 = o2
  Challenges = {c1}
  Workers = {w1, w2}
  Operators = {o1, o2}
  Armed = {c1}
  None = None
  MaxCount = 1
  MaxFaults = 2
SPECIFICATION FairSpec
INVARIANTS
  TypeOK
  RowsAgree
PROPERTIES
  NoLateProof
  ImplementsPromise
  EvidenceIsLinked
  ClaimSettles
CHECK_DEADLOCK FALSE
