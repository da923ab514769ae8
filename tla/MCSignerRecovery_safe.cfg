\* Two handlers and three authorizations of any kind, a fourth with one handler;
\* the second may expire. The owner finishes what it began.
CONSTANTS
  a1 = a1
  a2 = a2
  a3 = a3
  a4 = a4
  h1 = h1
  h2 = h2
  c = c
  u = u
  AuthIds = {a1, a2, a3, a4}
  Digests <- MCDigests
  GenesisDigest = "NAMES"
  NoAuth = NoAuth
  Handlers = {h1, h2}
  Challenges = {c}
  Uses = {u}
  MayExpire = {a2}
SPECIFICATION MCFairSpec
INVARIANTS
  TypeOK
  AdoptionFitsWitness
  RemovalAfterWitnessedEpoch
PROPERTIES
  AppendAtWitness
  ImplementsLog
  AdoptionCompletes
