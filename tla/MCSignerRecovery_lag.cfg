\* A removal is journalled and its witness record is lost.
CONSTANTS
  a1 = a1
  a2 = a2
  a3 = a3
  a4 = a4
  h1 = h1
  h2 = h2
  c = c
  u = u
  AuthIds = {a1, a2, a3}
  Digests <- MCDigests
  GenesisDigest = "NAMES"
  NoAuth = NoAuth
  Handlers = {h1}
  Challenges = {c}
  Uses = {u}
  MayExpire = {}
SPECIFICATION Spec
INVARIANTS
  LagResolvedByAdvance
