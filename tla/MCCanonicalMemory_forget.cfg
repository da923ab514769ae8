\* Three actions race for one identity; or two, and it is forgotten.
CONSTANTS
  a1 = a1
  a2 = a2
  a3 = a3
  p1 = p1
  p2 = p2
  Actions = {a1, a2, a3}
  Appliers = {p1, p2}
  Owners = {"L04", "L18_V2", "POLICY", "CONSENT", "ACTOR_AUTHORITY"}
  MayExpire = {a2}
  MaxFaults = 1
  None = None
SPECIFICATION MCSpec
INVARIANTS
  TypeOK
  ChainIsLinear
PROPERTIES
  AcceptedUnderAuthority
  ImplementsPromise
  ForgetCompletes
CHECK_DEADLOCK FALSE
