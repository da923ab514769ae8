\* A kill, a power loss and a failing call, under the fairness of the service.
CONSTANTS
  a1 = a1
  a2 = a2
  g = g
  AuthIds <- MCOneAuthId
  Digests <- MCOneDigest
  GenesisDigest = g
  NoAuth = NoAuth
  Absent = Absent
  MaxVersion = 2
  Positions = {2}
  MaxKills = 1
  MaxPowerLosses = 1
  MaxIoErrors = 1
SPECIFICATION FairSpec
PROPERTIES
  RecoversWithoutOwner
  CommittedIsPublished
