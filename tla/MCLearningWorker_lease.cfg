\* Two runs at a time over five records: a batch of two, a ledger of three,
\* a lease of two ticks, and the fifth record invalid.
CONSTANTS
  w1 = w1
  w2 = w2
  Workers = {w1, w2}
  Invalid = {5}
  Limit = 2
  Capacity = 3
  Lease = 2
  Busy = 1
  MaxEvents = 5
  MaxFaults = 1
  None = None
SPECIFICATION FairSpec
INVARIANTS
  TypeOK
  OpenJobIsUsable
PROPERTIES
  LeaseIsRespected
  ImplementsLog
  Consolidated
CHECK_DEADLOCK FALSE
