SPECIFICATION Spec
CONSTANTS
  Writers = {w1, w2}
  Batches = {b1, b2}
  None = None
  MaxVersion = 5
  MaxSeq = 4
  MaxLsn = 4
  MaxPending = 1
  MaxOpens = 3
  MaxFaults = 0
  MaxClaimers = 2
  MaxStalledRounds = 1
  MaxRepairPasses = 2
  PutFaults = {}
  PtrFaults = {}
SYMMETRY Symmetry
CHECK_DEADLOCK FALSE
INVARIANT PublishedBodyPresent
