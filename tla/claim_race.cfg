SPECIFICATION Spec
CONSTANTS
  Writers = {w1, w2, w3}
  Batches = {}
  None = None
  MaxVersion = 5
  MaxSeq = 4
  MaxLsn = 4
  MaxPending = 1
  MaxOpens = 3
  MaxFaults = 1
  MaxClaimers = 3
  MaxStalledRounds = 1
  MaxRepairPasses = 2
  PutFaults = {"landed", "lost", "late"}
  PtrFaults = {}
SYMMETRY Symmetry
CHECK_DEADLOCK FALSE
INVARIANTS
  OneSessionPerEpoch
  SessionMatchesStore
  PointerFamily
