SPECIFICATION Spec
CONSTANTS
  Writers = {w1, w2}
  Batches = {b1, b2}
  None = None
  MaxVersion = 5
  MaxSeq = 4
  MaxLsn = 4
  MaxPending = 1
  MaxOpens = 3
  MaxFaults = 1
  MaxClaimers = 1
  MaxStalledRounds = 1
  MaxRepairPasses = 2
  PutFaults = {"landed", "lost", "late"}
  PtrFaults = {"landed"}
SYMMETRY Symmetry
CHECK_DEADLOCK FALSE
INVARIANTS
  TypeOK
  CurrentRecoverable
  AckedDurable
  LineageExtends
PROPERTIES
  PublishedImmutable
  ImplementsCommitLog
