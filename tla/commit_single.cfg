SPECIFICATION FairSpec
CONSTANTS
  Writers = {w1}
  Batches = {b1, b2}
  None = None
  MaxVersion = 6
  MaxSeq = 6
  MaxLsn = 4
  MaxPending = 2
  MaxOpens = 3
  MaxFaults = 3
  MaxClaimers = 1
  MaxStalledRounds = 1
  MaxRepairPasses = 2
  PutFaults = {"landed", "lost"}
  PtrFaults = {"landed", "lost"}
CHECK_DEADLOCK FALSE
INVARIANTS
  PublishedBodyPresent
  NackStaysTrue
PROPERTIES
  ImplementsCommitLog
  OpenSucceeds
