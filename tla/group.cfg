SPECIFICATION GrpFairSpec
CONSTANTS
  Writes = {"w1", "w2"}
  BoltWrites = {"w2"}
  ProbedWrites = {"w2"}
  Policies = {"steal", "yield"}
  MaxTrouble = 1
  MaxTx = 1
  MaxLsns = 2
CHECK_DEADLOCK FALSE
INVARIANTS
  AckedVisible
  LostNeverApplied
  BrokenIsDegraded
PROPERTIES
  YieldNeverFences
  WaiterAnswered
  SoundBecomesHealthy
