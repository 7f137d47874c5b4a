SPECIFICATION Spec
CONSTANTS
  Keys = {k1}
  Passes = {p1, p2}
  Base = 2
  Ratio = 2
  MaxWrites = 3
  MaxDdl = 1
  MaxFaults = 1
  MaxSsts = 14
  Origins = {"fresh", "deep", "legacy"}
  None = None
SYMMETRY LsmSymmetry
CHECK_DEADLOCK FALSE
INVARIANTS
  LsmTypeOK
  ReadsTruth
  StoreTruth
  LsnsAboveRows
PROPERTIES
  AddsCurrentCatalog
