SPECIFICATION RegSpec
CONSTANTS
  Namespaces = {n1, n2}
  Requests = {r1, r2}
  Kinds = {"http", "bolt", "compact", "read"}
  Cap = 1
  MaxSlots = 3
  MaxEvents = 1
  None = None
SYMMETRY RegSymmetry
CHECK_DEADLOCK FALSE
PROPERTIES
  SuccessorUnfenced
