SPECIFICATION Spec
CONSTANTS
  Writers = {w1, w2}
  Readers = {}
  None = None
  MaxVersion = 3
  MaxSweeps = 1
  MaxFaults = 1
  MaxProbe = 2
  Legacy = {0, 1}
  Timely = TRUE
  MaxWork = 4
SYMMETRY Symmetry
CONSTRAINT Explored
CHECK_DEADLOCK FALSE
INVARIANTS
  FreshLoad
  NeverGoesBack
