SPECIFICATION MaintSpec
CONSTANTS
  MaxObjects = 2
  MaxFaults = 1
  MaxIds = 12
  None = None
INVARIANTS
  MaintTypeOK
  LiveObjectsPresent
PROPERTIES
  RequestServed
  SweepNotStarved
