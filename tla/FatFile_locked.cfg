SPECIFICATION Spec
CONSTANTS
  SectorSize = 3
  LineLength = 2
  Clusters = 2
  PerSector = 2
  MaxRecords = 3
  Faults = {"read", "write", "sync"}
INVARIANTS
  NoErrorNoLoss
