SPECIFICATION FairSpec
CONSTANTS
  SectorSize = 3
  LineLength = 2
  Clusters = 3
  PerSector = 2
  MaxRecords = 5
  Faults = {"read", "write", "sync"}
INVARIANTS
  TypeOK
  KeptUnlessLocked
PROPERTIES
  AppendLogSpec
  HandlerEnds
