SPECIFICATION FairSpec
CONSTANTS
  Kinds = {"MMC", "SD1", "SDHC"}
  BlockSize = 2
  Sectors = 3
  MaxCount = 2
  Versions = {1}
INVARIANTS
  TypeOK
  Addressing
PROPERTIES
  MediumSpec
  RequestEnds
