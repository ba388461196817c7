SPECIFICATION Spec
CONSTANTS
  Kinds = {"SD2"}
  BlockSize = 2
  Sectors = 3
  MaxCount = 2
  Versions = {1}
INVARIANTS
  Addressing
