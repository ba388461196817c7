SPECIFICATION FairSpec
CONSTANTS
  Timeout = 2
  TickModulus = 5
  MaxRecords = 4
INVARIANTS
  TypeOK
  OneOutstanding
  ServerInOrder
PROPERTY
  PostResolves
