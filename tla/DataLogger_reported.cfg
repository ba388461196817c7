SPECIFICATION Spec
CONSTANTS
  Timeout = 1
  TickModulus = 8
  MaxRecords = 3
  Period = 4
  LoopTicks = 1
  CREATE_FILE_A_DAY = 1
  FileCreationPeriods = {49}
INVARIANTS
  ReportedSentIsDelivered
