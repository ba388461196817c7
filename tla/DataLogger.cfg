SPECIFICATION FairSpec
CONSTANTS
  Timeout = 1
  TickModulus = 9
  MaxRecords = 3
  Period = 5
  LoopTicks = 1
  CREATE_FILE_A_DAY = 1
  FileCreationPeriods = {1, 49}
INVARIANTS
  TypeOK
  LoggerFirst
  PostSettledBeforeNextRecord
PROPERTIES
  PipelineSpec
  PeriodNeverMissed
  EveryRecordResolved
