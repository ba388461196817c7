SPECIFICATION Spec
CONSTANTS
  defaultLogger = defaultLogger
  station = station
  Texts = {defaultLogger, station}
  DefaultName = defaultLogger
  Names <- PlainNames
  Numbers = {0, 256}
  Remains = {14}
  Host = FALSE
  Faults = {"mount", "read", "write"}
  MaxBoots = 3
INVARIANTS
  TypeOK
  InfoShowsSaved
PROPERTIES
  SavedSurvivesReboot
  
  EditsNotInUse
  DurableSpec
