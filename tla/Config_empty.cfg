SPECIFICATION Spec
CONSTANTS
  defaultLogger = defaultLogger
  station = station
  Texts = {defaultLogger, station}
  DefaultName = defaultLogger
  Names <- PlainNames
  Numbers = {1, 5}
  Remains = {14}
  Host = FALSE
  Faults = {}
  MaxBoots = 2
INVARIANTS
  BootReachesSuperloop
