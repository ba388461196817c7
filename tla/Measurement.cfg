SPECIFICATION FairSpec
CONSTANTS
  Day = 2
  Dates = 2
  MaxTime = 1
INVARIANTS
  TypeOK
  Fresh
  LostChipShows
  DateAsConfirmed
PROPERTIES
  ReadingEnds
