SPECIFICATION FairSpec
CONSTANTS
  Builds = {"target", "host"}
  MaxLines = 3
INVARIANTS
  TypeOK
  TakenOnce
  HarmNeedsExposure
PROPERTIES
  LineHandled
