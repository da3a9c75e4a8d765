SPECIFICATION FairSpec
CONSTANTS
  MaxSurface = 2
  MaxRetries = 2
  MaxEvents = 3
CHECK_DEADLOCK FALSE
INVARIANTS
  NothingLeaks
PROPERTIES
  NoStaleReport
  SurfacePropagates
  RetriesEnd
