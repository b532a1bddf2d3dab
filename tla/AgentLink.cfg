SPECIFICATION FairSpec
CONSTANTS
  MaxQueue = 2
  MaxCalls = 3
  MaxLosses = 2
  MaxSequence = 2
INVARIANTS
  TypeOK
  RouteAgrees
PROPERTIES
  ReleaseReaches
CHECK_DEADLOCK FALSE
