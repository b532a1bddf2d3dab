SPECIFICATION FairSpec
CONSTANTS
  MaxQueue = 2
  MaxPipe = 1
PROPERTIES
  CleanShutdown
CHECK_DEADLOCK FALSE
