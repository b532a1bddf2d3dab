SPECIFICATION VisitedSpec
CONSTANTS
  MaxQueue = 2
  MaxPipe = 1
INVARIANTS
  TypeOK
  QueueIsOfThisSession
  WriterIsOver
PROPERTIES
  OutboxSpec
  ServerListensAgain
  StopReturns
CHECK_DEADLOCK FALSE
