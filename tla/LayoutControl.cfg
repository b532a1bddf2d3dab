SPECIFICATION FairSpec
CONSTANTS
  MaxChanges = 3
  MaxBreaks = 1
  MaxWrites = 2
  Refused = {2}
INVARIANTS
  TypeOK
  ResetFindsItsSession
PROPERTIES
  NeverBackwards
  DisplayFollowsPage
CHECK_DEADLOCK FALSE
