SPECIFICATION FairSpec
CONSTANTS
  Keys = {65}
  Buttons = {2, 3, 32}
  Routes = {1}
  MaxBacklog = 2
INVARIANTS
  TypeOK
  NoOtherStuckControl
  ControlAgrees
  FocusIsReturned
PROPERTIES
  SilentAgentIsReleased
CHECK_DEADLOCK FALSE
