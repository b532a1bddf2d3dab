SPECIFICATION Spec
CONSTANTS
  Keys = {65}
  Buttons = {1}
  Compositions = {0}
  MaxPending = 2
INVARIANTS
  TypeOK
  OnlyHeldIsPressed
  WindowAgreesWithPage
CHECK_DEADLOCK FALSE
