SPECIFICATION Spec
CONSTANTS
  NumSlots = 2
  MaxFrame = 2
  MaxRing = 1
  MaxSession = 2
  CopyMayFail = FALSE
INVARIANTS
  RegeneratedRingForcesHandshake
CHECK_DEADLOCK FALSE
