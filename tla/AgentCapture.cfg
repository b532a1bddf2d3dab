SPECIFICATION Spec
CONSTANTS
  keyboard1 = keyboard1
  mouse1 = mouse1
  Devices <- MCDevices
  Keyboards = {keyboard1}
  Group <- MCGroup
  Usb <- MCDevices
  Keys = {"F8", "F12"}
  F8 = "F8"
  BaseCode <- MCBaseCode
  Chord <- MCChord
  Buttons = {"middle"}
  Middle = "middle"
  MaxEvents = 2
  MaxBatch = 1
  MaxUnderWay = 1
INVARIANTS
  TypeOK
  NoKeyLeftPressed
  RouteFollowsGroups
  ShutdownReturnsControl
PROPERTIES
  StopIsDeliberate
CHECK_DEADLOCK FALSE
