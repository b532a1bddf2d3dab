SPECIFICATION FairSpec
CONSTANTS
  NumSlots = 2
  MaxFrame = 3
  MaxRing = 3
  MaxSession = 3
  CopyMayFail = TRUE
INVARIANTS
  TypeOK
  AnnouncedFrameIsReadable
  FrameOfOpenRing
  NoFeedbackLoop
  AvailableSlotIsFree
  EverySlotHasOneCarrier
PROPERTIES
  FeedSpec
  LatestFrameIsShown
CHECK_DEADLOCK FALSE
