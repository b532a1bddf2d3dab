SPECIFICATION FairSpec
CONSTANTS
  Sizes = {2, 3}
  InitialSize = 3
  StoreLingers = FALSE
  MinView = 2
  Output = 3
  NumSlots = 1
  MaxChanges = 2
PROPERTIES
  PictureFits
