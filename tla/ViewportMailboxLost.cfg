SPECIFICATION MailboxFairSpec
CONSTANTS
  Sizes = {2, 3}
  InitialSize = 2
  StoreLingers = TRUE
PROPERTIES
  BrowserResizesToMatch
