SPECIFICATION FairSpec
CONSTANTS
  Blank = Blank
  A = A
  InFlightA = 2
  InFlightB = 1
  MaxAcks = 1
  LastOfB = 2
  Pad <- MCOnePad
  NoPad <- Blank
  MaxHistory = 6
  PadRing = 8
  MaxLead = 7
  Span = 5
  MaxGame = 1
  Horizon = 2
  MaxDelay = 1
  SyncInterval = 2
  MaxShed = 1
  MaxFrame = 3
  EndFrom = 9
  MayLeave = FALSE
  Lossy = TRUE
  NewestOnly = TRUE
PROPERTIES NoMutualStall
CHECK_DEADLOCK FALSE
