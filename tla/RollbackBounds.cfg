SPECIFICATION Spec
CONSTANTS
  Blank = Blank
  A = A
  InFlightA = 2
  InFlightB = 1
  MaxAcks = 1
  LastOfB = 2
  Pad <- MCOnePad
  NoPad <- Blank
  MaxHistory = 6
  PadRing = 8
  MaxLead = 7
  Span = 8
  MaxGame = 1
  Horizon = 2
  MaxDelay = 1
  SyncInterval = 3
  MaxShed = 0
  MaxFrame = 6
  EndFrom = 9
  MayLeave = FALSE
  Lossy = TRUE
  NewestOnly = FALSE
CONSTRAINT SmallNetwork
INVARIANTS TypeOK NoGap NeverTooFarAhead WindowServesNext WithinRollback TranscriptComplete
CHECK_DEADLOCK FALSE
