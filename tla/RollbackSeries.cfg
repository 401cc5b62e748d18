SPECIFICATION Spec
CONSTANTS
  Blank = Blank
  A = A
  InFlightA = 2
  InFlightB = 1
  MaxAcks = 1
  LastOfB = 1
  Pad <- MCPad
  NoPad <- Blank
  MaxHistory = 6
  PadRing = 8
  MaxLead = 7
  Span = 4
  MaxGame = 2
  Horizon = 2
  MaxDelay = 1
  SyncInterval = 2
  MaxShed = 0
  MaxFrame = 2
  EndFrom = 2
  MayLeave = TRUE
  Lossy = TRUE
  NewestOnly = FALSE
CONSTRAINT ShortGames
INVARIANTS PadAgreement AckSound NoFalseFault
PROPERTIES FirstCommitStands ImplementsInputLog
CHECK_DEADLOCK FALSE
