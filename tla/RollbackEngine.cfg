SPECIFICATION Spec
CONSTANTS
  Pad = {Blank, A}
  NoPad = Blank
  KillPad = A
  Horizon = 2
  Delay = 1
  SyncFrame = 3
  AdvanceEvery = 4
  EndFrom = 3
  EarlyAt = {5}
  EarlyRollback = TRUE
  MaxBurst = 2
  MaxQueue = 2
  MaxFrame = 7
PROPERTIES RollbackEnds
INVARIANTS TypeOK RightPads ChecksumsReal LoadFindsState EndIsReal
CHECK_DEADLOCK FALSE
