SPECIFICATION Spec
CONSTANTS
  Player = {1, 2}
  Horizon = 2
  Delay = 1
  MaxCopied = 6
  SyncInterval = 3
  MaxShed = 2
  MaxFrame = 5
  MaxGame = 2
  InFlight = 1
  Drops = {1}
INVARIANTS PadsOfThisGame NothingWantedIsGone NeitherWaitsForever
CHECK_DEADLOCK FALSE
