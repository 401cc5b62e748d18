SPECIFICATION FairSpec
CONSTANTS
  None = None
  MaxGames <- TwoGames
  Setups = {s1}
  Pools = {p1}
  GameFrames = 2
  Marks = 64
  Ahead = 1
  Leavers = {1}
  MayDrop = {}
PROPERTIES SeriesEnds
CHECK_DEADLOCK FALSE
