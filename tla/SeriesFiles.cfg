SPECIFICATION Spec
CONSTANTS
  None = None
  MaxGames <- TwoGames
  Setups = {s1, s2}
  Pools = {p1, p2}
  GameFrames = 2
  Marks = 64
  Ahead = 1
  Leavers = {}
  MayDrop = {0}
SYMMETRY Names
INVARIANTS TypeOK SetupAgreed NextFollowsFinished FilesTellOneSeries
PROPERTIES FinishedStays
CHECK_DEADLOCK FALSE
