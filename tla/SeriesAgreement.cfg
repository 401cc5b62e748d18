SPECIFICATION Spec
CONSTANTS
  None = None
  MaxGames <- TwoGames
  Setups = {s1}
  Pools = {p1}
  GameFrames = 2
  Marks = 64
  Ahead = 1
  Leavers = {}
  MayDrop = {}
PROPERTIES AgreementStands
CHECK_DEADLOCK FALSE
