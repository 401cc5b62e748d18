SPECIFICATION Spec
CONSTANTS
  Chunk = {u, w}
  Watched = {w}
  Content = {a, b}
  Frame = {1, 2, 3, 4}
  Slots = 3
  Block = 2
INVARIANTS PagesAccounted
PROPERTIES ImplementsSlotPool
CHECK_DEADLOCK FALSE
SYMMETRY Contents
