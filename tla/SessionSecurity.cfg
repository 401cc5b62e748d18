SPECIFICATION Spec
CONSTANTS
  Window = 3
  MaxSeq = 5
INVARIANTS TypeOK OnceOnly NoneLost ControlInOrder
CHECK_DEADLOCK FALSE
