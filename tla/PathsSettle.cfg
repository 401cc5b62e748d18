SPECIFICATION FairSpec
CONSTANTS
  None = None
  a = a
  c = c
  Path = {a, c}
  Dialer <- DialerOf
  Open = {a, c}
  Fragile = {a}
  MaxPaths = 2
  Setups = {s1, s2}
  Deadlines = TRUE
  Leavers = {1}
INVARIANTS TypeOK OnePath ReadyTogether
PROPERTIES BothOrNeither
CHECK_DEADLOCK FALSE
