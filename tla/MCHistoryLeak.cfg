SPECIFICATION UserResetSpec
CONSTANTS
  Accounts = {a1, a2}
  None = None
  Calls = {c1, c2}
  Free = Free
  MaxGen = 2
  MaxEvents = 3
INVARIANT
  NoStaleState
SYMMETRY Symmetry
CHECK_DEADLOCK FALSE
