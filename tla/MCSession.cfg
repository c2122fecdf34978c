SPECIFICATION Spec
CONSTANTS
  Accounts = {a1, a2}
  None = None
  Calls = {c1, c2}
  Free = Free
  MaxGen = 3
  MaxEvents = 2
INVARIANTS
  OneLoop
  KeyIsFresh
  DeadIsReal
  StatusSettles
  NobodyStuck
SYMMETRY Symmetry
CHECK_DEADLOCK FALSE
