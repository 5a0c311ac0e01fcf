SPECIFICATION Spec
CONSTANTS
  c1 = c1  c2 = c2  h1 = h1
  Calls = {c1, c2}
  Handles = {h1}
  Lent <- Shared
  Modes = {"jspi"}
  None = None
  MaxTurns = 1
INVARIANT CancelDelivers
CHECK_DEADLOCK FALSE
