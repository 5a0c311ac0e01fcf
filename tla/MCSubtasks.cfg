SPECIFICATION LiveSpec
CONSTANTS
  c1 = c1  c2 = c2  h1 = h1
  Calls = {c1, c2}
  Handles = {h1}
  Lent <- Shared
  Modes = {"plain", "jspi"}
  None = None
  MaxTurns = 1
INVARIANTS TypeOK LendsAndBorrows EventOwed
CHECK_DEADLOCK FALSE
PROPERTY StartDecided
