SPECIFICATION Spec
CONSTANTS
  a = a  b = b  c = c
  Insts = {a, b}
  Creator = a
  NumberElem = TRUE
  Jspi = TRUE
  None = None
  MaxLen = 2
  MaxSent = 4
INVARIANT LostEndTold
CHECK_DEADLOCK FALSE
