SPECIFICATION Spec
CONSTANTS
  a = a  b = b  c = c
  Insts = {a, b, c}
  Creator = a
  NumberElem = TRUE
  Jspi = TRUE
  None = None
  MaxLen = 3
  MaxSent = 6
INVARIANTS TypeOK ParkedSide Conservation NoAssertFails DroppedEndTold
PROPERTY RendezvousChannel
CHECK_DEADLOCK FALSE
