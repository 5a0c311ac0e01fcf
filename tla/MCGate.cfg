SPECIFICATION GateSpec
CONSTANTS
  h1 = h1  h2 = h2  h3 = h3  h4 = h4  g1 = g1  g2 = g2  a = a  b = b  d1 = d1
  Tasks = {h1, h2, h3, h4}
  Insts = {a}
  InstOf <- OneInst
  Kind <- GateKinds
  HostTasks = {h1, h2, h3, h4}
  Promising = {h1, h2, h3, h4}
  Links <- NoLinks
  Fifo = TRUE
  None = None
  Loops = {d1}
  Root = Root
  MaxBackpressure = 1
  MaxDepth = 3
INVARIANTS TypeOK ExclusiveSlot SlotInv
PROPERTIES NoOvertaking EveryoneServed
CHECK_DEADLOCK FALSE
