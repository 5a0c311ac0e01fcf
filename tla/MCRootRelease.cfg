SPECIFICATION Spec
CONSTANTS
  h1 = h1  h2 = h2  h3 = h3  h4 = h4  g1 = g1  g2 = g2  a = a  b = b  d1 = d1
  Tasks = {h1, g1, g2}
  Insts = {a, b}
  InstOf <- TwoInsts
  Kind <- TwoKinds
  HostTasks = {h1}
  Promising = {h1, g2}
  Links <- AtoB
  Fifo = TRUE
  None = None
  Loops = {d1}
  Root = Root
  MaxBackpressure = 0
  MaxDepth = 5
INVARIANT NoAssertFails
CHECK_DEADLOCK FALSE
