SPECIFICATION SchedulersSpec
CONSTANTS
  h1 = h1  h2 = h2  g1 = g1
  p1 = p1  p2 = p2  q1 = q1  q2 = q2
  m1 = m1  r1 = r1  r2 = r2
  a = a  b = b  d1 = d1
  Tasks <- MixedTasks
  Insts = {a, b}
  InstOf <- Inst
  Kind <- Lifts
  HostTasks = {m1}
  Promising = {m1, r2}
  Links <- AtoB
  Fifo = FALSE
  None = None
  Loops = {d1}
  Root = Root
  MaxBackpressure = 0
  MaxDepth = 5
INVARIANTS NoneAsserts PendingOnTheWay BookkeepingExact
PROPERTY DeadStayOut
CHECK_DEADLOCK FALSE
