SPECIFICATION WasiSpec
CONSTANTS
  Frames = {f1}
  PollSets = {{"in", "out"}, {"dial"}, {"listen"}, {"accept"}}
  HighWater = 2
  MaxChunk = 1
  MaxQueuedConnections = 1
  MaxInbound = 1
  None = None
  Listens = {1, 2}
  MaxQueue = 1
  Addrs = {a, b}
  Receivers = {r1, r2}
  MaxDatagrams = 1
  MaxPairs = 2
  Names = {n1, n2}
  Calls = {1, 2}
  MaxSize = 2
INVARIANTS WasiTypeOK NoneSleepsOn Released Settled PlatformAgrees
PROPERTIES NeverAfter ParkedReturns
CHECK_DEADLOCK FALSE
