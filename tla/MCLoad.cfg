SPECIFICATION LoadSpec
CONSTANTS
  None = None
  Null = Null
  Trapped = Trapped
  Broken = Broken
  Abstract = Abstract
  Provider = Provider
  Client = Client
  Other = Other
  Host = Host
  RepNumbers = {1}
  CallNumbers = {1, 2, 3}
  Wrappers = {1, 2}
  MaxSlots = 2
  FromHost = {1, 2}
  Objects = {a, b}
  Lowerings = {1, 2}
  MaxReps = 3
  Callers = {c1, c2}
  Adapters = {"a"}
  MaxFailures = 1
  Runs = {1, 2, 3}
  Buffers = {b1, b2}
  Foreign = {b2}
  Kinds = {"sync-start-call", "async-start-call", "stream-read", "subtask-cancel", "stream-cancel-read", "lower-import"}
  Components = {i}
  MaxCores = 2
  MaxArgs = 2
  Raw = {1, 2}
  MaxItems = 3
  Patterns = {0, 1, 255}
  MaxFlat = 3
  MemorySize = 64
  SlowCalls = {h1}
  Settlement = Settlement
  Activity = Activity
  Arm = Arm
INVARIANTS  OwnersExact NothingDangles CachesWhole Wired ValuesArrive
PROPERTY DeadlockIsReal
CHECK_DEADLOCK FALSE
