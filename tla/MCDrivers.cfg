SPECIFICATION Spec
CONSTANTS
  Threads = {t1, t2}
  Calls = {h1}
  Fails = TRUE
  Hops = TRUE
  Early = TRUE
  Overlap = TRUE
  Prompt = FALSE
  Settlement = Settlement
  Activity = Activity
  Arm = Arm
  None = None
INVARIANT YieldsToRunning
CHECK_DEADLOCK FALSE
