SPECIFICATION MCSpec
CONSTANTS
  Stored = a
  Configs = {a, b, bad}
  Broken = {bad}
  Requests = {r1, r2}
  Job = Job
  None = None
  MaxFaults = 1
  MaxStops = 1
  Tokens = {"t1", "t2", "t3"}
  Lasting = {"t2", "t3"}
  Searchers = {"r1", "r2"}
  Admins = {"a1", "a2"}
  MaxLoads = 2
  MaxRequests = 2
  Few = {"t1", "t2"}
  Second = "a2"
CHECK_DEADLOCK FALSE
INVARIANTS PartsTypeOK RunsStored Current
PROPERTIES Converges RefusedOnce
