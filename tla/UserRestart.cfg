SPECIFICATION Spec
CONSTANTS
  Clients = {c1}
  Hy2 = {h1}
  Others = {o1}
  Requests = {r1, r2}
  Job = Job
  None = None
  MaxChanges = 3
  MaxFaults = 0
  MaxRestarts = 1
CHECK_DEADLOCK FALSE
INVARIANT LiveSetMatchesRestart
