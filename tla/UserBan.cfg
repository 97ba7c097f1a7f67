SPECIFICATION FairSpec
CONSTANTS
  Clients = {c1}
  Hy2 = {h1}
  Others = {o1}
  Requests = {r1}
  Job = Job
  None = None
  MaxChanges = 1
  MaxFaults = 1
  MaxRestarts = 0
CHECK_DEADLOCK FALSE
PROPERTY BanIsReconciled
