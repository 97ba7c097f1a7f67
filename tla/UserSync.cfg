SPECIFICATION SyncSpec
CONSTANTS
  Clients = {c1, c2}
  Hy2 = {h1}
  Others = {o1, o2}
  Requests = {r1}
  Job = Job
  None = None
  MaxChanges = 3
  MaxFaults = 1
  MaxRestarts = 1
  Passwords = {p1}
  Names = {n1}
  Sessions = {s1}
  Handlers = {a1}
  Panel = {g1}
  NoUser = NoUser
  NoPassword = NoPassword
CHECK_DEADLOCK FALSE
INVARIANT InSyncWhenSerial
PROPERTY LockIsReleased
