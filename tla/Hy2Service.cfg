SPECIFICATION ServiceSpec
CONSTANTS
  Passwords = {p1, p2}
  Names = {n1}
  Sessions = {s1}
  Handlers = {a1, a2}
  Panel = {g1, g2}
  NoUser = NoUser
  NoPassword = NoPassword
  Clients = {c1}
  Hy2 = {h1}
  Others = {o1}
  Requests = {r1}
  Job = Job
  None = None
  MaxChanges = 0
  MaxFaults = 0
  MaxRestarts = 0
INVARIANT EvictedUnlessLate
PROPERTY RemovedUserLeaves
