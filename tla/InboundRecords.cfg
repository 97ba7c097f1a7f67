SPECIFICATION MCSpec
CONSTANTS
  Ids = {i1, i2}
  Tags = {t1, t2}
  Contents = {vless, shadowtls, direct}
  WithLink = {vless}
  WithOut = {vless, shadowtls}
  TlsIds = {x1}
  Versions = {v1, v2}
  Clients = {c1, c2}
  Configs = {k1, k2}
  None = None
  Panels = {p1, p2}
  Objects = {clients, outbounds}
  ClientKind = clients
  Cron = cron
  MaxTime = 3
  MaxChanges = 2
  MaxFaults = 1
CHECK_DEADLOCK FALSE
SYMMETRY Symmetry
INVARIANTS Informed LinksFollow OutJsonFollows
