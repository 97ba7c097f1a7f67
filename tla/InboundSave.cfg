SPECIFICATION MCSpec
CONSTANTS
  Ids = {i1, i2}
  Tags = {t1, t2}
  Contents = {vless}
  WithLink = {vless}
  WithOut = {vless}
  TlsIds = {x1}
  Versions = {v1, v2}
  Clients = {c1}
  Configs = {k1}
  None = None
  Requests = {r1, r2}
  MaxSaves = 3
  MaxFaults = 1
  MaxRestarts = 1
  PartContents = {a, b, w}
  Warp = {w}
  Licenses = {l1, l2}
  MaxAsked = 2
  MaxFailures = 1
  MaxStops = 1
CHECK_DEADLOCK FALSE
SYMMETRY Symmetry
INVARIANTS TypeOK CoreFollows PartsFollow LicenseFollows
PROPERTY Serial
