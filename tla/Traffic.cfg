SPECIFICATION MCSpec
CONSTANTS
  Users = {u1}
  Resources = {i1}
  Dirs = {up, down}
  Conns = {c1}
  Jobs = {j1, j2}
  None = None
  MaxBytes = 2
  MaxTroubles = 1
  Buckets = 3
  Hour = 2
  Day = 4
  Age = 1
  Limits = {0, 1, 2, 4}
  Batches = {b1, b2}
  MaxTraffic = 2
  MaxTime = 6
CHECK_DEADLOCK FALSE
SYMMETRY Symmetry
INVARIANT TypeOK
PROPERTIES BilledOnce OnlineComplete ChartsComplete
