SPECIFICATION Spec
CONSTANTS
  c1 = c1
  Clients = {c1}
  Absent = Absent
  NoForm = NoForm
  Day = 1
  MaxDays = 1
  Volumes = {0, 1, 2}
  MaxTime = 3
  MaxTraffic = 2
PROPERTIES GrantsWithinLimits UsageConserved ReportsEveryChange JobSettles
