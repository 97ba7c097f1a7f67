SPECIFICATION MCSpec
CONSTANTS
  Threads = {cron, t1, t2}
  Cron = cron
  Boxes = {b1, b2}
  NoBox = NoBox
  Conns = {c1, c2}
  Tags = {tag1}
  Restarters = {r1, r2}
  MaxAdds = 4
  MaxStops = 1
  MaxFaults = 1
  Stoppers = {s1, s2}
  Asked = {"ntp"}
  MaxBoxes = 2
CHECK_DEADLOCK FALSE
INVARIANTS PartsTypeOK OneStarter SafeWhenSerial Swept ClosedAsOpened RunningIsWhole
PROPERTY CoreIsRetried
