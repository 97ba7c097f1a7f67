SPECIFICATION Spec
CONSTANTS
  Threads = {cron, t1}
  Cron = cron
  Boxes = {b1, b2}
  NoBox = NoBox
INVARIANT NoZombieCore
