CONSTANTS
  p1 = p1
  p2 = p2
  p3 = p3
  Proc = {p1, p2, p3}
  P1 = p1
  BootNice = 0
  BootRest = 3
  SCHED_LEVEL_SIZE = 2
  WHEEL_SIZE = 2
  JIFFIES_MOD = 4
  REST_MOD = 65536
  Sleepers = {p2, p3}
  Timeouts = {0, 1, 2}
SPECIFICATION Spec
PROPERTIES
  KeepsPromise
  NoStarvation
  SleepersWake
