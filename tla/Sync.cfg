CONSTANTS
  p1 = p1
  p2 = p2
  p3 = p3
  p4 = p4
  Proc = {p1, p2, p3, p4}
  P1 = p1
  BootNice = 0
  BootRest = 1
  SCHED_LEVEL_SIZE = 1
  WHEEL_SIZE = 1
  JIFFIES_MOD = 2
  REST_MOD = 65536
  Users = {p2, p3, p4}
  Units = 2
  Timeouts = {0}
  Kinds = {"semaphore", "condition", "mutex"}
SPECIFICATION AllSpec
CHECK_DEADLOCK FALSE
INVARIANTS
  UnitsConserved
  WaitersExact
  NoPanic
  SleepersListed
PROPERTIES
  FirstComeFirstServed
  WakeMeansSignal
  WokenReturns
