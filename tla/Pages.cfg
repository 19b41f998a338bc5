CONSTANTS
  p1 = p1
  p2 = p2
  p3 = p3
  p4 = p4
  g1 = g1
  g2 = g2
  g3 = g3
  Proc = {p1, p2, p3, p4}
  P1 = p1
  BootNice = 0
  BootRest = 1
  SCHED_LEVEL_SIZE = 1
  WHEEL_SIZE = 1
  JIFFIES_MOD = 2
  REST_MOD = 65536
  Users = {p2, p3, p4}
  Page = {g1, g2, g3}
  Sizes = {1, 2}
SYMMETRY Symmetry
SPECIFICATION Spec
CHECK_DEADLOCK FALSE
INVARIANTS
  PoolCounted
  PagesExact
  NoIdlePage
