CONSTANTS
  p1 = p1
  p2 = p2
  p3 = p3
  Proc = {p1, p2, p3}
  P1 = p1
  BootNice = 1
  BootRest = 2
  SCHED_LEVEL_SIZE = 2
  WHEEL_SIZE = 2
  JIFFIES_MOD = 8
  REST_MOD = 65536
  Sleepers = {p2, p3}
  Timeouts = {0, 1, 3}
SYMMETRY Symmetry
SPECIFICATION Spec
INVARIANTS
  TypeOK
  RunQueuesExact
  CountsExact
  WaitQueuesExact
  CurrentIsHead
  NoPanic
  QuantumBounds
PROPERTIES
  FairRounds
