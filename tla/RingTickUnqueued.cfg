CONSTANTS
  p1 = p1
  p2 = p2
  p3 = p3
  NULL = NULL
  Proc = {p1, p2, p3}
  P1 = p1
  Nice = 0
  BootRest = 2
  WHEEL_SIZE = 2
  JIFFIES_MOD = 4
  REST_MOD = 65536
  Sleepers = {p2, p3}
  Timeouts = {1, 2}
  TickPoints = {"out"}
SYMMETRY Symmetry
SPECIFICATION Spec
INVARIANTS
  NoPanic
