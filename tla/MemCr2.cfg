CONSTANTS
  Proc = {p1, p2}
  process1 = p1
  Regions = 1
  Page = {1, 2}
  Value = {zero}
  image = zero
  MaxPages = 6
  LateRegions = FALSE
  CopiesFork = FALSE
  LateRead = TRUE
SPECIFICATION Spec
CHECK_DEADLOCK FALSE
INVARIANT NoPanic
