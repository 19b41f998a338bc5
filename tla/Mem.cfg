CONSTANTS
  p1 = p1
  p2 = p2
  p3 = p3
  Proc = {p1, p2, p3}
  process1 = p1
  Regions = 1
  Page = {1, 2}
  Value = {zero, one}
  image = zero
  MaxPages = 7
  ContentPages = 6
  LateRegions = FALSE
  CopiesFork = FALSE
  LateRead = FALSE
SYMMETRY Children
SPECIFICATION AllSpec
CHECK_DEADLOCK FALSE
INVARIANTS
  NoPanic
  TablesExact
  PagesCounted
PROPERTIES
  ContentsPrivate
