CONSTANTS
  Proc = {p1, p2, p3}
  process1 = p1
  Regions = 1
  Page = {1}
  Value = {zero, one}
  image = zero
  MaxPages = 12
  LateRegions = FALSE
  CopiesFork = TRUE
  LateRead = FALSE
SPECIFICATION Spec
PROPERTY MemoryIsPrivate
