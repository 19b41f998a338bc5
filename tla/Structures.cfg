CONSTANTS
  BUDDY_DEP = 3
  LB_SIZE = 4
  Page = {1, 2}
  Capacity = 3
  Shift = 1
  LevelSet = {2, 3, 4}
  Count = 8
  Key = {1, 2, 3, 4, 5, 6}
  RedKey = {1, 2, 3, 4, 5}
  first = 3
  Room = 6
  Numbers = {1, 2, 3}
  INT_MAX = 4
SPECIFICATION AllSpec
CHECK_DEADLOCK FALSE
INVARIANTS
  BlocksExact
  SlabsExact
  BitmapExact
  TreeSearchable
  TreeRedBlack
  HeapExact
PROPERTIES
  NoNeedlessRefusal
