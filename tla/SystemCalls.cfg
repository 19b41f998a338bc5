CONSTANTS
  p1 = p1
  p2 = p2
  p3 = p3
  Proc = {p1, p2}
  Owner = {p1, p2, p3}
  P1 = p1
  process1 = p1
  MaxNest = 2
  INNER_FD_COUNT = 3
  tty = tty
  disk = disk
  Inode = {tty, disk}
  Driver = {3, 5}
  driver_of <- DriverOf
  Auths = {{"WRITE"}, {"WRITE", "READ", "CLOSEONFORK"}}
  MEM_START = 3
  WORD = 4
  none = none
  Writer = {p1, p2}
  ROWS = 2
  COLS = 4
  TAB = 2
  Controls = {"LF", "CR", "VT", "TAB", "BS", "FF", "ESC"}
  Mark = "x"
  Blank = " "
  MaxLen = 1
SPECIFICATION AllSpec
CHECK_DEADLOCK FALSE
INVARIANTS
  OpenMeansUnlocked
  LocksMatched
  DescriptorsExact
  CallsExact
  ScreenExact
PROPERTIES
  FlagReopens
  WritesReturn
