CONSTANTS
  PAGE_SIZE = 22
  UNIT_SIZE = 4
  Slabs = 1
  Lens = {3, 10}
  MaxPages = 3
  MaxOthers = 0
  MaxUnmaps = 0
  Bits = 2
SPECIFICATION Spec
CHECK_DEADLOCK FALSE
INVARIANT NoAssertFails
