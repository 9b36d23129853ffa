SPECIFICATION RecoverySpec
CONSTANTS
  Names = {a, b}
  Fds = {1}
  block_count = 4
  MAX_ENTRIES = 3
  DATA_PAGE_SIZE = 2
  HDR_IX_LEN = 1
  IX_LEN = 1
  MaxSize = 3
  MaxErase = 2
  Writes <- OneAndTwoBytes
  GcSizes = {}
  QuickPages = {}
  TruncateEmpty = FALSE
  PAGES_PER_SCAN = 6
  MaxResets = 1
SYMMETRY NameSymmetry
CHECK_DEADLOCK FALSE
INVARIANTS
  CheckEnds ContentKept
PROPERTIES
  LeftIsRight
