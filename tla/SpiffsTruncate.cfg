SPECIFICATION Spec
CONSTANTS
  Names = {a, b}
  Fds = {1, 2}
  block_count = 5
  MAX_ENTRIES = 3
  DATA_PAGE_SIZE = 2
  HDR_IX_LEN = 1
  IX_LEN = 1
  MaxSize = 4
  MaxErase = 2
  Writes <- OneAndTwoBytes
  GcSizes = {}
  QuickPages = {}
  TruncateEmpty = TRUE
  MaxResets = 0
SYMMETRY NameSymmetry
CHECK_DEADLOCK FALSE
INVARIANTS
  ContentKept
