SPECIFICATION Spec
CONSTANTS
  Names = {a, b}
  Fds = {1, 2}
  block_count = 4
  MAX_ENTRIES = 3
  DATA_PAGE_SIZE = 2
  HDR_IX_LEN = 1
  IX_LEN = 1
  MaxSize = 4
  MaxErase = 2
  Writes <- OneAndTwoBytes
  GcSizes = {2}
  QuickPages = {0}
  TruncateEmpty = FALSE
  MaxResets = 0
SYMMETRY NameSymmetry
CHECK_DEADLOCK FALSE
INVARIANTS
  StatsMatch Unique NoOrphans FdsFresh ContentKept ReadsBack
