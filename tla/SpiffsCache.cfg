SPECIFICATION Spec
CONSTANTS
  cpage_count = 2
  LOG_PAGE_SIZE = 2
  Pages = {0, 1}
  PAGES_PER_BLOCK = 2
  Fds = {1, 2}
  Ids = {1}
  OpenFlags <- ReadWriteAppend
  Exclusive = TRUE
  Writes <- SmallAndBig
  Lengths = {0, 1}
  MaxSize = 3
  Lost = Lost
CHECK_DEADLOCK FALSE
INVARIANTS
  Coherent WritesOwned PageForReads ReadsSeeWrites
PROPERTIES
  KeepsPromises
