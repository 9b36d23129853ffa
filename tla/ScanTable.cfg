SPECIFICATION Spec
CONSTANTS
  SCAN_AP_MAX = 3
  WORD = 16
  Networks <- MCNetworks
  BufferSizes = {0, 1, 3, 8}
INVARIANTS SortedResult StrongestListed RowsApart
PROPERTY TableLeftIffEmpty
\* The access past the table is where the model ends.
CHECK_DEADLOCK FALSE
