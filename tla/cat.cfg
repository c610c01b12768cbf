\* Four files, so that a counter of two bits wraps; sizes of one and a half blocks, of
\* more blocks than readv takes, and two that are no int (one negative, one 0 as an int).
SPECIFICATION Spec
CONSTANTS
  Programs = {"uring_cat", "liburing_cat"}
  ARGS = 4
  Sizes = {3, 5, 9, 16}
  BLOCK_SZ = 2
  INT = 8
  IOV_MAX = 2
  SQ_ENTRIES = 1
  CQ_ENTRIES = 2
  COUNTERS = 4
  Faults = {"setup", "open", "read", "short", "submit", "interrupt"}
INVARIANTS
  TypeOK
  EachReadPrintedOnce
  AllPrintedInOrder
  IovecsFit
PROPERTIES
  Ends
CHECK_DEADLOCK FALSE
