\* Two files: the first a directory, perhaps.  Nothing else goes wrong.
SPECIFICATION Spec
CONSTANTS
  Programs = {"liburing_cat"}
  ARGS = 2
  Sizes = {3}
  BLOCK_SZ = 2
  INT = 8
  IOV_MAX = 2
  SQ_ENTRIES = 1
  CQ_ENTRIES = 2
  COUNTERS = 4
  Faults = {}
INVARIANTS
  FetchedAndPrinted
CHECK_DEADLOCK FALSE
