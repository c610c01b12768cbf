\* One of three clients is silent and holds its descriptor; accepts may fail.
SPECIFICATION FairSpec
CONSTANTS
  c1 = c1
  c2 = c2
  c3 = c3
  f1 = f1
  f2 = f2
  b1 = b1
  b2 = b2
  Client = {c1, c2, c3}
  Fd = {f1, f2}
  Bid = {b1, b2}
  None = None
  Faults = {"accept"}
  ENTRIES = 4
  Talkers = {c1, c2}
PROPERTIES
  Served
  Admitted
  PoolNeverDrains
CHECK_DEADLOCK FALSE
