\* As many buffers as descriptors; connections may end and accepts may fail.
SPECIFICATION FairSpec
CONSTANTS
  c1 = c1
  c2 = c2
  f1 = f1
  f2 = f2
  b1 = b1
  b2 = b2
  Client = {c1, c2}
  Fd = {f1, f2}
  Bid = {b1, b2}
  None = None
  Faults = {"accept", "eof"}
  ENTRIES = 5
  Messages = 2
PROPERTIES
  AllEchoed
CHECK_DEADLOCK FALSE
