\* One descriptor more than there are buffers.
SPECIFICATION Spec
CONSTANTS
  c1 = c1
  c2 = c2
  c3 = c3
  f1 = f1
  f2 = f2
  f3 = f3
  b1 = b1
  b2 = b2
  Client = {c1, c2, c3}
  Fd = {f1, f2, f3}
  Bid = {b1, b2}
  None = None
  Faults = {}
  ENTRIES = 5
  Talkers = {}
INVARIANTS
  ShouldNotHappen
CHECK_DEADLOCK FALSE
