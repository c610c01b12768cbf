\* Three connections over two descriptors, so that sockets and blocks are reused;
\* two iovecs stand for the six of the code; the heap is large enough.  Every completion
\* is handled and every transfer ends.
SPECIFICATION FairSpec
CONSTANTS
  c1 = c1
  c2 = c2
  c3 = c3
  f1 = f1
  f2 = f2
  Client = {c1, c2, c3}
  Fd = {f1, f2}
  BLOCKS = 9
  IOVS = 2
  Faults = {"accept", "reset", "hangup"}
  None = None
INVARIANTS
  TypeOK
  NothingDangles
  NothingElseLeaks
  SocketsAccounted
  OwnAnswer
PROPERTIES
  Answered
CHECK_DEADLOCK FALSE
