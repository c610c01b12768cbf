\* Three connections of two messages each over two descriptors and two buffers,
\* every fault of the environment; the smallest ring that is large enough.
SPECIFICATION Spec
CONSTANTS
  c1 = c1
  c2 = c2
  c3 = c3
  f1 = f1
  f2 = f2
  b1 = b1
  b2 = b2
  Client = {c1, c2, c3}
  Fd = {f1, f2}
  Bid = {b1, b2}
  None = None
  Faults = {"accept", "eof", "reset", "provide", "short"}
  ENTRIES = 5
  Messages = 2
SYMMETRY Symmetric
INVARIANTS
  TypeOK
  EchoesInOrder
  SqNeverFull
  NoBufferExhaustion
PROPERTIES
  PoolDiscipline
CHECK_DEADLOCK FALSE
