\* Four connections over three descriptors and three buffers, every fault of
\* the environment, so that buffers are lost and reads starve, too; the smallest ring
\* that is large enough for three descriptors.
SPECIFICATION Spec
CONSTANTS
  c1 = c1
  c2 = c2
  c3 = c3
  c4 = c4
  f1 = f1
  f2 = f2
  f3 = f3
  b1 = b1
  b2 = b2
  b3 = b3
  Client = {c1, c2, c3, c4}
  Fd = {f1, f2, f3}
  Bid = {b1, b2, b3}
  None = None
  Faults = {"accept", "eof", "reset", "provide", "short", "text"}
  ENTRIES = 5
  Talkers = {}
SYMMETRY Symmetric
INVARIANTS
  TypeOK
  IInv
  Routing
  OneWakeup
  AcceptArmed
  BufferConservation
  DescriptorAgreement
  SqNeverFull
  NoBufferExhaustion
PROPERTIES
  PoolDiscipline
CHECK_DEADLOCK FALSE
