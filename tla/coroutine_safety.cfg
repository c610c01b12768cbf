\* Two connections of two messages each and two buffers, every failure but a short
\* send (see echo_short); nothing is ever closed, so a third client could only wait.
SPECIFICATION CoSpec
CONSTANTS
  c1 = c1
  c2 = c2
  f1 = f1
  f2 = f2
  b1 = b1
  b2 = b2
  Client = {c1, c2}
  Fd = {f1, f2}
  Bid = {b1, b2}
  None = None
  Faults = {"accept", "eof", "reset", "provide"}
  ENTRIES = 5
  Messages = 2
SYMMETRY Symmetric
INVARIANTS
  CoroutineTypeOK
  FramesAlive
PROPERTIES
  SameAsCallbacks
  PoolDiscipline
CHECK_DEADLOCK FALSE
