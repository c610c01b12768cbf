\* Two connections in neighbouring buffers, or one after the other in the same; one
\* file, absent, a directory, or of a size on either side of each boundary: BUF =
\* HEADER + 1 + 1, so size 1 just fits, 4 is the length of the read, 5 is cut.
SPECIFICATION Spec
CONSTANTS
  c1 = c1
  c2 = c2
  index = index
  slash = slash
  far = far
  None = None
  Client = {c1, c2}
  File = {index}
  Index = index
  Slash = slash
  Far = far
  PATH = 2
  BUF = 4
  HEADER = 2
  LONG = 3
  SHORT = 1
  BUFFERS = 2
  ERRNO = 1
  Sizes = {0, 1, 2, 4, 5}
  Lengths = {2, 3, 4}
SYMMETRY Symmetric
INVARIANTS
  TypeOK
  StraysOnlyWhen
  KilledOnlyWhen
  
  AnsweredAsAsked
  
CHECK_DEADLOCK FALSE
