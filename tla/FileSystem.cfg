CONSTANTS
  Pid = {p1, p2}
  NumInodes = 3
  Names = {a, b}
  Permissions = {1}
  FirstBlock = 4
  NumBlocks = 2
  BlockSize = 2
  MaxBlocks = 2
  NumBuffers = 1
  NumOpenFiles = 2
  NumSlots = 2
  RootSize = 1
  Words = {1}
  Deltas <- MCDeltas
SYMMETRY Symmetry
SPECIFICATION MCSpec
INVARIANT TablesAgree
PROPERTY ImplementsFileStore
CHECK_DEADLOCK FALSE
