CONSTANTS
  Pid = {p1, p2}
  NumInodes = 2
  Names = {a, b}
  Permissions = {1}
  FirstBlock = 4
  NumBlocks = 1
  BlockSize = 1
  MaxBlocks = 1
  NumBuffers = 1
  NumOpenFiles = 2
  NumSlots = 1
  RootSize = 1
  Words = {1}
  Deltas = {}
SPECIFICATION Spec
PROPERTY OpensNamed
CHECK_DEADLOCK FALSE
