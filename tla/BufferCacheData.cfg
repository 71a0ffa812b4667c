SPECIFICATION Spec
CONSTANTS
    NumProcs = 4
    Block = {4, 5}
    Offset = {0, 1}
    Word = {0, 1}
    DiskImage <- MCDiskImage
    EmptyPage <- MCEmptyPage
    NumBuffers = 1
    NumInodes = 2
    FileOf <- MCFileOf
    NumTables = 1
    SwapperPid = 2
VIEW MCView
CONSTRAINT ThreeWriteFour
INVARIANT DataInv
INVARIANT ShutdownDurable
PROPERTY ImplementsStore
