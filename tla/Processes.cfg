SPECIFICATION Spec
VIEW View
CONSTANTS
    NumProcs = 3
    NumPages = 8
    HeapSize = 1
    CodeSize = 2
    StackSize = 1
    Programs <- MCPrograms
    Word = {1}
INVARIANT ProcessInv
PROPERTY ImplementsSpaces
