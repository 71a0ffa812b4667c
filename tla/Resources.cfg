SPECIFICATION Spec
CONSTANTS
    NumProcs = 3
    NumSems = 2
    NumOpenFiles = 2
    NumSlots = 2
    File <- MCFile
    Releasable = {"SEMAPHORE", "NONE"}
    Left <- MCLeft
    MaxShares = 2
    MaxStrays = 1
VIEW MCView
CONSTRAINT CountsBounded
INVARIANT SharingCounts
INVARIANT UsersOnly
INVARIANT FileOpenCounts
PROPERTY OnlyOwnerUnlocks
