SPECIFICATION Spec
CONSTANTS
    NumProcs = 4
    NumSems = 1
    NumOpenFiles = 1
    NumSlots = 2
    File <- MCFile
    Releasable = {"SEMAPHORE"}
    Left <- MCFresh
    MaxShares = 2
    MaxStrays = 1
CONSTRAINT CountsBounded
INVARIANT SleepersAreBlocked
