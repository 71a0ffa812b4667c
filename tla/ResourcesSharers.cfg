SPECIFICATION Spec
CONSTANTS
    NumProcs = 3
    NumSems = 2
    NumOpenFiles = 1
    NumSlots = 2
    File = {0}
    Releasable = {"SEMAPHORE"}
    Left <- MCFresh
    MaxShares = 2
    MaxStrays = 1
CONSTRAINT CountsBounded
INVARIANT SharersAreCounted
