SPECIFICATION FairSpec
CONSTANTS
    NumProcs = 3
    Block = {4, 5}
    Offset = {0}
    Word = {0}
    DiskImage <- MCDiskImage
    EmptyPage <- MCEmptyPage
    NumBuffers = 1
    NumInodes = 2
    FileOf <- MCFileOf
    NumTables = 1
    SwapperPid = 15
PROPERTY ReadyRuns
PROPERTY DiskWakes
PROPERTY NoLivelock
INVARIANT LockInv
INVARIANT NoCircularWait
INVARIANT KillAllKills
