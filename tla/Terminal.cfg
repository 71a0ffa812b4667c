SPECIFICATION FairSpec
CONSTANTS
    NumProcs = 4
    MaxWords = 4
INVARIANT TerminalInv
PROPERTY NobodyStuck
