CONSTANTS
  Names = {f1, f2}
  Blocks = {69, 70}
  MaxBlocks = 2
  FileSlots = 2
  UserSlots = 1
  SlotsPerBlock = 2
  BlockWords = 6
  RegionBlocks = 2
  MaxFileLines = 7
  Terminations = {TRUE}
  ModuleNumbers = {0, 1, 2, 3, 4, 5, 6, 7, 12}
  MaxLoads = 2
  LabelNames = {"a", "b"}
  Base = 512
  MaxCodeLines = 5
  LongLines = FALSE
SPECIFICATION MCSpec
SYMMETRY Symmetry
CHECK_DEADLOCK FALSE
INVARIANTS DiskInv FilesWhole LoadedWhole CodeInPlace JumpsResolved
PROPERTY OthersUntouched
