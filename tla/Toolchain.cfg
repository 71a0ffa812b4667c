CONSTANTS
  Addresses = {5, 6}
  Watchable = {5, 7}
  MaxWatch = 2
  WatchLimit = 2
  MaxCount = 3
  DoubleWrites = TRUE
  KernelFaults = TRUE
  Names = {a, b}
  Registers = {R0, R1}
  Labels = {l1}
  Limit = 7
  Programs <- Everything
  Filled <- Regs
  Memory <- Mem
SPECIFICATION AllSpec
CHECK_DEADLOCK FALSE
INVARIANTS StepExact TablesShown NamesResolve CompiledRight
PROPERTIES ContinueExact WritesReported Terminates
