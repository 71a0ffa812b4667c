CONSTANTS
  PageSize = 8
  HeapCount = 1
  CodeCount = 2
  TimerOption = 4
  DiskOption = 2
  ConsoleOption = 2
  Programs <- Everything
  DemandPaging = TRUE
SPECIFICATION FairSpec
PROPERTIES ServedOnceInStack RunsAlone RequestKept DevicesServed TimerOutlivesModest
