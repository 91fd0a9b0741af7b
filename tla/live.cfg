SPECIFICATION FairSpec
CONSTANTS
  TableSize = 4
  ChildSlots = 2
  BootCount = 2
PROPERTIES
  ReadyRuns
  EndedAreFreed
CHECK_DEADLOCK FALSE
