SPECIFICATION Spec
CONSTANTS
  TableSize = 4
  ChildSlots = 2
  BootCount = 2
INVARIANT WaiterHasLiveChild
CHECK_DEADLOCK FALSE
