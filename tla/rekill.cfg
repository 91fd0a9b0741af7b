SPECIFICATION Spec
CONSTANTS
  TableSize = 5
  ChildSlots = 2
  BootCount = 1
INVARIANT CompletedSlotNamesChild
CHECK_DEADLOCK FALSE
