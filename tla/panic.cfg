SPECIFICATION Spec
CONSTANTS
  TableSize = 4
  ChildSlots = 2
  BootCount = 1
INVARIANT PanicOnlyWhenNoneReady
CHECK_DEADLOCK FALSE
