SPECIFICATION PSpec
CONSTANTS
  TableSize = 3
  ChildSlots = 1
  BootCount = 1
  MaxDepth = 3
  MaxNested = 2
CHECK_DEADLOCK FALSE
INVARIANTS PTypeOK PlacesKept StatesFit FamilyKept SleepersAnswerable RingKept
