SPECIFICATION FairSpec
CONSTANTS
  BlockCount = 6
  Sizes = {200, 300, 500, 700}
INVARIANTS
  TypeOK
  HeapTiled
  AllocationsDisjoint
  NothingLeaks
PROPERTY MallocReturns
CHECK_DEADLOCK FALSE
