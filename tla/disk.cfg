SPECIFICATION Spec
CONSTANTS
  Sectors = {4, 5, 6}
  MaxCount = 2
  MaxReads = 3
INVARIANTS TypeOK ReadDelivers
PROPERTY ReadReturns
CHECK_DEADLOCK FALSE
