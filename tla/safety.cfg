SPECIFICATION Spec
CONSTANTS
  TableSize = 5
  ChildSlots = 2
  BootCount = 2
INVARIANTS
  TypeOK
  QueuesPartition
  StatesMatchQueues
  ChildTablesAgree
  ExitIsReported
  CompletedChildrenEnded
  WokenHoldsItsChild
PROPERTIES
  DoneIsFinal
  NoOvertaking
CHECK_DEADLOCK FALSE
