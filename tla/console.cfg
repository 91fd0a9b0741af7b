SPECIFICATION Spec
CONSTANTS
  Width = 3
  Height = 3
  Letters = {"a", "b"}
  MaxLost = 3
INVARIANTS TypeOK StoresOnScreen
PROPERTY ImplementsPaper
CHECK_DEADLOCK FALSE
