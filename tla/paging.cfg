SPECIFICATION Spec
CONSTANTS
  FrameCount = 18
  Procs = {1, 2}
  Entries = 5
  HeapStart = 2
  MaxPages = 1
INVARIANTS
  TypeOK
  FramesExclusive
  KernelMapped
PROPERTIES
  EndReturnsUserFrames
CHECK_DEADLOCK FALSE
