SPECIFICATION Spec
CONSTANTS
  SLOTS = 5
  FRAMES = 11
  Allocatable <- Spare
  KernelSlot <- Kernel
  HEAP_MAX = 6
  TempSlot = 3
  BenchSlot = 4
  MODULE_PAGES = 1
  NULL = NULL
INVARIANTS
  TypeOK
  KernelMapped
  HeapMapped
CHECK_DEADLOCK FALSE
