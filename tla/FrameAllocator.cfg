SPECIFICATION Spec
CONSTANTS
  BITMAP_SIZE = 2
  PAGE = 4
  LowFrames = 3
  total_ram_bytes = 55
  kernel_physical_start = 12
  kernel_physical_end = 17
  None = None
INVARIANTS
  TypeOK
  NothingPreciousHandedOut
PROPERTY ImplementsPool
