SPECIFICATION BootSpec
CONSTANTS
  BITMAP_SIZE = 2
  PAGE = 4
  LowFrames = 3
  total_ram_bytes = 51
  kernel_physical_start = 12
  kernel_physical_end = 21
  None = None
  HEADER = 1
  NODE = 2
  THREAD = 1
  MaxFiles = 4
  NThreads = 2
  Screen = 2
  LoadedPages = 4
INVARIANT ImageKept
