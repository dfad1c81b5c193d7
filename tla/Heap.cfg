SPECIFICATION FairSpec
CONSTANTS
  HEADER = 2
  PAGE_UNITS = 2
  WORD = 64
  FRAMES = 3
  Request <- Requests
  NULL = NULL
INVARIANTS
  TypeOK
  FreeListExact
PROPERTIES
  ImplementsAllocator
  CallsReturn
