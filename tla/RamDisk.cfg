SPECIFICATION Spec
CONSTANTS
  NAME = 4
  MAIN_HEADER = 1
  FILE_HEADER = 2
  BUFFER = 3
  WORD = 32
  FileName <- Names
  Content <- Contents
  Missing = Missing
  Typed <- Lines
  Request <- InRange
  Junk = 9
  NULL = NULL
  Silence = Silence
INVARIANTS TypeOK MountedWhole
PROPERTIES ImplementsStore
CHECK_DEADLOCK TRUE
