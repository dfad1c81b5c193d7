SPECIFICATION Spec
CONSTANTS
  NTasks = 2
  SIZE = 4
  COLS = 2
  PROMPT = 1
  BYTE = 4
  Green = "green"
  Grey = "grey"
  White = "white"
  Text <- Printed
  MaxHits = 3
INVARIANT HardwareCursorAlways
CHECK_DEADLOCK TRUE
