SPECIFICATION Spec
CONSTANTS
  NTasks = 2
  SIZE = 4
  COLS = 2
  PROMPT = 1
  BYTE = 4
  Green = "green"
  Grey = "grey"
  White = "white"
  Text <- Printed
  MaxHits = 3
PROPERTIES HaltKeepsCursor
CHECK_DEADLOCK TRUE
