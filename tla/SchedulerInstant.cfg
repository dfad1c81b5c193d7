SPECIFICATION Spec
CONSTANTS
  NTasks = 2
  NULL = NULL
  FastTyping = FALSE
PROPERTY KilledInstantly
