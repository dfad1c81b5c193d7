SPECIFICATION Spec
CONSTANTS
  NTasks = 2
  NULL = NULL
  FastTyping = TRUE
INVARIANT ContextIntegrity
CHECK_DEADLOCK FALSE
