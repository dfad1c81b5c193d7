SPECIFICATION UserSpec
CONSTANTS
  Main = main
  Kernel = {k}
  User = {u}
  Value = {1, 2}
INVARIANTS UserModeHearsInterrupts
CHECK_DEADLOCK FALSE
