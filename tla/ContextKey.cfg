SPECIFICATION Spec
CONSTANTS
  Main = main
  Kernel = {k}
  User = {u}
  Value = {1, 2}
INVARIANTS RegistersExact
CHECK_DEADLOCK FALSE
