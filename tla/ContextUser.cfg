SPECIFICATION Spec
CONSTANTS
  Main = main
  Kernel = {k}
  User = {u}
  Value = {1, 2}
INVARIANTS UserThreadInRing3
CHECK_DEADLOCK FALSE
