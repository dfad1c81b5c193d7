SPECIFICATION Spec
CONSTANTS
  Main = main
  Kernel = {k}
  User = {u}
  Value = {1, 2}
INVARIANTS TypeOK RegistersKept PlaceKept
PROPERTIES SystemCallServed
CHECK_DEADLOCK TRUE
