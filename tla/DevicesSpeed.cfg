SPECIFICATION DevicesSpec
CONSTANTS
  Lines = {0}
  EarlyKeys = FALSE
  FirmwareDlm = {0, 1}
  FIFO = 1
  Greeting <- ThreeCharacters
  Frequency = 100
INVARIANT LineSpeed
