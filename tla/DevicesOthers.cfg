SPECIFICATION DevicesSpec
CONSTANTS
  Lines = {0, 12}
  EarlyKeys = FALSE
  FirmwareDlm = {0}
  FIFO = 1
  Greeting <- ThreeCharacters
  Frequency = 100
INVARIANT EveryInterruptHasAGate
