SPECIFICATION DevicesSpec
CONSTANTS
  Lines = {0}
  EarlyKeys = TRUE
  FirmwareDlm = {0}
  FIFO = 1
  Greeting <- ThreeCharacters
  Frequency = 100
INVARIANTS DevicesTypeOK EveryInterruptHasAGate SerialInOrder RightRates
PROPERTIES GreetingSent KeysRead
