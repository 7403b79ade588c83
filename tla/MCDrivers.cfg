\* Each driver alone: Serial, the interrupts of two pads, SoftwareSerial.
SPECIFICATION FairSpec
CONSTANTS
  Drivers = {"uart", "gpio", "serial"}
  MaxOut = 4
  MaxIn = 3
  MaxHeard = 2
  LinSize = 2
  RingSize = 3
  Sizes = {1, 2}
  Pad = {0, 1}
  MaxPads = 4
  Modes = {"CHANGE", "LOW"}
  MaxAttach = 3
  MaxEdges = 3
  Bits = 2
  Parity = TRUE
  Size = 3
INVARIANTS
  UartSentInOrder
  UartReadInOrder
  GpioLatestCallback
  SerialSentInOrder
  SerialQuietMeansSent
  SerialHeardIntact
PROPERTIES
  GpioEdgeServed
  FlushReturns
CONSTRAINT SerialBound
\* A sketch, a pad and a line need do nothing more: the system may stop.
CHECK_DEADLOCK FALSE
