SPECIFICATION PayloadSpec
CONSTANTS
  SECONDS_TO_SLEEP = 4
  EPOCH_CONFIG = 5
  JiffyValues = 11
  QuietBound = 12
  Pins = {"p1", "p2"}
  MaxKeys = 2
  Messages <- MCMessages
  Layouts <- MCLayouts
CHECK_DEADLOCK FALSE
INVARIANT SignatureVerifies
