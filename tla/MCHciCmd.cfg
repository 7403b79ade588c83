\* A reset sequence of two setup commands and two LE_RANDs, three rounds of the
\* driver's loop, two packets read in a row, SecRand's LE_RANDs and other commands
\* of the stack, one of them waiting, two faults (a failed boot is one of its own).
SPECIFICATION FairSpec
CONSTANTS
  SetupCmds = 2
  RandCmds = 2
  MaxTrans = 3
  MaxRetries = 3
  MaxRead = 2
  StackOps = {"secRand", "other"}
  MaxCmds = 1
  MaxFaults = 2
INVARIANTS OneCommandOut DriverComesBack
PROPERTIES ResetCompletes
\* After a reset that was cut short nothing need be sent or awaited any more: the system may stop.
CHECK_DEADLOCK FALSE
