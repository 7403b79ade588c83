\* One fault, so that nothing but the missed answer stands in the way of the reset.
SPECIFICATION FairSpec
CONSTANTS
  SetupCmds = 1
  RandCmds = 2
  MaxTrans = 3
  MaxRetries = 3
  MaxRead = 2
  StackOps = {"other"}
  MaxCmds = 1
  MaxFaults = 1
PROPERTIES RadioComesBack
\* After a reset that was cut short nothing need be sent or awaited any more: the system may stop.
CHECK_DEADLOCK FALSE
