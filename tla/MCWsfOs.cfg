SPECIFICATION FairSpec
CONSTANTS
  WSF_MAX_HANDLERS = 2
  Timer = {"t1", "t2"}
  MaxTicks = 2
  CLK_TICKS_PER_WSF_TICKS = 1
  MsgBufs = 1
  configTIMER_QUEUE_LENGTH = 3
INVARIANTS NoLostWakeup TimersInOrder
PROPERTIES WorkIsDone SeenTimersExpire
