-------------------------------- MODULE WsfOs --------------------------------
(***************************************************************************)
(* The event system under the payload: the WSF dispatcher that RadioTask   *)
(* runs, its events, messages and software timers, and the FreeRTOS timer  *)
(* through which it wakes itself (exactle/wsf/sources/port/freertos/       *)
(* wsf_os.c, wsf_timer.c, wsf_msg.c, wsf_queue.c; payload/radio_task.c).   *)
(*                                                                         *)
(* Three parties share the task event mask: RadioTask, the timer service   *)
(* task of FreeRTOS (the daemon, which also sets the event bit on behalf   *)
(* of interrupts), and the BLE interrupt.  What the code does between      *)
(* WSF_CS_ENTER and WSF_CS_EXIT is one step.  The two tasks have the same  *)
(* priority and are not time-sliced (payload/FreeRTOSConfig.h:76,95): the  *)
(* processor changes hands when one blocks or yields, or when the clock    *)
(* tick readies the daemon.                                                *)
(***************************************************************************)
EXTENDS Integers, SequencesExt

CONSTANTS
  WSF_MAX_HANDLERS,
  Timer,
  MaxTicks,                (* bound: WSF ticks a timer is started with       *)
  CLK_TICKS_PER_WSF_TICKS,
  MsgBufs,                 (* buffers WsfMsgAlloc can give                   *)
  configTIMER_QUEUE_LENGTH

ASSUME WsfAssumption ==
  /\ WSF_MAX_HANDLERS \in Nat \ {0}
  /\ MaxTicks \in Nat \ {0}
  /\ CLK_TICKS_PER_WSF_TICKS \in Nat \ {0}
  /\ MsgBufs \in Nat
  /\ configTIMER_QUEUE_LENGTH \in Nat \ 0 .. 2

VARIABLES
  cpu,                (* the task that has the processor, or gets it next    *)
  at,                 (* where RadioTask stands in wsfOsDispatcher           *)
  inHandler,          (* is it inside a handler, or in GPStart at first?     *)
  i,                  (* the loop counter over the handlers                  *)
  got,                (* its taskEventMask: the events it is working off     *)
  taskEventMask,
  handlerEventMask,   (* the handlers that have an event set                 *)
  msgQueue,           (* the handlers its messages are for, in order         *)
  timerQueue,         (* wsfTimerTimerQueue                                  *)
  ticks,              (* of each timer                                       *)
  elapsed,            (* xTaskGetTickCount() - g_ui32LastTime                *)
  bit,                (* of xRadioTaskEventObject                            *)
  xWsfTimer,          (* FreeRTOS timer: [active, left] in clock ticks       *)
  commands,           (* the command queue of the daemon                     *)
  daemon,             (* where the daemon stands                             *)
  covered             (* history: timers known to the last UpdateTicks       *)

events  == <<got, taskEventMask, handlerEventMask, msgQueue>>
timers  == <<timerQueue, ticks, covered>>
freertos == <<bit, xWsfTimer, commands, daemon>>
vars == <<cpu, at, inHandler, i, events, timers, elapsed, freertos>>

Handler == 1 .. WSF_MAX_HANDLERS
Event == {"MSG", "TIMER", "HANDLER"}
HciDrv == 1                              (* the handler the interrupt signals *)
MaxClock == MaxTicks * CLK_TICKS_PER_WSF_TICKS     (* elapsed saturates here *)
SetBitsCall == 0                         (* xTimerPendFunctionCallFromISR     *)
Command == 0 .. MaxClock                 (* that, or a new period             *)

Init ==                      (* after exactle_stack_init, in GPStart, gp_setup *)
  /\ cpu = "RadioTask"
  /\ at = "update" /\ inHandler = TRUE /\ i = 1
  /\ got = {} /\ taskEventMask = {} /\ handlerEventMask = {} /\ msgQueue = <<>>
  /\ timerQueue = <<>> /\ ticks = [t \in Timer |-> 0] /\ covered = {}
  /\ elapsed = 0
  /\ bit = FALSE
  /\ xWsfTimer = [active |-> FALSE, left |-> 0]
  /\ commands = <<>> /\ daemon = "idle"

-----------------------------------------------------------------------------
DaemonReady ==
  \/ commands # <<>>
  \/ xWsfTimer.active /\ xWsfTimer.left = 0
  \/ daemon = "callback"

GoesOn == UNCHANGED cpu
Yields == cpu' = IF DaemonReady' THEN "daemon" ELSE "RadioTask"      (* portYIELD *)

(* xEventGroupSetBits: RadioTask, where it is blocked on the bit, is         *)
(* unblocked and the bit stays clear.                                        *)
xEventGroupSetBits ==
  IF at = "blocked" THEN at' = "update" /\ UNCHANGED bit
                    ELSE bit' = TRUE /\ UNCHANGED at

isStarted(t) == \E k \in DOMAIN timerQueue : timerQueue[k] = t
NextExpiration(left) == IF timerQueue = <<>> THEN 0 ELSE left[Head(timerQueue)]

(* WsfTimerUpdate: subtract the ticks, stopping at zero.                     *)
Expires(t, n) == isStarted(t) /\ ticks[t] <= n
AfterTicks(n) ==
  [t \in Timer |-> IF isStarted(t) /\ ticks[t] > n THEN ticks[t] - n ELSE 0]

NotSignalled(expired) == bit              (* bug: the mask set, the bit not *)
Signalled(expired) == bit \/ expired

(* WsfTimerUpdateTicks up to the next expiration; less than a WSF tick of    *)
(* elapsed time is kept, a remainder is not.                                 *)
WsfTimerUpdateTicks ==
  /\ at = "update" /\ ~inHandler
  /\ LET n == elapsed \div CLK_TICKS_PER_WSF_TICKS
         expired == n > 0 /\ \E t \in Timer : Expires(t, n)
     IN  /\ ticks' = AfterTicks(n)
         /\ elapsed' = IF n > 0 THEN 0 ELSE elapsed
         /\ taskEventMask' = taskEventMask \union (IF expired THEN {"TIMER"} ELSE {})
         /\ bit' = Signalled(expired)
         /\ at' = IF NextExpiration(AfterTicks(n)) > 0 THEN "arm" ELSE "loop"
  /\ covered' = ToSet(timerQueue)
  /\ UNCHANGED <<inHandler, i, got, handlerEventMask, msgQueue, timerQueue,
                 xWsfTimer, commands, daemon>>
  /\ IF taskEventMask' # taskEventMask \/ bit' # bit THEN Yields ELSE GoesOn

(* xTimerChangePeriod, which waits for room in the queue of the daemon.      *)
xTimerChangePeriod ==
  /\ at = "arm"
  /\ Len(commands) < configTIMER_QUEUE_LENGTH
  /\ commands' = Append(commands, NextExpiration(ticks) * CLK_TICKS_PER_WSF_TICKS)
  /\ at' = "loop"
  /\ UNCHANGED <<inHandler, i, events, timers, elapsed, bit, xWsfTimer, daemon>>
  /\ GoesOn

WaitForRoom ==
  /\ at = "arm"
  /\ Len(commands) = configTIMER_QUEUE_LENGTH
  /\ cpu' = "daemon"
  /\ UNCHANGED <<at, inHandler, i, events, timers, elapsed, freertos>>

GetAndClear ==
  /\ at = "loop" /\ taskEventMask # {}
  /\ got' = taskEventMask
  /\ taskEventMask' = {}
  /\ at' = "msg"
  /\ UNCHANGED <<inHandler, i, handlerEventMask, msgQueue, timers, elapsed, freertos>>
  /\ GoesOn

LeaveLoop ==
  /\ at = "loop" /\ taskEventMask = {}
  /\ at' = "wait"
  /\ UNCHANGED <<inHandler, i, events, timers, elapsed, freertos>>
  /\ GoesOn

BitForgotten == FALSE                     (* bug: the bit cleared before the wait *)
BitIsSet == bit

xEventGroupWaitBits ==
  /\ at = "wait"
  /\ at' = IF BitIsSet THEN "update" ELSE "blocked"
  /\ bit' = FALSE
  /\ cpu' = IF BitIsSet THEN "RadioTask" ELSE "daemon"
  /\ UNCHANGED <<inHandler, i, events, timers, elapsed, xWsfTimer, commands, daemon>>

-----------------------------------------------------------------------------
(* The three kinds of work, each until there is none left.                   *)

WsfMsgDeq ==
  /\ at = "msg" /\ ~inHandler
  /\ "MSG" \in got /\ msgQueue # <<>>
  /\ msgQueue' = Tail(msgQueue)
  /\ inHandler' = TRUE
  /\ UNCHANGED <<at, i, got, taskEventMask, handlerEventMask, timers, elapsed, freertos>>
  /\ GoesOn

MsgsDone ==
  /\ at = "msg" /\ ~inHandler
  /\ "MSG" \in got => msgQueue = <<>>
  /\ got' = got \ {"MSG"}
  /\ at' = "timer"
  /\ UNCHANGED <<inHandler, i, taskEventMask, handlerEventMask, msgQueue, timers,
                 elapsed, freertos>>
  /\ GoesOn

HeadExpired == timerQueue # <<>> /\ ticks[Head(timerQueue)] = 0

WsfTimerServiceExpired ==
  /\ at = "timer" /\ ~inHandler
  /\ "TIMER" \in got /\ HeadExpired
  /\ timerQueue' = Tail(timerQueue)
  /\ covered' = covered \ {Head(timerQueue)}
  /\ inHandler' = TRUE
  /\ UNCHANGED <<at, i, events, ticks, elapsed, freertos>>
  /\ GoesOn

TimersDone ==
  /\ at = "timer" /\ ~inHandler
  /\ "TIMER" \in got => ~HeadExpired
  /\ got' = got \ {"TIMER"}
  /\ at' = IF "HANDLER" \in got THEN "events" ELSE "loop"
  /\ i' = 1
  /\ UNCHANGED <<inHandler, taskEventMask, handlerEventMask, msgQueue, timers,
                 elapsed, freertos>>
  /\ GoesOn

LastHandlerMissed == WSF_MAX_HANDLERS - 1           (* bug: off by one *)
LastHandler == WSF_MAX_HANDLERS

HandleEvents ==
  /\ at = "events" /\ ~inHandler
  /\ i <= LastHandler /\ i \in handlerEventMask
  /\ handlerEventMask' = handlerEventMask \ {i}
  /\ inHandler' = TRUE
  /\ UNCHANGED <<at, i, got, taskEventMask, msgQueue, timers, elapsed, freertos>>
  /\ GoesOn

NextHandler ==
  /\ at = "events" /\ ~inHandler
  /\ i <= LastHandler /\ i \notin handlerEventMask
  /\ i' = i + 1
  /\ UNCHANGED <<at, inHandler, events, timers, elapsed, freertos>>
  /\ GoesOn

EventsDone ==
  /\ at = "events" /\ ~inHandler
  /\ i > LastHandler
  /\ got' = {} /\ i' = 1
  /\ at' = "loop"
  /\ UNCHANGED <<inHandler, taskEventMask, handlerEventMask, msgQueue, timers,
                 elapsed, freertos>>
  /\ GoesOn

-----------------------------------------------------------------------------
(* A handler of the BLE stack: it starts and stops timers, sends messages    *)
(* and sets events, any number of each, and returns.                         *)

NotRemoved(q, t) == q                     (* bug: started twice, queued twice *)
Removed(q, t) == RemoveFirst(q, t)

(* wsfTimerInsert: behind the timers that expire no later.                   *)
Inserted(q, t, n) ==
  LET sooner == {k \in DOMAIN q : ticks[q[k]] <= n}
  IN  InsertAt(q, Cardinality(sooner) + 1, t)

WsfTimerStart(t, n) ==
  /\ inHandler
  /\ timerQueue' = Inserted(Removed(timerQueue, t), t, n)
  /\ ticks' = [ticks EXCEPT ![t] = n]
  /\ covered' = covered \ {t}
  /\ UNCHANGED <<at, inHandler, i, events, elapsed, freertos>>
  /\ GoesOn

WsfTimerStop(t) ==
  /\ inHandler
  /\ isStarted(t)
  /\ timerQueue' = Removed(timerQueue, t)
  /\ ticks' = [ticks EXCEPT ![t] = 0]             (* of no use any more *)
  /\ covered' = covered \ {t}
  /\ UNCHANGED <<at, inHandler, i, events, elapsed, freertos>>
  /\ GoesOn

Allocated == Len(msgQueue) + (IF at = "msg" /\ inHandler THEN 1 ELSE 0)

WsfMsgSend(h) ==
  /\ inHandler
  /\ Allocated < MsgBufs
  /\ msgQueue' = Append(msgQueue, h)
  /\ taskEventMask' = taskEventMask \union {"MSG"}
  /\ xEventGroupSetBits
  /\ UNCHANGED <<inHandler, i, got, handlerEventMask, timers, elapsed,
                 xWsfTimer, commands, daemon>>
  /\ Yields

WsfSetEvent(h) ==
  /\ inHandler
  /\ handlerEventMask' = handlerEventMask \union {h}
  /\ taskEventMask' = taskEventMask \union {"HANDLER"}
  /\ xEventGroupSetBits
  /\ UNCHANGED <<inHandler, i, got, msgQueue, timers, elapsed,
                 xWsfTimer, commands, daemon>>
  /\ Yields

Return ==
  /\ inHandler
  /\ inHandler' = FALSE
  /\ UNCHANGED <<at, i, events, timers, elapsed, freertos>>
  /\ GoesOn

-----------------------------------------------------------------------------
(* The BLE interrupt: an event for the HCI driver, and the task set ready    *)
(* once more.  Each asks the daemon to set the bit, if its queue has room.   *)
(* The daemon runs next where it finds the scheduler suspended, as it may be *)
(* in a handler and in xEventGroupWaitBits.                                  *)
am_ble_isr ==
  /\ handlerEventMask' = handlerEventMask \union {HciDrv}
  /\ taskEventMask' = taskEventMask \union {"HANDLER"}
  /\ LET room == configTIMER_QUEUE_LENGTH - Len(commands)
     IN  commands' = commands \o [k \in 1 .. (IF room < 2 THEN room ELSE 2) |-> SetBitsCall]
  /\ UNCHANGED <<at, inHandler, i, got, msgQueue, timers, elapsed,
                 bit, xWsfTimer, daemon>>
  /\ \/ GoesOn
     \/ ~DaemonReady /\ (inHandler \/ at = "update") /\ cpu' = "daemon"

DaemonGoesOn == cpu' = IF ~DaemonReady' /\ at' # "blocked" THEN "RadioTask" ELSE "daemon"

(* The daemon: its commands, until there are none left, and then the         *)
(* callback of an expired timer.                                             *)
WsfTimer_handler ==
  /\ daemon = "idle" /\ commands = <<>>
  /\ xWsfTimer.active /\ xWsfTimer.left = 0
  /\ xWsfTimer' = [active |-> FALSE, left |-> 0]
  /\ taskEventMask' = taskEventMask \union {"TIMER"}
  /\ daemon' = "callback"
  /\ UNCHANGED <<at, inHandler, i, got, handlerEventMask, msgQueue, timers,
                 elapsed, bit, commands>>
  /\ DaemonGoesOn

SignalFromTimer ==
  /\ daemon = "callback"
  /\ xEventGroupSetBits
  /\ daemon' = "idle"
  /\ UNCHANGED <<inHandler, i, events, timers, elapsed, xWsfTimer, commands>>
  /\ cpu' = "RadioTask"

prvProcessReceivedCommands ==
  /\ daemon = "idle"
  /\ commands # <<>>
  /\ commands' = Tail(commands)
  /\ IF Head(commands) = SetBitsCall
       THEN xEventGroupSetBits /\ UNCHANGED xWsfTimer
       ELSE /\ xWsfTimer' = [active |-> TRUE, left |-> Head(commands)]
            /\ UNCHANGED <<at, bit>>
  /\ UNCHANGED <<inHandler, i, events, timers, elapsed, daemon>>
  /\ DaemonGoesOn

ClockTick ==
  /\ elapsed' = IF elapsed < MaxClock THEN elapsed + 1 ELSE elapsed
  /\ xWsfTimer' = [xWsfTimer EXCEPT !.left = IF @ > 0 THEN @ - 1 ELSE @]
  /\ UNCHANGED <<at, inHandler, i, events, timers, bit, commands, daemon>>
  /\ cpu' = IF ~DaemonReady /\ DaemonReady' THEN "daemon" ELSE cpu

wsfOsDispatcher ==
  \/ WsfTimerUpdateTicks \/ xTimerChangePeriod \/ WaitForRoom
  \/ GetAndClear \/ LeaveLoop \/ xEventGroupWaitBits
  \/ WsfMsgDeq \/ MsgsDone
  \/ WsfTimerServiceExpired \/ TimersDone
  \/ HandleEvents \/ NextHandler \/ EventsDone

AHandler ==
  \/ \E t \in Timer : WsfTimerStop(t) \/ \E n \in 1 .. MaxTicks : WsfTimerStart(t, n)
  \/ \E h \in Handler : WsfMsgSend(h) \/ WsfSetEvent(h)
  \/ Return

RadioTask == cpu = "RadioTask" /\ (wsfOsDispatcher \/ AHandler)
Daemon ==
  cpu = "daemon" /\ (WsfTimer_handler \/ SignalFromTimer \/ prvProcessReceivedCommands)

Next == RadioTask \/ Daemon \/ am_ble_isr \/ ClockTick
Spec == Init /\ [][Next]_vars

(* The task that has the processor runs, and the clock ticks; no interrupt   *)
(* is assumed.                                                               *)
Fairness == WF_vars(RadioTask) /\ WF_vars(Daemon) /\ WF_vars(ClockTick)
FairSpec == Spec /\ Fairness

-----------------------------------------------------------------------------
TypeOK ==
  /\ cpu \in {"RadioTask", "daemon"}
  /\ at \in {"update", "arm", "loop", "msg", "timer", "events", "wait", "blocked"}
  /\ inHandler \in BOOLEAN
  /\ i \in 1 .. WSF_MAX_HANDLERS + 1
  /\ got \subseteq Event /\ taskEventMask \subseteq Event
  /\ handlerEventMask \subseteq Handler
  /\ msgQueue \in Seq(Handler) /\ Allocated <= MsgBufs
  /\ timerQueue \in Seq(Timer)
  /\ ticks \in [Timer -> 0 .. MaxTicks]
  /\ elapsed \in 0 .. MaxClock
  /\ bit \in BOOLEAN
  /\ xWsfTimer \in [active : BOOLEAN, left : 0 .. MaxClock]
  /\ commands \in Seq(Command) /\ Len(commands) <= configTIMER_QUEUE_LENGTH
  /\ daemon \in {"idle", "callback"}
  /\ covered \subseteq Timer

(* RadioTask never sleeps through work: when it is blocked, or about to      *)
(* block with the bit clear, and the task event mask is not empty, the       *)
(* daemon has yet to set the bit.  That holds although an interrupt that     *)
(* finds the command queue full drops its call (wsf_os.c:184-196): RadioTask *)
(* fills at most two places of it with periods before the daemon runs, so a  *)
(* full queue holds such a call; a queue of two would not do.                *)
WakeupComing ==
  \/ daemon = "callback"
  \/ \E k \in DOMAIN commands : commands[k] = SetBitsCall
NoLostWakeup ==
  at = "blocked" \/ (at = "wait" /\ ~bit) => taskEventMask = {} \/ WakeupComing

(* Nothing is left behind by the clearing of the masks, whoever set them in  *)
(* the meantime: a message and an event of a handler each are in the mask,   *)
(* or in the part of its copy RadioTask has yet to work off                  *)
(* (wsf_os.c:377-421).                                                       *)
WorkIsPending ==
  /\ msgQueue # <<>> => "MSG" \in taskEventMask \union got
  /\ \A h \in handlerEventMask :
       \/ "HANDLER" \in taskEventMask
       \/ "HANDLER" \in got /\ (at = "events" => i <= h)

(* A timer is in the queue once at most, however often it is restarted, and  *)
(* the queue is in the order of expiration, which alone makes it enough to   *)
(* look at its head (wsf_timer.c:101-136, 298-301, 332-333).                 *)
TimersInOrder ==
  /\ IsInjective(timerQueue)
  /\ \A k \in 1 .. Len(timerQueue) - 1 : ticks[timerQueue[k]] <= ticks[timerQueue[k + 1]]

(* The handlers leave the dispatcher time to go idle, and at last there is   *)
(* no interrupt any more: none that starves the tasks, none that wakes them. *)
GoesIdle == []<>(at \in {"wait", "blocked"})
RadioGoesQuiet == <>[][~am_ble_isr]_vars

(* Every event set and every message sent is handled.                        *)
WorkIsDone ==
  GoesIdle /\ RadioGoesQuiet =>
              /\ \A h \in Handler : h \in handlerEventMask ~> h \notin handlerEventMask
              /\ msgQueue # <<>> ~> msgQueue = <<>>

(* Every timer WsfTimerUpdateTicks has seen is served, unless it is stopped  *)
(* or restarted, with no interrupt to help: also those behind the head, for  *)
(* which nothing is armed while the head is expired.                         *)
SeenTimersExpire ==
  GoesIdle /\ RadioGoesQuiet => \A t \in Timer : t \in covered ~> t \notin covered
=============================================================================
