----------------------------- MODULE WsfOsProofs -----------------------------
(***************************************************************************)
(* Proofs about the dispatcher of WsfOs, for any number of handlers, any   *)
(* timers and messages, and a command queue of three or more.              *)
(*                                                                         *)
(* Each invariant has as much of the types as it needs: of the command     *)
(* queue that it is a sequence, of the timer queue that it is of timers.   *)
(***************************************************************************)
EXTENDS WsfOs, FiniteSetTheorems, SequenceTheorems, WellFoundedInduction, TLAPS

-----------------------------------------------------------------------------
(* Work that is pending.                                                     *)

GotByNow ==
  /\ got \subseteq Event
  /\ at \in {"update", "arm", "loop", "wait", "blocked"} => got = {}
  /\ at = "timer" => got \subseteq {"TIMER", "HANDLER"}
  /\ at = "events" => got \subseteq {"HANDLER"}

WorkType ==
  /\ i \in Nat
  /\ taskEventMask \subseteq Event
  /\ handlerEventMask \subseteq Handler

PendingInv == WorkType /\ GotByNow /\ WorkIsPending

LEMMA PendingInit == Init => PendingInv
BY DEF Init, PendingInv, WorkType, GotByNow, WorkIsPending, Event, Handler

LEMMA PendingDispatcher ==
  ASSUME PendingInv, wsfOsDispatcher
  PROVE  PendingInv'
<1> USE DEF PendingInv, WorkType, GotByNow, WorkIsPending, Event
<1>1. CASE WsfTimerUpdateTicks
  BY <1>1 DEF WsfTimerUpdateTicks
<1>2. CASE xTimerChangePeriod \/ WaitForRoom
  BY <1>2 DEF xTimerChangePeriod, WaitForRoom, events
<1>3. CASE GetAndClear
  BY <1>3 DEF GetAndClear
<1>4. CASE LeaveLoop \/ xEventGroupWaitBits
  BY <1>4 DEF LeaveLoop, xEventGroupWaitBits, events
<1>5. CASE WsfMsgDeq
  BY <1>5 DEF WsfMsgDeq
<1>6. CASE MsgsDone
  BY <1>6 DEF MsgsDone
<1>7. CASE WsfTimerServiceExpired
  BY <1>7 DEF WsfTimerServiceExpired, events
<1>8. CASE TimersDone
  BY <1>8, WsfAssumption DEF TimersDone, Handler
<1>9. CASE HandleEvents
  BY <1>9 DEF HandleEvents, Handler
<1>10. CASE NextHandler
  BY <1>10 DEF NextHandler, events, Handler
<1>11. CASE EventsDone
  BY <1>11, WsfAssumption DEF EventsDone, Handler, LastHandler
<1>12. QED
  BY <1>1, <1>2, <1>3, <1>4, <1>5, <1>6, <1>7, <1>8, <1>9, <1>10, <1>11
  DEF wsfOsDispatcher

LEMMA PendingHandler ==
  ASSUME PendingInv, AHandler
  PROVE  PendingInv'
<1> USE DEF PendingInv, WorkType, GotByNow, WorkIsPending, Event
<1>1. CASE \E t \in Timer : WsfTimerStop(t) \/ \E n \in 1 .. MaxTicks : WsfTimerStart(t, n)
  BY <1>1 DEF WsfTimerStop, WsfTimerStart, events
<1>2. ASSUME NEW h \in Handler, WsfMsgSend(h) PROVE PendingInv'
  BY <1>2 DEF WsfMsgSend, xEventGroupSetBits
<1>3. ASSUME NEW h \in Handler, WsfSetEvent(h) PROVE PendingInv'
  BY <1>3 DEF WsfSetEvent, xEventGroupSetBits
<1>4. CASE Return
  BY <1>4 DEF Return, events
<1>5. QED
  BY <1>1, <1>2, <1>3, <1>4 DEF AHandler

LEMMA PendingOthers ==
  ASSUME PendingInv, Daemon \/ am_ble_isr \/ ClockTick \/ UNCHANGED vars
  PROVE  PendingInv'
<1> USE DEF PendingInv, WorkType, GotByNow, WorkIsPending, Event
<1>1. CASE WsfTimer_handler
  BY <1>1 DEF WsfTimer_handler
<1>2. CASE SignalFromTimer \/ prvProcessReceivedCommands
  BY <1>2 DEF SignalFromTimer, prvProcessReceivedCommands, xEventGroupSetBits, events
<1>3. CASE am_ble_isr
  BY <1>3, WsfAssumption DEF am_ble_isr, Handler, HciDrv
<1>4. CASE ClockTick \/ UNCHANGED vars
  BY <1>4 DEF ClockTick, vars, events
<1>5. QED
  BY <1>1, <1>2, <1>3, <1>4 DEF Daemon

(* No message and no event of a handler is forgotten, for any number of      *)
(* handlers (wsf_os.c:377-421).                                              *)
THEOREM WorkStaysPending == Spec => []WorkIsPending
<1>1. ASSUME PendingInv, [Next]_vars PROVE PendingInv'
  BY <1>1, PendingDispatcher, PendingHandler, PendingOthers DEF Next, RadioTask
<1>2. PendingInv => WorkIsPending
  BY DEF PendingInv
<1>3. QED
  BY PendingInit, <1>1, <1>2, PTL DEF Spec

-----------------------------------------------------------------------------
(* Wakeups.  Of the command queue it matters how many of its places have a   *)
(* period.                                                                   *)

Period(k) == commands[k] # SetBitsCall
NoPeriod == \A k \in DOMAIN commands : ~Period(k)
OnePeriod == \A j, k \in DOMAIN commands : j < k => ~Period(j) \/ ~Period(k)
TwoPeriods ==
  \A j, k, l \in DOMAIN commands : j < k /\ k < l => ~Period(j) \/ ~Period(k) \/ ~Period(l)

AboutToArm == at \in {"update", "arm"}

(* RadioTask adds a period in each round of its loop.  It comes to another   *)
(* round when the bit is set, which it does not set itself without making    *)
(* way for the daemon; so that it adds two at most, one of them if it is     *)
(* about to add another, or free to go round, and none if both.              *)
QueueInv ==
  /\ \E S : commands \in Seq(S)
  /\ Len(commands) <= configTIMER_QUEUE_LENGTH
  /\ bit \in BOOLEAN
  /\ TwoPeriods
  /\ daemon = "callback" => cpu = "daemon" /\ NoPeriod
  /\ cpu = "RadioTask" =>
       /\ AboutToArm \/ bit => OnePeriod
       /\ AboutToArm /\ bit => NoPeriod

WakeupInv == QueueInv /\ NoLostWakeup

LEMMA FewPeriods == (NoPeriod => OnePeriod) /\ (OnePeriod => TwoPeriods)
BY DEF NoPeriod, OnePeriod, TwoPeriods

(* A command at the end of the queue.                                        *)
LEMMA Appended ==
  ASSUME NEW c, \E S : commands \in Seq(S), commands' = Append(commands, c)
  PROVE  /\ \E S : commands' \in Seq(S)
         /\ Len(commands') = Len(commands) + 1
         /\ NoPeriod => OnePeriod'
         /\ OnePeriod => TwoPeriods'
         /\ WakeupComing /\ UNCHANGED daemon => WakeupComing'
<1>1. PICK S : commands \in Seq(S)
  OBVIOUS
<1>2. commands \in Seq(S \cup {c}) /\ c \in S \cup {c}
  BY <1>1
<1>3. /\ commands' \in Seq(S \cup {c})
      /\ Len(commands') = Len(commands) + 1
      /\ DOMAIN commands = 1 .. Len(commands) /\ Len(commands) \in Nat
      /\ DOMAIN commands' = 1 .. Len(commands) + 1
      /\ \A k \in DOMAIN commands : commands'[k] = commands[k]
  BY <1>2
<1>4. QED
  BY <1>3 DEF NoPeriod, OnePeriod, TwoPeriods, Period, WakeupComing, SetBitsCall

(* The calls of an interrupt at the end of the queue.                        *)
LEMMA CallsAppended ==
  ASSUME NEW n \in Nat, \E S : commands \in Seq(S),
         commands' = commands \o [k \in 1 .. n |-> SetBitsCall]
  PROVE  /\ \E S : commands' \in Seq(S)
         /\ Len(commands') = Len(commands) + n
         /\ NoPeriod => NoPeriod'
         /\ OnePeriod => OnePeriod'
         /\ TwoPeriods => TwoPeriods'
         /\ WakeupComing /\ UNCHANGED daemon => WakeupComing'
         /\ n > 0 => WakeupComing'
<1> DEFINE calls == [k \in 1 .. n |-> SetBitsCall]
<1>1. PICK S : commands \in Seq(S)
  OBVIOUS
<1>2. commands \in Seq(S \cup {SetBitsCall}) /\ calls \in Seq(S \cup {SetBitsCall})
  BY <1>1
<1>3. Len(calls) = n
  OBVIOUS
<1>4. /\ commands' \in Seq(S \cup {SetBitsCall})
      /\ Len(commands') = Len(commands) + n
      /\ DOMAIN commands = 1 .. Len(commands) /\ Len(commands) \in Nat
      /\ DOMAIN commands' = 1 .. Len(commands) + n
      /\ \A k \in DOMAIN commands : commands'[k] = commands[k]
      /\ \A k \in DOMAIN commands' : k \notin DOMAIN commands => commands'[k] = SetBitsCall
  BY <1>2, <1>3
<1> HIDE DEF calls
<1>5. /\ NoPeriod => NoPeriod'
      /\ OnePeriod => OnePeriod'
      /\ TwoPeriods => TwoPeriods'
  BY <1>4 DEF NoPeriod, OnePeriod, TwoPeriods, Period
<1>6. n > 0 => WakeupComing'
  BY <1>4 DEF WakeupComing
<1>7. QED
  BY <1>4, <1>5, <1>6 DEF WakeupComing

(* A command taken from the head.                                            *)
LEMMA Taken ==
  ASSUME \E S : commands \in Seq(S), commands # <<>>, commands' = Tail(commands)
  PROVE  /\ \E S : commands' \in Seq(S)
         /\ Len(commands') = Len(commands) - 1
         /\ TwoPeriods => TwoPeriods'
         /\ commands' = <<>> => NoPeriod'
         /\ WakeupComing /\ UNCHANGED daemon /\ Head(commands) # SetBitsCall => WakeupComing'
<1>1. PICK S : commands \in Seq(S)
  OBVIOUS
<1>2. /\ commands' \in Seq(S)
      /\ Len(commands') = Len(commands) - 1
      /\ DOMAIN commands = 1 .. Len(commands) /\ Len(commands) \in Nat \ {0}
      /\ DOMAIN commands' = 1 .. Len(commands) - 1
      /\ \A k \in DOMAIN commands' : commands'[k] = commands[k + 1]
      /\ Head(commands) = commands[1]
  BY <1>1
<1>3. TwoPeriods => TwoPeriods'
  BY <1>2 DEF TwoPeriods, Period
<1>4. commands' = <<>> => NoPeriod'
  BY <1>2 DEF NoPeriod
<1>5. ASSUME WakeupComing, UNCHANGED daemon, Head(commands) # SetBitsCall
      PROVE  WakeupComing'
  <2>1. CASE daemon = "callback"
    BY <1>5, <2>1 DEF WakeupComing
  <2>2. CASE \E k \in DOMAIN commands : commands[k] = SetBitsCall
    <3>1. PICK k \in DOMAIN commands : commands[k] = SetBitsCall
      BY <2>2
    <3>2. k - 1 \in DOMAIN commands' /\ commands'[k - 1] = SetBitsCall
      BY <1>2, <1>5, <3>1
    <3>3. QED
      BY <3>2 DEF WakeupComing
  <2>3. QED
    BY <1>5, <2>1, <2>2 DEF WakeupComing
<1>6. QED
  BY <1>2, <1>3, <1>4, <1>5

(* A queue without room has a call in it.                                    *)
LEMMA FullQueue ==
  ASSUME QueueInv, Len(commands) >= configTIMER_QUEUE_LENGTH
  PROVE  WakeupComing
<1>1. Len(commands) >= 3 /\ DOMAIN commands = 1 .. Len(commands) /\ Len(commands) \in Nat
  BY WsfAssumption DEF QueueInv
<1>2. 1 \in DOMAIN commands /\ 2 \in DOMAIN commands /\ 3 \in DOMAIN commands
  BY <1>1
<1>3. QED
  BY <1>2 DEF QueueInv, TwoPeriods, Period, WakeupComing

-----------------------------------------------------------------------------
(* The queue as it is, or shared as it is.                                   *)
LEMMA SameQueue ==
  ASSUME QueueInv, UNCHANGED <<commands, daemon>>
  PROVE  /\ \E S : commands' \in Seq(S)
         /\ Len(commands') <= configTIMER_QUEUE_LENGTH
         /\ TwoPeriods' /\ (NoPeriod' <=> NoPeriod) /\ (OnePeriod' <=> OnePeriod)
         /\ WakeupComing' <=> WakeupComing
BY DEF QueueInv, TwoPeriods, OnePeriod, NoPeriod, Period, WakeupComing

LEMMA WakeupInit == Init => WakeupInv
<1> SUFFICES ASSUME Init PROVE WakeupInv
  OBVIOUS
<1>1. commands = <<>> /\ bit = FALSE /\ daemon = "idle" /\ taskEventMask = {}
  BY DEF Init
<1>2. <<>> \in Seq({}) /\ Len(<<>>) = 0 /\ DOMAIN <<>> = {}
  OBVIOUS
<1>3. NoPeriod /\ OnePeriod /\ TwoPeriods
  BY <1>1, <1>2 DEF NoPeriod, OnePeriod, TwoPeriods
<1>4. (\E S : commands \in Seq(S)) /\ Len(commands) <= configTIMER_QUEUE_LENGTH
  BY <1>1, <1>2, WsfAssumption
<1>5. QED
  BY <1>1, <1>3, <1>4 DEF WakeupInv, QueueInv, NoLostWakeup

(* RadioTask makes way for the daemon where there is anything in its queue.  *)
LEMMA Yielding ==
  ASSUME QueueInv, Yields, UNCHANGED <<commands, daemon>>
  PROVE  cpu' = "RadioTask" => NoPeriod' /\ daemon' # "callback"
<1>1. SUFFICES ASSUME cpu' = "RadioTask"
               PROVE  commands' = <<>> /\ daemon' # "callback"
  BY DEF NoPeriod
<1>2. ~DaemonReady'
  BY <1>1 DEF Yields
<1>3. QED
  BY <1>2, Zenon DEF DaemonReady

(* The bit and the place of RadioTask after xEventGroupSetBits.              *)
LEMMA BitsSet ==
  ASSUME QueueInv, xEventGroupSetBits
  PROVE  bit' \in BOOLEAN /\ ~(at' = "blocked" \/ (at' = "wait" /\ ~bit'))
BY DEF QueueInv, xEventGroupSetBits

LEMMA WakeupDispatcher ==
  ASSUME WakeupInv, cpu = "RadioTask", wsfOsDispatcher
  PROVE  WakeupInv'
<1> USE DEF WakeupInv
<1>1. daemon # "callback" /\ (AboutToArm \/ bit => OnePeriod) /\ (AboutToArm /\ bit => NoPeriod)
  BY DEF QueueInv
<1>2. CASE WsfTimerUpdateTicks
  <2>1. UNCHANGED <<commands, daemon>> /\ bit' \in BOOLEAN /\ at' \in {"arm", "loop"}
    BY <1>2 DEF WsfTimerUpdateTicks, Signalled, QueueInv
  <2>2. at = "update" /\ AboutToArm
    BY <1>2 DEF WsfTimerUpdateTicks, AboutToArm
  <2>3. CASE bit' # bit
    <3>1. Yields
      BY <1>2, <2>3 DEF WsfTimerUpdateTicks
    <3>2. cpu' = "RadioTask" => NoPeriod'
      BY <2>1, <3>1, Yielding
    <3>3. QED
      BY <2>1, <3>2, <1>1, SameQueue DEF QueueInv, NoLostWakeup, AboutToArm, NoPeriod, OnePeriod
  <2>4. CASE bit' = bit
    BY <2>1, <2>2, <2>4, <1>1, SameQueue DEF QueueInv, NoLostWakeup, AboutToArm
  <2>5. QED
    BY <2>3, <2>4
<1>3. CASE xTimerChangePeriod
  <2>1. /\ at = "arm" /\ at' = "loop" /\ UNCHANGED <<bit, daemon, cpu>>
        /\ Len(commands) < configTIMER_QUEUE_LENGTH
        /\ commands' = Append(commands, NextExpiration(ticks) * CLK_TICKS_PER_WSF_TICKS)
    BY <1>3 DEF xTimerChangePeriod, GoesOn
  <2>2. /\ \E S : commands' \in Seq(S)
        /\ Len(commands') = Len(commands) + 1
        /\ NoPeriod => OnePeriod'
        /\ OnePeriod => TwoPeriods'
    BY <2>1, Appended DEF QueueInv
  <2>3. Len(commands) \in Nat /\ configTIMER_QUEUE_LENGTH \in Nat
    BY WsfAssumption DEF QueueInv
  <2>4. OnePeriod /\ (bit => NoPeriod)
    BY <1>1, <2>1 DEF AboutToArm
  <2>5. QED
    BY <1>1, <2>1, <2>2, <2>3, <2>4 DEF QueueInv, NoLostWakeup, AboutToArm
<1>4. CASE WaitForRoom
  <2>1. UNCHANGED <<commands, daemon, bit, at>> /\ cpu' = "daemon" /\ at = "arm"
    BY <1>4 DEF WaitForRoom, freertos
  <2>2. QED
    BY <1>1, <2>1, SameQueue DEF QueueInv, NoLostWakeup
<1>5. CASE xEventGroupWaitBits
  <2>1. /\ at = "wait" /\ bit' = FALSE /\ UNCHANGED <<commands, daemon, taskEventMask>>
        /\ bit => at' = "update" /\ cpu' = "RadioTask"
        /\ ~bit => at' = "blocked" /\ cpu' = "daemon"
    BY <1>5 DEF xEventGroupWaitBits, BitIsSet, events
  <2>2. ~bit => taskEventMask = {} \/ WakeupComing
    BY <2>1 DEF NoLostWakeup
  <2>3. bit => OnePeriod
    BY <1>1
  <2>4. QED
    BY <1>1, <2>1, <2>2, <2>3, SameQueue DEF QueueInv, NoLostWakeup
<1>6. CASE LeaveLoop
  <2>1. /\ UNCHANGED <<commands, daemon, bit, cpu, taskEventMask>>
        /\ at = "loop" /\ at' = "wait" /\ taskEventMask = {}
    BY <1>6 DEF LeaveLoop, freertos, events, GoesOn
  <2>2. QED
    BY <1>1, <2>1, SameQueue DEF QueueInv, NoLostWakeup, AboutToArm
<1>7. CASE \/ GetAndClear \/ WsfMsgDeq \/ MsgsDone \/ WsfTimerServiceExpired
           \/ TimersDone \/ HandleEvents \/ NextHandler \/ EventsDone
  <2>1. /\ UNCHANGED <<commands, daemon, bit, cpu>>
        /\ at' \in {"loop", "msg", "timer", "events"}
    BY <1>7 DEF GetAndClear, WsfMsgDeq, MsgsDone, WsfTimerServiceExpired, TimersDone,
                HandleEvents, NextHandler, EventsDone, freertos, GoesOn
  <2>2. at \in {"loop", "msg", "timer", "events"}
    BY <1>7 DEF GetAndClear, WsfMsgDeq, MsgsDone, WsfTimerServiceExpired, TimersDone,
                HandleEvents, NextHandler, EventsDone
  <2>3. QED
    BY <1>1, <2>1, <2>2, SameQueue DEF QueueInv, NoLostWakeup, AboutToArm
<1>8. QED
  BY <1>2, <1>3, <1>4, <1>5, <1>6, <1>7 DEF wsfOsDispatcher

LEMMA WakeupHandler ==
  ASSUME WakeupInv, cpu = "RadioTask", AHandler
  PROVE  WakeupInv'
<1> USE DEF WakeupInv
<1>1. CASE (\E t \in Timer : WsfTimerStop(t) \/ \E n \in 1 .. MaxTicks : WsfTimerStart(t, n))
           \/ Return
  <2>1. UNCHANGED <<commands, daemon, bit, cpu, at, taskEventMask>>
    BY <1>1 DEF WsfTimerStop, WsfTimerStart, Return, freertos, events, GoesOn
  <2>2. QED
    BY <2>1, SameQueue DEF QueueInv, NoLostWakeup, AboutToArm
<1>2. CASE \E h \in Handler : WsfMsgSend(h) \/ WsfSetEvent(h)
  <2>1. UNCHANGED <<commands, daemon>> /\ xEventGroupSetBits /\ Yields
    BY <1>2 DEF WsfMsgSend, WsfSetEvent
  <2>2. daemon # "callback"
    BY DEF QueueInv
  <2>3. cpu' = "RadioTask" => NoPeriod'
    BY <2>1, Yielding
  <2>4. bit' \in BOOLEAN /\ NoLostWakeup'
    BY <2>1, BitsSet DEF NoLostWakeup
  <2>5. NoPeriod' => OnePeriod'
    BY DEF NoPeriod, OnePeriod
  <2>6. QED
    BY <2>1, <2>2, <2>3, <2>4, <2>5, SameQueue DEF QueueInv
<1>3. QED
  BY <1>1, <1>2 DEF AHandler

LEMMA WakeupInterrupt ==
  ASSUME WakeupInv, am_ble_isr
  PROVE  WakeupInv'
<1> USE DEF WakeupInv
<1> DEFINE room == configTIMER_QUEUE_LENGTH - Len(commands)
           n == IF room < 2 THEN room ELSE 2
<1>1. /\ UNCHANGED <<at, bit, daemon>>
      /\ commands' = commands \o [k \in 1 .. n |-> SetBitsCall]
      /\ cpu' = cpu \/ cpu' = "daemon"
  BY DEF am_ble_isr, GoesOn
<1>2. Len(commands) \in Nat /\ configTIMER_QUEUE_LENGTH \in Nat
  BY WsfAssumption DEF QueueInv
<1>3. n \in Nat /\ n <= room /\ (n = 0 => Len(commands) >= configTIMER_QUEUE_LENGTH)
  BY <1>2 DEF QueueInv
<1> HIDE DEF n
<1>4. /\ \E S : commands' \in Seq(S)
      /\ Len(commands') = Len(commands) + n
      /\ NoPeriod => NoPeriod'
      /\ OnePeriod => OnePeriod'
      /\ TwoPeriods => TwoPeriods'
      /\ WakeupComing => WakeupComing'
      /\ n > 0 => WakeupComing'
  BY <1>1, <1>3, CallsAppended DEF QueueInv
<1>5. Len(commands') <= configTIMER_QUEUE_LENGTH
  BY <1>2, <1>3, <1>4
<1>6. WakeupComing'
  BY <1>3, <1>4, FullQueue
<1>7. NoLostWakeup'
  BY <1>6 DEF NoLostWakeup
<1>8. QED
  BY <1>1, <1>4, <1>5, <1>7 DEF QueueInv, AboutToArm

LEMMA WakeupDaemon ==
  ASSUME WakeupInv, Daemon
  PROVE  WakeupInv'
<1> USE DEF WakeupInv
<1>1. CASE WsfTimer_handler
  <2>1. /\ commands = <<>> /\ UNCHANGED <<commands, bit>> /\ daemon' = "callback"
        /\ DaemonGoesOn
    BY <1>1 DEF WsfTimer_handler
  <2>2. DaemonReady'
    BY <2>1, Zenon DEF DaemonReady
  <2>3. cpu' = "daemon"
    BY <2>1, <2>2 DEF DaemonGoesOn
  <2>4. DOMAIN commands = {}
    BY <2>1
  <2>5. NoPeriod' /\ TwoPeriods' /\ WakeupComing'
    BY <2>1, <2>4 DEF NoPeriod, TwoPeriods, WakeupComing
  <2>6. QED
    BY <2>1, <2>3, <2>5 DEF QueueInv, NoLostWakeup
<1>2. CASE SignalFromTimer
  <2>1. /\ daemon = "callback" /\ daemon' = "idle" /\ UNCHANGED commands
        /\ xEventGroupSetBits
    BY <1>2 DEF SignalFromTimer
  <2>2. NoPeriod
    BY <2>1 DEF QueueInv
  <2>3. NoPeriod' /\ OnePeriod' /\ TwoPeriods'
    BY <2>1, <2>2 DEF NoPeriod, OnePeriod, TwoPeriods, Period
  <2>4. bit' \in BOOLEAN /\ NoLostWakeup'
    BY <2>1, BitsSet DEF NoLostWakeup
  <2>5. QED
    BY <2>1, <2>3, <2>4 DEF QueueInv
<1>3. CASE prvProcessReceivedCommands
  <2>1. /\ daemon = "idle" /\ commands # <<>> /\ commands' = Tail(commands)
        /\ UNCHANGED <<daemon, taskEventMask>> /\ DaemonGoesOn
    BY <1>3 DEF prvProcessReceivedCommands, events
  <2>2. /\ \E S : commands' \in Seq(S)
        /\ Len(commands') = Len(commands) - 1
        /\ TwoPeriods'
        /\ commands' = <<>> => NoPeriod'
        /\ WakeupComing /\ Head(commands) # SetBitsCall => WakeupComing'
    BY <2>1, Taken DEF QueueInv
  <2>3. Len(commands) \in Nat /\ configTIMER_QUEUE_LENGTH \in Nat
    BY WsfAssumption DEF QueueInv
  <2>4. cpu' = "RadioTask" => NoPeriod' /\ OnePeriod'
    <3>1. SUFFICES ASSUME cpu' = "RadioTask" PROVE commands' = <<>>
      BY <2>2 DEF NoPeriod, OnePeriod
    <3>2. ~DaemonReady'
      BY <2>1, <3>1 DEF DaemonGoesOn
    <3>3. QED
      BY <3>2, Zenon DEF DaemonReady
  <2>5. bit' \in BOOLEAN /\ NoLostWakeup'
    <3>1. CASE Head(commands) = SetBitsCall
      <4>1. xEventGroupSetBits
        BY <1>3, <3>1 DEF prvProcessReceivedCommands
      <4>2. QED
        BY <4>1, BitsSet DEF NoLostWakeup
    <3>2. CASE Head(commands) # SetBitsCall
      <4>1. UNCHANGED <<at, bit>>
        BY <1>3, <3>2 DEF prvProcessReceivedCommands
      <4>2. QED
        BY <2>1, <2>2, <3>2, <4>1 DEF NoLostWakeup, QueueInv
    <3>3. QED
      BY <3>1, <3>2
  <2>6. QED
    BY <2>1, <2>2, <2>3, <2>4, <2>5 DEF QueueInv
<1>4. QED
  BY <1>1, <1>2, <1>3 DEF Daemon

LEMMA WakeupClock ==
  ASSUME WakeupInv, ClockTick \/ UNCHANGED vars
  PROVE  WakeupInv'
<1>1. UNCHANGED <<commands, daemon, bit, at, taskEventMask>> /\ (cpu' = cpu \/ cpu' = "daemon")
  <2>1. CASE ClockTick
    BY <2>1, Zenon DEF ClockTick, events
  <2>2. CASE UNCHANGED vars
    BY <2>2 DEF vars, events, freertos
  <2>3. QED
    BY <2>1, <2>2
<1>2. QED
  BY <1>1, SameQueue DEF WakeupInv, QueueInv, NoLostWakeup, AboutToArm

(* RadioTask never sleeps through work, for any number of handlers and       *)
(* timers, in every order of dispatcher, daemon and interrupts, if the       *)
(* command queue of the daemon has three places (wsf_os.c:184-196, 423).     *)
THEOREM NoWakeupLost == Spec => []NoLostWakeup
<1>1. ASSUME WakeupInv, [Next]_vars PROVE WakeupInv'
  BY <1>1, WakeupDispatcher, WakeupHandler, WakeupInterrupt, WakeupDaemon, WakeupClock
  DEF Next, RadioTask
<1>2. WakeupInv => NoLostWakeup
  BY DEF WakeupInv
<1>3. QED
  BY WakeupInit, <1>1, <1>2, PTL DEF Spec

-----------------------------------------------------------------------------
(* The timer queue.                                                          *)

LEMMA Smallest ==
  ASSUME NEW T \in SUBSET Nat, T # {}
  PROVE  \E x \in T : \A y \in T : x <= y
<1>1. PICK x \in T : \A y \in T : ~ (<<y, x>> \in OpToRel(<, Nat))
  BY NatLessThanWellFounded, WFMin
<1>2. ASSUME NEW y \in T PROVE x <= y
  <2>1. <<y, x>> \in Nat \X Nat /\ <<y, x>>[1] = y /\ <<y, x>>[2] = x
    OBVIOUS
  <2>2. ~ (y < x)
    BY <1>1, <2>1, Zenon DEF OpToRel
  <2>3. QED
    BY <2>2
<1>3. QED
  BY <1>2

(* wsfTimerRemove takes the one place of the timer out, or there is none.    *)
RemovedAt(q, r, k) ==
  /\ Len(r) = Len(q) - 1
  /\ \A j \in 1 .. k - 1 : r[j] = q[j]
  /\ \A j \in k .. Len(q) - 1 : r[j] = q[j + 1]

LEMMA RemovedIs ==
  ASSUME NEW q \in Seq(Timer), NEW t \in Timer
  PROVE  /\ Removed(q, t) \in Seq(Timer)
         /\ \/ Removed(q, t) = q /\ \A k \in 1 .. Len(q) : q[k] # t
            \/ \E k \in 1 .. Len(q) : q[k] = t /\ RemovedAt(q, Removed(q, t), k)
<1>1. CASE ~ \E k \in 1 .. Len(q) : q[k] = t
  BY <1>1 DEF Removed, RemoveFirst
<1>2. CASE \E k \in 1 .. Len(q) : q[k] = t
  <2> DEFINE I == {k \in 1 .. Len(q) : q[k] = t}
             k == Min(I)
  <2>1. Len(q) \in Nat
    OBVIOUS
  <2>2. I # {} /\ I \subseteq Nat
    BY <1>2, <2>1
  <2>3. Removed(q, t) = RemoveAt(q, k)
    BY <1>2, <2>2 DEF Removed, RemoveFirst, SelectInSeq
  <2>4. k \in I
    <3> HIDE DEF I
    <3>1. \E x \in I : \A y \in I : x <= y
      BY <2>2, Smallest
    <3>2. QED
      BY <3>1, Zenon DEF Min
  <2>5. k \in 1 .. Len(q) /\ q[k] = t
    BY <2>4
  <2> HIDE DEF k, I
  <2> DEFINE a == SubSeq(q, 1, k - 1)
             b == SubSeq(q, k + 1, Len(q))
  <2>6. /\ a \in Seq(Timer) /\ Len(a) = k - 1
        /\ \A j \in 1 .. k - 1 : a[j] = q[j]
    BY <2>1, <2>5
  <2>7. /\ b \in Seq(Timer) /\ Len(b) = Len(q) - k
        /\ \A j \in 1 .. Len(q) - k : b[j] = q[k + j]
    BY <2>1, <2>5
  <2>8. Removed(q, t) = a \o b
    BY <2>3 DEF RemoveAt
  <2> HIDE DEF a, b
  <2>9. /\ a \o b \in Seq(Timer) /\ Len(a \o b) = Len(q) - 1
        /\ \A j \in 1 .. k - 1 : (a \o b)[j] = a[j]
        /\ \A j \in k .. Len(q) - 1 : (a \o b)[j] = b[j - (k - 1)]
    <3>1. a \o b \in Seq(Timer) /\ Len(a \o b) = Len(q) - 1
      BY <2>1, <2>5, <2>6, <2>7
    <3>2. ASSUME NEW j \in 1 .. k - 1 PROVE (a \o b)[j] = a[j]
      BY <2>1, <2>5, <2>6, <2>7
    <3>3. ASSUME NEW j \in k .. Len(q) - 1 PROVE (a \o b)[j] = b[j - (k - 1)]
      BY <2>1, <2>5, <2>6, <2>7
    <3>4. QED
      BY <3>1, <3>2, <3>3
  <2>10. \A j \in k .. Len(q) - 1 : b[j - (k - 1)] = q[j + 1]
    <3> TAKE j \in k .. Len(q) - 1
    <3>1. j - (k - 1) \in 1 .. Len(q) - k /\ k + (j - (k - 1)) = j + 1
      BY <2>1, <2>5
    <3>2. QED
      BY <2>7, <3>1
  <2>11. RemovedAt(q, Removed(q, t), k)
    BY <2>6, <2>8, <2>9, <2>10 DEF RemovedAt
  <2>12. QED
    BY <2>5, <2>8, <2>9, <2>11
<1>3. QED
  BY <1>1, <1>2

(* Of two places of the queue, the timers differ and the first expires no    *)
(* later: TimersInOrder, and what makes it an invariant.                     *)
Ordered(q, left) ==
  \A j, k \in 1 .. Len(q) : j < k => q[j] # q[k] /\ left[q[j]] <= left[q[k]]

LEMMA RemovedOrdered ==
  ASSUME NEW q \in Seq(Timer), NEW t \in Timer, NEW left, Ordered(q, left)
  PROVE  /\ Removed(q, t) \in Seq(Timer)
         /\ Ordered(Removed(q, t), left)
         /\ \A k \in 1 .. Len(Removed(q, t)) : Removed(q, t)[k] # t
<1> DEFINE r == Removed(q, t)
<1>1. r \in Seq(Timer) /\ Len(q) \in Nat
  BY RemovedIs
<1>2. CASE r = q /\ \A k \in 1 .. Len(q) : q[k] # t
  BY <1>1, <1>2
<1>3. CASE \E k \in 1 .. Len(q) : q[k] = t /\ RemovedAt(q, r, k)
  <2>1. PICK k \in 1 .. Len(q) : q[k] = t /\ RemovedAt(q, r, k)
    BY <1>3
  <2> DEFINE f(j) == IF j < k THEN j ELSE j + 1
  <2>2. Len(r) = Len(q) - 1
    BY <2>1 DEF RemovedAt
  <2>3. \A j \in 1 .. Len(r) : f(j) \in 1 .. Len(q) /\ f(j) # k /\ r[j] = q[f(j)]
    BY <1>1, <2>1, <2>2 DEF RemovedAt
  <2>4. \A j, l \in 1 .. Len(r) : j < l => f(j) < f(l)
    BY <1>1, <2>1, <2>2
  <2> HIDE DEF r, f
  <2>5. Ordered(r, left)
    BY <2>3, <2>4 DEF Ordered
  <2>6. \A j \in 1 .. Len(r) : f(j) < k \/ k < f(j)
    BY <2>1, <2>3
  <2>7. \A j \in 1 .. Len(r) : r[j] # t
    BY <2>1, <2>3, <2>6 DEF Ordered
  <2>8. QED
    BY <1>1, <2>5, <2>7 DEF r
<1>4. QED
  BY <1>2, <1>3, RemovedIs

(* A set of places from the first on is counted by its last.                 *)
LEMMA FirstPlaces ==
  ASSUME NEW m \in Nat, NEW S \in SUBSET (1 .. m),
         \A k \in S : \A j \in 1 .. k : j \in S
  PROVE  \E c \in 0 .. m : S = 1 .. c /\ Cardinality(S) = c
<1> DEFINE U == {k \in 1 .. m + 1 : k \notin S}
<1>1. U \subseteq Nat /\ m + 1 \in U
  OBVIOUS
<1>2. PICK u \in U : \A k \in U : u <= k
  <2> HIDE DEF U
  <2>1. QED
    BY <1>1, Smallest
<1>3. u \in 1 .. m + 1 /\ u - 1 \in 0 .. m
  BY <1>2
<1>4. S = 1 .. u - 1
  <2>1. \A k \in 1 .. u - 1 : k \in S
    BY <1>2, <1>3
  <2>2. \A k \in S : k \in 1 .. u - 1
    <3> SUFFICES ASSUME NEW k \in S, u <= k PROVE FALSE
      BY <1>3
    <3>1. u \in S
      BY <1>3
    <3>2. QED
      BY <1>2, <3>1
  <2>3. QED
    BY <2>1, <2>2
<1>5. Cardinality(1 .. u - 1) = u - 1
  BY <1>3, FS_Interval
<1>6. QED
  BY <1>3, <1>4, <1>5

(* wsfTimerInsert finds the place behind those that expire no later.         *)
LEMMA InsertedOrdered ==
  ASSUME NEW q \in Seq(Timer), NEW t \in Timer, NEW n \in Nat,
         ticks \in [Timer -> Nat], Ordered(q, ticks), \A k \in 1 .. Len(q) : q[k] # t
  PROVE  /\ Inserted(q, t, n) \in Seq(Timer)
         /\ Ordered(Inserted(q, t, n), [ticks EXCEPT ![t] = n])
<1> DEFINE S == {k \in DOMAIN q : ticks[q[k]] <= n}
<1>1. Len(q) \in Nat /\ DOMAIN q = 1 .. Len(q) /\ \A k \in 1 .. Len(q) : q[k] \in Timer /\ ticks[q[k]] \in Nat
  OBVIOUS
<1>2. PICK c \in 0 .. Len(q) : S = 1 .. c /\ Cardinality(S) = c
  <2>1. \A k \in S : \A j \in 1 .. k : j \in S
    BY <1>1 DEF Ordered
  <2>2. S \in SUBSET (1 .. Len(q))
    BY <1>1
  <2> HIDE DEF S
  <2>3. QED
    BY <1>1, <2>1, <2>2, FirstPlaces
<1>3. c \in Nat /\ c <= Len(q)
  BY <1>1
<1>4. /\ \A k \in 1 .. c : ticks[q[k]] <= n
      /\ \A k \in c + 1 .. Len(q) : n <= ticks[q[k]]
  BY <1>1, <1>2, SMTT(30)
<1> DEFINE r == Inserted(q, t, n)
           a == SubSeq(q, 1, c)
           b == SubSeq(q, c + 1, Len(q))
           left == [ticks EXCEPT ![t] = n]
<1>5. r = a \o <<t>> \o b
  <2>1. r = InsertAt(q, Cardinality(S) + 1, t)
    BY DEF Inserted
  <2>2. Cardinality(S) = c /\ (c + 1) - 1 = c
    BY <1>2
  <2> HIDE DEF S, r
  <2>3. QED
    BY <2>1, <2>2 DEF InsertAt
<1> HIDE DEF S, r
<1>6. /\ a \in Seq(Timer) /\ Len(a) = c
      /\ \A j \in 1 .. c : a[j] = q[j]
  BY <1>1, <1>2
<1>7. /\ b \in Seq(Timer) /\ Len(b) = Len(q) - c
      /\ \A j \in 1 .. Len(q) - c : b[j] = q[c + j]
  <2>1. \A k \in c + 1 .. Len(q) : q[k] \in Timer
    BY <1>1, <1>3
  <2>2. /\ b \in Seq(Timer)
        /\ Len(b) = IF c + 1 <= Len(q) THEN Len(q) - (c + 1) + 1 ELSE 0
        /\ \A j \in 1 .. Len(q) - (c + 1) + 1 : b[j] = q[(c + 1) + j - 1]
    BY <1>1, <1>3, <2>1, SubSeqProperties
  <2> HIDE DEF b
  <2>3. Len(b) = Len(q) - c
    <3>1. Len(b) = IF c + 1 <= Len(q) THEN Len(q) - (c + 1) + 1 ELSE 0
      BY <2>2
    <3>2. Len(q) \in Nat
      OBVIOUS
    <3>3. QED
      BY <1>3, <3>1, <3>2
  <2>4. ASSUME NEW j \in 1 .. Len(q) - c PROVE b[j] = q[c + j]
    <3>1. j \in 1 .. Len(q) - (c + 1) + 1 /\ (c + 1) + j - 1 = c + j
      BY <1>1, <1>3
    <3>2. b[j] = q[(c + 1) + j - 1]
      BY <2>2, <3>1
    <3>3. QED
      BY <3>1, <3>2
  <2>5. QED
    BY <2>2, <2>3, <2>4
<1> HIDE DEF a, b
<1>8. /\ a \o <<t>> \in Seq(Timer) /\ Len(a \o <<t>>) = c + 1
      /\ \A j \in 1 .. c : (a \o <<t>>)[j] = q[j]
      /\ (a \o <<t>>)[c + 1] = t
  BY <1>2, <1>6
<1>9. /\ r \in Seq(Timer) /\ Len(r) = Len(q) + 1
      /\ \A j \in 1 .. c : r[j] = q[j]
      /\ r[c + 1] = t
      /\ \A j \in c + 2 .. Len(r) : r[j] = b[j - (c + 1)]
  <2> DEFINE at1 == a \o <<t>>
  <2>1. at1 \in Seq(Timer) /\ Len(at1) = c + 1 /\ r = at1 \o b
    BY <1>5, <1>8
  <2>2. (\A j \in 1 .. c : at1[j] = q[j]) /\ at1[c + 1] = t
    BY <1>8
  <2> HIDE DEF at1
  <2>3. r \in Seq(Timer) /\ Len(r) = Len(q) + 1
    BY <1>1, <1>7, <1>3, <2>1
  <2>4. \A j \in 1 .. c + 1 : r[j] = at1[j]
    BY <1>1, <1>7, <1>3, <2>1
  <2>5. ASSUME NEW j \in c + 2 .. Len(r) PROVE r[j] = b[j - (c + 1)]
    <3>1. j \in Len(at1) + 1 .. Len(at1) + Len(b) /\ j - Len(at1) = j - (c + 1)
      BY <1>1, <1>7, <1>3, <2>1, <2>3
    <3>2. \A k \in 1 .. Len(at1) + Len(b) :
            (at1 \o b)[k] = IF k <= Len(at1) THEN at1[k] ELSE b[k - Len(at1)]
      BY <1>7, <2>1, ConcatProperties
    <3>3. j \in 1 .. Len(at1) + Len(b) /\ ~ (j <= Len(at1))
      BY <1>3, <2>1, <3>1
    <3>4. (at1 \o b)[j] = b[j - Len(at1)]
      BY <3>2, <3>3
    <3>5. QED
      BY <2>1, <3>1, <3>4
  <2>6. QED
    BY <1>3, <2>2, <2>3, <2>4, <2>5
<1>10. \A j \in c + 2 .. Len(r) : r[j] = q[j - 1]
  <2> TAKE j \in c + 2 .. Len(r)
  <2>1. j - (c + 1) \in 1 .. Len(q) - c /\ c + (j - (c + 1)) = j - 1
    BY <1>1, <1>3, <1>9
  <2>2. QED
    BY <1>7, <1>9, <2>1
<1>11. left[t] = n /\ \A k \in 1 .. Len(q) : left[q[k]] = ticks[q[k]]
  BY <1>1
<1> HIDE DEF left
<1>12. ASSUME NEW j \in 1 .. Len(r), NEW k \in 1 .. Len(r), j < k
       PROVE  r[j] # r[k] /\ left[r[j]] <= left[r[k]]
  <2>1. CASE k <= c
    <3>1. j \in 1 .. Len(q) /\ k \in 1 .. Len(q) /\ r[j] = q[j] /\ r[k] = q[k]
      BY <1>1, <1>3, <1>9, <1>12, <2>1
    <3>2. QED
      BY <1>11, <1>12, <3>1 DEF Ordered
  <2>2. CASE k = c + 1
    BY <1>1, <1>3, <1>4, <1>9, <1>11, <1>12, <2>2
  <2>3. CASE k > c + 1 /\ j <= c
    <3>1. j \in 1 .. Len(q) /\ k - 1 \in 1 .. Len(q) /\ j < k - 1 /\ r[j] = q[j] /\ r[k] = q[k - 1]
      BY <1>1, <1>3, <1>9, <1>10, <1>12, <2>3, SMTT(30)
    <3>2. QED
      BY <1>11, <3>1 DEF Ordered
  <2>4. CASE k > c + 1 /\ j = c + 1
    <3>1. k \in c + 2 .. Len(r) /\ k - 1 \in c + 1 .. Len(q) /\ k - 1 \in 1 .. Len(q)
      BY <1>1, <1>3, <1>9, <1>12, <2>4
    <3>2. r[k] = q[k - 1] /\ r[j] = t
      BY <1>9, <1>10, <2>4, <3>1
    <3>3. n <= ticks[q[k - 1]] /\ q[k - 1] # t
      BY <1>4, <3>1
    <3>4. QED
      BY <1>11, <3>1, <3>2, <3>3
  <2>5. CASE k > c + 1 /\ j > c + 1
    <3>1. /\ j - 1 \in 1 .. Len(q) /\ k - 1 \in 1 .. Len(q) /\ j - 1 < k - 1
          /\ r[j] = q[j - 1] /\ r[k] = q[k - 1]
      BY <1>1, <1>3, <1>9, <1>10, <1>12, <2>5
    <3>2. QED
      BY <1>11, <3>1 DEF Ordered
  <2>6. QED
    BY <1>2, <1>9, <1>12, <2>1, <2>2, <2>3, <2>4, <2>5
<1>13. QED
  BY <1>9, <1>12 DEF Ordered, r, left

-----------------------------------------------------------------------------
(* Time and the queue.                                                       *)
TimerInv ==
  /\ timerQueue \in Seq(Timer)
  /\ ticks \in [Timer -> Nat]
  /\ elapsed \in Nat
  /\ Ordered(timerQueue, ticks)

LEMMA OrderedIsInOrder == TimerInv => TimersInOrder
<1> SUFFICES ASSUME TimerInv PROVE TimersInOrder
  OBVIOUS
<1>1. DOMAIN timerQueue = 1 .. Len(timerQueue) /\ Len(timerQueue) \in Nat
  BY DEF TimerInv
<1>2. \A a, b \in DOMAIN timerQueue : timerQueue[a] = timerQueue[b] => a = b
  BY <1>1 DEF TimerInv, Ordered
<1>3. \A k \in 1 .. Len(timerQueue) - 1 : ticks[timerQueue[k]] <= ticks[timerQueue[k + 1]]
  BY <1>1 DEF TimerInv, Ordered
<1>4. QED
  BY <1>2, <1>3 DEF TimersInOrder, IsInjective

LEMMA TimerInit == Init => TimerInv
BY DEF Init, TimerInv, Ordered

(* The same is taken from all of them, and none goes below zero.             *)
LEMMA AfterTicksOrdered ==
  ASSUME TimerInv, NEW n \in Nat
  PROVE  AfterTicks(n) \in [Timer -> Nat] /\ Ordered(timerQueue, AfterTicks(n))
<1>1. /\ Len(timerQueue) \in Nat /\ DOMAIN timerQueue = 1 .. Len(timerQueue)
      /\ \A k \in 1 .. Len(timerQueue) : timerQueue[k] \in Timer
      /\ \A t \in Timer : ticks[t] \in Nat
  BY DEF TimerInv
<1>2. AfterTicks(n) \in [Timer -> Nat]
  BY <1>1 DEF AfterTicks
<1>3. \A k \in 1 .. Len(timerQueue) :
        AfterTicks(n)[timerQueue[k]] = IF ticks[timerQueue[k]] > n THEN ticks[timerQueue[k]] - n ELSE 0
  BY <1>1 DEF AfterTicks, isStarted
<1>4. ASSUME NEW j \in 1 .. Len(timerQueue), NEW k \in 1 .. Len(timerQueue), j < k
      PROVE  timerQueue[j] # timerQueue[k] /\ AfterTicks(n)[timerQueue[j]] <= AfterTicks(n)[timerQueue[k]]
  <2>1. timerQueue[j] # timerQueue[k] /\ ticks[timerQueue[j]] <= ticks[timerQueue[k]]
    BY <1>4 DEF TimerInv, Ordered
  <2>2. ticks[timerQueue[j]] \in Nat /\ ticks[timerQueue[k]] \in Nat
    BY <1>1
  <2>3. QED
    BY <1>3, <2>1, <2>2
<1>5. QED
  BY <1>2, <1>4 DEF Ordered

LEMMA TimerDispatcher ==
  ASSUME TimerInv, wsfOsDispatcher
  PROVE  TimerInv'
<1>1. CASE WsfTimerUpdateTicks
  <2> DEFINE n == elapsed \div CLK_TICKS_PER_WSF_TICKS
  <2>1. n \in Nat
    BY WsfAssumption DEF TimerInv
  <2>2. ticks' = AfterTicks(n) /\ timerQueue' = timerQueue /\ elapsed' \in {0, elapsed}
    BY <1>1 DEF WsfTimerUpdateTicks
  <2> HIDE DEF n
  <2>3. QED
    BY <2>1, <2>2, AfterTicksOrdered DEF TimerInv
<1>2. CASE WsfTimerServiceExpired
  <2>1. timerQueue # <<>> /\ timerQueue' = Tail(timerQueue) /\ UNCHANGED <<ticks, elapsed>>
    BY <1>2 DEF WsfTimerServiceExpired, HeadExpired
  <2>2. /\ timerQueue' \in Seq(Timer) /\ Len(timerQueue') = Len(timerQueue) - 1 /\ Len(timerQueue) \in Nat
        /\ \A k \in 1 .. Len(timerQueue) - 1 : timerQueue'[k] = timerQueue[k + 1]
    BY <2>1 DEF TimerInv
  <2>3. \A j \in 1 .. Len(timerQueue') : j + 1 \in 1 .. Len(timerQueue) /\ timerQueue'[j] = timerQueue[j + 1]
    BY <2>2
  <2>4. \A j, k \in 1 .. Len(timerQueue') : j < k => j + 1 < k + 1
    BY <2>2
  <2>5. Ordered(timerQueue, ticks)
    BY DEF TimerInv
  <2>6. Ordered(timerQueue', ticks)
    BY <2>3, <2>4, <2>5 DEF Ordered
  <2>7. QED
    BY <2>1, <2>2, <2>6 DEF TimerInv
<1>3. CASE \/ xTimerChangePeriod \/ WaitForRoom \/ GetAndClear \/ LeaveLoop \/ xEventGroupWaitBits
           \/ WsfMsgDeq \/ MsgsDone \/ TimersDone \/ HandleEvents \/ NextHandler \/ EventsDone
  <2>1. UNCHANGED <<timerQueue, ticks, elapsed>>
    BY <1>3 DEF xTimerChangePeriod, WaitForRoom, GetAndClear, LeaveLoop, xEventGroupWaitBits,
       WsfMsgDeq, MsgsDone, TimersDone, HandleEvents, NextHandler, EventsDone, timers
  <2>2. QED
    BY <2>1 DEF TimerInv
<1>4. QED
  BY <1>1, <1>2, <1>3 DEF wsfOsDispatcher

LEMMA TimerHandler ==
  ASSUME TimerInv, AHandler
  PROVE  TimerInv'
<1>0. timerQueue \in Seq(Timer) /\ ticks \in [Timer -> Nat] /\ Ordered(timerQueue, ticks)
  BY DEF TimerInv
<1>1. ASSUME NEW t \in Timer, WsfTimerStop(t) PROVE TimerInv'
  <2> DEFINE r == Removed(timerQueue, t)
  <2>1. timerQueue' = r /\ ticks' = [ticks EXCEPT ![t] = 0] /\ elapsed' = elapsed
    BY <1>1 DEF WsfTimerStop
  <2>2. r \in Seq(Timer) /\ Ordered(r, ticks) /\ \A k \in 1 .. Len(r) : r[k] # t
    BY <1>0, RemovedOrdered
  <2> HIDE DEF r
  <2>3. \A k \in 1 .. Len(r) : ticks'[r[k]] = ticks[r[k]]
    BY <1>0, <2>1, <2>2
  <2>4. Ordered(r, ticks')
    BY <2>2, <2>3 DEF Ordered
  <2>5. ticks' \in [Timer -> Nat]
    BY <1>0, <2>1
  <2>6. QED
    BY <2>1, <2>2, <2>4, <2>5 DEF TimerInv
<1>2. ASSUME NEW t \in Timer, NEW n \in 1 .. MaxTicks, WsfTimerStart(t, n) PROVE TimerInv'
  <2> DEFINE r == Removed(timerQueue, t)
  <2>0. n \in Nat
    BY WsfAssumption
  <2>1. timerQueue' = Inserted(r, t, n) /\ ticks' = [ticks EXCEPT ![t] = n] /\ elapsed' = elapsed
    BY <1>2 DEF WsfTimerStart
  <2>2. r \in Seq(Timer) /\ Ordered(r, ticks) /\ \A k \in 1 .. Len(r) : r[k] # t
    BY <1>0, RemovedOrdered
  <2> HIDE DEF r
  <2>3. timerQueue' \in Seq(Timer) /\ Ordered(timerQueue', ticks')
    BY <1>0, <2>0, <2>1, <2>2, InsertedOrdered
  <2>4. ticks' \in [Timer -> Nat]
    BY <1>0, <2>0, <2>1
  <2>5. QED
    BY <2>1, <2>3, <2>4 DEF TimerInv
<1>3. CASE Return \/ \E h \in Handler : WsfMsgSend(h) \/ WsfSetEvent(h)
  BY <1>3 DEF Return, WsfMsgSend, WsfSetEvent, timers, TimerInv
<1>4. QED
  BY <1>1, <1>2, <1>3 DEF AHandler

LEMMA TimerOthers ==
  ASSUME TimerInv, Daemon \/ am_ble_isr \/ ClockTick \/ UNCHANGED vars
  PROVE  TimerInv'
<1>1. UNCHANGED <<timerQueue, ticks>> /\ elapsed' \in Nat
  BY DEF TimerInv, Daemon, WsfTimer_handler, SignalFromTimer, prvProcessReceivedCommands,
     am_ble_isr, ClockTick, vars, timers
<1>2. QED
  BY <1>1 DEF TimerInv

(* Every timer is in the queue once at most, and the queue is in the order   *)
(* of expiration, for any timers and any ticks they are started with         *)
(* (wsf_timer.c:101-136, 298-301, 332-333).                                  *)
THEOREM TimersStayInOrder == Spec => []TimersInOrder
<1>1. ASSUME TimerInv, [Next]_vars PROVE TimerInv'
  BY <1>1, TimerDispatcher, TimerHandler, TimerOthers DEF Next, RadioTask
<1>2. QED
  BY TimerInit, OrderedIsInOrder, <1>1, PTL DEF Spec
=============================================================================
