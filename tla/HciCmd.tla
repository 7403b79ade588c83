-------------------------------- MODULE HciCmd --------------------------------
(***************************************************************************)
(* HCI commands from the stack to the controller and back:                 *)
(* ble-host/sources/hci/ambiq/hci_cmd.c (one command at a time), hci_vs.c  *)
(* and dm_dev.c (the reset sequence), and the blocking driver              *)
(* apollo3/hci_drv_apollo3.c with the packet framing of hci_tr.c.          *)
(* RadioTask runs all of it, one handler at a time (`at'); between its     *)
(* steps the controller, with its interrupt, moves.  The driver's loop is  *)
(* one step per transaction, HciCoreHandler's one step per event.  hci_tr.c *)
(* always finds a buffer for a packet here.                                *)
(***************************************************************************)
EXTENDS Naturals, Sequences, SequencesExt, FiniteSetsExt

CONSTANTS SetupCmds,   \* commands of the reset sequence between HCI_RESET and LE_RAND
          RandCmds,    \* HCI_RESET_RAND_CNT
          MaxTrans,    \* HCI_DRV_MAX_HCI_TRANSACTIONS
          MaxRetries,  \* HCI_DRV_MAX_TX_RETRIES
          MaxRead,     \* HCI_DRV_MAX_READ_PACKET
          StackOps,    \* commands of the stack: "secRand" is SecRand's LE_RAND, "other" any other
          MaxCmds,     \* bound: commands waiting in cmdQueue
          MaxFaults    \* bound: stalls, hardware errors, failed reads and failed boots

ASSUME CmdAssumption == /\ {SetupCmds, RandCmds, MaxTrans, MaxRetries, MaxRead} \subseteq Nat \ {0}
                        /\ StackOps \subseteq {"secRand", "other"}

VARIABLES host,      \* hciCmdCb, the driver's write queue, its event and heartbeat
          resetting, \* hciCb.resetting
          randCnt,   \* the static of hciCoreResetSequence
          dm,        \* dmCb.resetting, and reset messages on their way to DM
          rxQueue,   \* hciCb.rxQueue; HCI_EVT_RX is set when it is not empty
          at,        \* the handler RadioTask is in
          n, reads, retries, \* locals of HciDrvHandler
          ctl,       \* the controller
          gaveUp,    \* history: the driver's loop ran out of transactions
          cutShort,  \* history: the radio was booted while DM was resetting
          mistaken,  \* history: a reset took the answer to SecRand's LE_RAND for one to its own
          overtaken, \* history: resets started over an unanswered command
          faults     \* the faults so far

vars == <<host, resetting, randCnt, dm, rxQueue, at, n, reads, retries, ctl, gaveUp,
          cutShort, mistaken, overtaken, faults>>
stackVars == <<resetting, randCnt, dm>>
drvVars == <<n, reads, retries, gaveUp>>
history == <<cutShort, mistaken, overtaken, faults>>

(* The two LE_RANDs are one command to the code: only history tells them   *)
(* apart.                                                                  *)
Cmd == [op : {"reset", "rand", "secRand", "other"}] \cup [op : {"setup"}, i : 1..SetupCmds]
Acl == [op |-> "acl"]
Cmpl == [type |-> "cmpl"]
Answer == [type : {"answer"}, to : Cmd]
Event == Answer \cup [type : {"cmpl", "hwError"}]

(* A controller: `inbox' from the host, `out' to it (its IRQ line is high  *)
(* while there is something), stalled or not, on or not, and how many      *)
(* commands of the reset sequence it has done since it was reset.          *)
FreshCtl == [inbox |-> <<>>, out |-> <<>>, stalled |-> FALSE, on |-> TRUE, done |-> 0]

(* After a boot that failed the interrupt is off and nothing is taken.     *)
(* Where the HAL's handle is still initialised a write fails, as if the    *)
(* controller stalled; where it is not, the write returns 0, which is      *)
(* AM_HAL_STATUS_SUCCESS.                                                  *)
Off == {[FreshCtl EXCEPT !.on = FALSE, !.stalled = init] : init \in BOOLEAN}

TypeOK ==
  /\ host \in [queue : Seq(Cmd), numCmdPkts : 0..1, timer : BOOLEAN,
               wq : Seq(Cmd \cup {Acl}), drvEvent : BOOLEAN, beat : BOOLEAN]
  /\ host.timer => host.numCmdPkts = 0
  /\ resetting \in BOOLEAN
  /\ randCnt \in 0..RandCmds - 1
  /\ dm \in [resetting : BOOLEAN, msgs : Nat]
  /\ rxQueue \in Seq(Event)
  /\ at \in {"idle", "core", "drv"}
  /\ n \in 0..MaxTrans /\ reads \in 0..MaxRead - 1 /\ retries \in 0..MaxRetries
  /\ ctl \in [inbox : Seq(Cmd \cup {Acl}), out : Seq(Event), stalled : BOOLEAN,
              on : BOOLEAN, done : 0..SetupCmds + 1]
  /\ gaveUp \in BOOLEAN /\ cutShort \in BOOLEAN /\ mistaken \in BOOLEAN
  /\ overtaken \in Nat /\ faults \in 0..MaxFaults

-----------------------------------------------------------------------------
(* hci_cmd.c, as functions of `host'.                                      *)

(* hciDrvWrite: to the write queue, and the event for HciDrvHandler.  Its  *)
(* 8 slots hold the one command and at most HciAcl's NumBufs pieces.       *)
DrvWrite(h, item) == [h EXCEPT !.wq = Append(@, item), !.drvEvent = TRUE]

(* bug: the count of commands the controller takes is not consulted        *)
Service_Always(h) ==
  IF h.queue = <<>>
  THEN h
  ELSE DrvWrite([h EXCEPT !.queue = Tail(@), !.numCmdPkts = 0, !.timer = TRUE], Head(h.queue))

(* hciCmdSend(NULL), and hciCmdSend.                                       *)
Service(h) ==
  IF h.numCmdPkts = 0 \/ h.queue = <<>>
  THEN h
  ELSE DrvWrite([h EXCEPT !.queue = Tail(@), !.numCmdPkts = @ - 1, !.timer = TRUE],
                Head(h.queue))

CmdSend(h, c) == Service([h EXCEPT !.queue = Append(@, c)])

CmdRecvCmpl(h) == Service([h EXCEPT !.timer = FALSE, !.numCmdPkts = 1])

(* HciResetCmd: commands that wait are freed, and HCI_RESET is sent        *)
(* whether or not the last command was answered.                           *)
ResetCmd(h) == Service([h EXCEPT !.queue = <<[op |-> "reset"]>>, !.numCmdPkts = 1])

(* The start of the application: the radio is booted, and the first        *)
(* message of all is the DmDevReset, which has been handled.               *)
Init == /\ host = ResetCmd([queue |-> <<>>, numCmdPkts |-> 1, timer |-> FALSE,
                            wq |-> <<>>, drvEvent |-> FALSE, beat |-> FALSE])
        /\ resetting = TRUE
        /\ randCnt = 0
        /\ dm = [resetting |-> TRUE, msgs |-> 0]
        /\ rxQueue = <<>>
        /\ at = "idle"
        /\ n = 0 /\ reads = 0 /\ retries = 0
        /\ ctl = FreshCtl
        /\ gaveUp = FALSE /\ cutShort = FALSE /\ mistaken = FALSE
        /\ overtaken = 0 /\ faults = 0

(* k faults from outside.                                                  *)
Faults(k) == /\ faults + k <= MaxFaults
             /\ faults' = faults + k

(* HciDrvRadioBoot and DmDevReset, with the handle not initialised: the    *)
(* controller starts afresh and the write queue is empty, or the boot      *)
(* fails and leaves the queue as it is; a reset message is on its way to   *)
(* DM.  k is the faults that led here.                                     *)
RadioBoot(h, k) ==
  /\ \/ /\ host' = [h EXCEPT !.wq = <<>>]
        /\ ctl' = FreshCtl
        /\ Faults(k)
     \/ /\ host' = h
        /\ ctl' \in Off
        /\ Faults(k + 1)
  /\ cutShort' = (cutShort \/ dm.resetting)
  /\ dm' = [dm EXCEPT !.msgs = @ + 1]
  /\ UNCHANGED <<mistaken, overtaken>>

(* HciDrvRadioShutdown first, which stops the heartbeat.  One that fails   *)
(* is a boot that fails.                                                   *)
Reboot(h, k) == RadioBoot([h EXCEPT !.beat = FALSE], k)

(* ERROR_RECOVER: HciDrvEmptyWriteQueue too.                               *)
Recover(h, k) == Reboot([h EXCEPT !.wq = <<>>], k)

Setup(i) == [op |-> "setup", i |-> i]

(* Commands on their way to the controller, and answers on their way back. *)
Count(s, Kind) == Quantify(DOMAIN s, LAMBDA i : s[i] \in Kind)
Sent == Count(host.wq, Cmd) + Count(ctl.inbox, Cmd)
Answers == Count(ctl.out, Answer) + Count(rxQueue, Answer)
Unanswered == Sent + Count(ctl.out, Answer) > 0

-----------------------------------------------------------------------------
(* The stack.                                                              *)

StackCmd == /\ at = "idle"
            /\ Len(host.queue) < MaxCmds
            /\ \E o \in StackOps : host' = CmdSend(host, [op |-> o])
            /\ UNCHANGED <<stackVars, rxQueue, drvVars, at, ctl, history>>

(* The driver's heartbeat: 10 seconds after the last packet, a command of  *)
(* its own.                                                                *)
Heartbeat == /\ at = "idle"
             /\ host.beat
             /\ Len(host.queue) < MaxCmds
             /\ host' = CmdSend(host, [op |-> "other"])
             /\ UNCHANGED <<stackVars, rxQueue, drvVars, at, ctl, history>>

(* A piece of an ACL packet, for a connection: a reset of DM closes them   *)
(* all.  Bound: one on its way at a time.                                  *)
SendAcl == /\ at = "idle"
           /\ ~dm.resetting
           /\ Acl \notin Range(host.wq) \cup Range(ctl.inbox)
           /\ Cmpl \notin Range(ctl.out) \cup Range(rxQueue)
           /\ host' = DrvWrite(host, Acl)
           /\ UNCHANGED <<stackVars, rxQueue, drvVars, at, ctl, history>>

(* DM handles DmDevReset: dmDevActReset, HciResetSequence.                 *)
DmReset == /\ at = "idle"
           /\ dm.msgs > 0
           /\ IF dm.resetting
              THEN /\ dm' = [dm EXCEPT !.msgs = @ - 1]
                   /\ UNCHANGED <<host, resetting, rxQueue, overtaken>>
              ELSE /\ dm' = [resetting |-> TRUE, msgs |-> dm.msgs - 1]
                   /\ rxQueue' = <<>>
                   /\ resetting' = TRUE
                   /\ host' = ResetCmd(host)
                   /\ overtaken' = overtaken + (IF Unanswered THEN 1 ELSE 0)
           /\ UNCHANGED <<randCnt, drvVars, at, ctl, cutShort, mistaken, faults>>

(* hciCmdTimeout: 10 seconds without an answer, from a controller that has *)
(* stalled or is off, or to a command that did not reach it.  A handler    *)
(* that has an event is run long before that.                              *)
CmdTimeout == /\ at = "idle"
              /\ ~host.drvEvent
              /\ host.timer
              /\ ctl.stalled \/ gaveUp \/ Sent = 0
              /\ Answers = 0
              /\ Reboot([host EXCEPT !.timer = FALSE], 0)
              /\ UNCHANGED <<resetting, randCnt, rxQueue, drvVars, at>>

-----------------------------------------------------------------------------
(* HciCoreHandler: the whole of rxQueue.                                   *)

CoreStart == /\ at = "idle"
             /\ rxQueue # <<>>
             /\ at' = "core"
             /\ UNCHANGED <<host, stackVars, rxQueue, drvVars, ctl, history>>

CoreDone == /\ at = "core"
            /\ rxQueue = <<>>
            /\ at' = "idle"
            /\ UNCHANGED <<host, stackVars, rxQueue, drvVars, ctl, history>>

(* bug: after the answer to HCI_RESET the sequence goes on where a reset   *)
(* before it stopped                                                       *)
ResetSequence_Rand(h, c) ==
  CASE c.op = "reset" ->
         /\ host' = CmdSend(h, [op |-> "rand"])
         /\ UNCHANGED stackVars
    [] c.op = "setup" ->
         /\ host' = h
         /\ UNCHANGED stackVars
    [] c.op \in {"rand", "secRand"} ->
         /\ resetting' = FALSE
         /\ dm' = [dm EXCEPT !.resetting = FALSE]
         /\ host' = h
         /\ UNCHANGED randCnt
    [] c.op = "other" ->
         /\ host' = h
         /\ UNCHANGED stackVars

(* hciCoreResetSequence: the next command of the sequence, or its end.     *)
ResetSequence(h, c) ==
  CASE c.op = "reset" ->
         /\ randCnt' = 0
         /\ host' = CmdSend(h, Setup(1))
         /\ UNCHANGED <<resetting, dm>>
    [] c.op = "setup" ->
         /\ host' = CmdSend(h, IF c.i < SetupCmds THEN Setup(c.i + 1) ELSE [op |-> "rand"])
         /\ UNCHANGED stackVars
    [] c.op \in {"rand", "secRand"} /\ randCnt < RandCmds - 1 ->
         /\ randCnt' = randCnt + 1
         /\ host' = CmdSend(h, [op |-> "rand"])
         /\ UNCHANGED <<resetting, dm>>
    [] c.op \in {"rand", "secRand"} /\ randCnt >= RandCmds - 1 ->
         /\ resetting' = FALSE
         /\ dm' = [dm EXCEPT !.resetting = FALSE]
         /\ host' = h
         /\ UNCHANGED randCnt
    [] c.op = "other" ->
         /\ host' = h
         /\ UNCHANGED stackVars

CoreAnswer == /\ at = "core"
              /\ rxQueue # <<>>
              /\ Head(rxQueue).type = "answer"
              /\ rxQueue' = Tail(rxQueue)
              /\ IF resetting
                 THEN ResetSequence(CmdRecvCmpl(host), Head(rxQueue).to)
                 ELSE /\ host' = CmdRecvCmpl(host)
                      /\ UNCHANGED stackVars
              /\ mistaken' = (mistaken \/ (resetting /\ Head(rxQueue).to.op = "secRand"))
              /\ UNCHANGED <<drvVars, at, ctl, cutShort, overtaken, faults>>

(* An event that is no answer.  A hardware error goes by DM, unless it is  *)
(* resetting, to appSlaveProcMsg, which resets.  Its HciDrvRadioBoot       *)
(* returns at once with the handle initialised, that is unless a boot has  *)
(* failed and left it so.                                                  *)
CoreOther == /\ at = "core"
             /\ rxQueue # <<>>
             /\ Head(rxQueue).type # "answer"
             /\ rxQueue' = Tail(rxQueue)
             /\ CASE Head(rxQueue).type # "hwError" \/ dm.resetting ->
                       UNCHANGED <<host, ctl, dm, history>>
                  [] Head(rxQueue).type = "hwError" /\ ~dm.resetting ->
                       IF ctl.on \/ ctl.stalled
                       THEN /\ dm' = [dm EXCEPT !.msgs = @ + 1]
                            /\ UNCHANGED <<host, ctl, history>>
                       ELSE RadioBoot(host, 0)
             /\ UNCHANGED <<resetting, randCnt, drvVars, at>>

-----------------------------------------------------------------------------
(* HciDrvHandler.                                                          *)

(* The loop ends with a break.  Where that is in the last of its rounds,   *)
(* n is HCI_DRV_MAX_HCI_TRANSACTIONS: ERROR_RECOVER.                       *)
Leave == /\ at' = "idle"
         /\ n' = 0 /\ reads' = 0 /\ retries' = 0

Break(h, c) == /\ Leave
            /\ UNCHANGED gaveUp
            /\ IF n + 1 = MaxTrans
               THEN Recover(h, 0)
               ELSE /\ host' = h
                    /\ ctl' = c
                    /\ UNCHANGED <<dm, history>>

DrvStart == /\ at = "idle"
            /\ host.drvEvent
            /\ host' = [host EXCEPT !.drvEvent = FALSE]
            /\ at' = "drv"
            /\ gaveUp' = FALSE
            /\ UNCHANGED <<stackVars, rxQueue, n, reads, retries, ctl, history>>

(* A round of the loop: n++ < HCI_DRV_MAX_HCI_TRANSACTIONS held.           *)
InLoop == at = "drv" /\ n < MaxTrans
IRQ == ctl.out # <<>>

Read == [ctl EXCEPT !.out = Tail(@)]

(* bug: after HCI_DRV_MAX_READ_PACKET packets the handler does not come    *)
(* back for the rest                                                       *)
DrvRead_NoEvent ==
  /\ InLoop
  /\ IRQ
  /\ rxQueue' = Append(rxQueue, Head(ctl.out))
  /\ IF reads + 1 >= MaxRead
     THEN Break([host EXCEPT !.beat = TRUE], Read)
     ELSE /\ n' = n + 1
          /\ reads' = reads + 1
          /\ ctl' = Read
          /\ host' = [host EXCEPT !.beat = TRUE]
          /\ UNCHANGED <<dm, retries, at, gaveUp, history>>
  /\ UNCHANGED <<resetting, randCnt>>

(* A packet is read, and given to the stack.                               *)
DrvRead ==
  /\ InLoop
  /\ IRQ
  /\ rxQueue' = Append(rxQueue, Head(ctl.out))
  /\ IF reads + 1 >= MaxRead
     THEN Break([host EXCEPT !.beat = TRUE, !.drvEvent = TRUE], Read)
     ELSE /\ n' = n + 1
          /\ reads' = reads + 1
          /\ ctl' = Read
          /\ host' = [host EXCEPT !.beat = TRUE]
          /\ UNCHANGED <<dm, retries, at, gaveUp, history>>
  /\ UNCHANGED <<resetting, randCnt>>

(* The read fails: ERROR_RECOVER.                                          *)
DrvReadFail == /\ InLoop
               /\ IRQ
               /\ Recover(host, 1)
               /\ Leave
               /\ UNCHANGED <<resetting, randCnt, rxQueue, gaveUp>>

DrvEmpty == /\ InLoop
            /\ ~IRQ
            /\ host.wq = <<>>
            /\ Break(host, ctl)
            /\ UNCHANGED <<resetting, randCnt, rxQueue>>

DrvWriteOk == /\ InLoop
              /\ ~IRQ
              /\ host.wq # <<>>
              /\ ~ctl.stalled
              /\ host' = [host EXCEPT !.wq = Tail(@), !.beat = TRUE]
              /\ ctl' = IF ctl.on THEN [ctl EXCEPT !.inbox = Append(@, Head(host.wq))] ELSE ctl
              /\ n' = 0
              /\ retries' = 0
              /\ UNCHANGED <<stackVars, rxQueue, at, reads, gaveUp, history>>

(* The controller does not take the packet.  The item stays in the queue.  *)
DrvWriteFail == /\ InLoop
                /\ ~IRQ
                /\ host.wq # <<>>
                /\ ctl.stalled
                /\ IF retries + 1 > MaxRetries
                   THEN Break([host EXCEPT !.drvEvent = TRUE], ctl)
                   ELSE /\ n' = n + 1
                        /\ retries' = retries + 1
                        /\ UNCHANGED <<host, dm, reads, at, ctl, gaveUp, history>>
                /\ UNCHANGED <<resetting, randCnt, rxQueue>>

(* n++ < HCI_DRV_MAX_HCI_TRANSACTIONS fails, and leaves n one above the    *)
(* value the test behind the loop asks for: no ERROR_RECOVER, and no event *)
(* that brings the handler back.                                           *)
DrvExhausted == /\ at = "drv"
                /\ n = MaxTrans
                /\ Leave
                /\ gaveUp' = TRUE
                /\ UNCHANGED <<host, stackVars, rxQueue, ctl, history>>

-----------------------------------------------------------------------------
(* The controller.  Its interrupt is the rising edge of the IRQ line.      *)

Raise(e, done, rest) ==
  /\ ctl' = [ctl EXCEPT !.out = Append(@, e), !.done = done, !.inbox = rest]
  /\ host' = IF IRQ THEN host ELSE [host EXCEPT !.drvEvent = TRUE]
  /\ UNCHANGED <<stackVars, rxQueue, drvVars, at, cutShort, mistaken, overtaken>>

(* What the controller has done of the reset sequence after c.             *)
Done(c) == CASE c.op = "reset" -> 1
             [] c.op = "setup" /\ ctl.done = c.i -> c.i + 1
             [] OTHER -> ctl.done

CtlAnswer == /\ ctl.inbox # <<>>
             /\ ~ctl.stalled
             /\ LET p == Head(ctl.inbox)
                IN IF p = Acl
                   THEN Raise(Cmpl, ctl.done, Tail(ctl.inbox))
                   ELSE Raise([type |-> "answer", to |-> p], Done(p), Tail(ctl.inbox))
             /\ UNCHANGED faults

CtlHwError == /\ ctl.on
              /\ Faults(1)
              /\ Raise([type |-> "hwError"], ctl.done, ctl.inbox)

CtlStall == /\ ctl.on /\ ~ctl.stalled
            /\ Faults(1)
            /\ ctl' = [ctl EXCEPT !.stalled = TRUE]
            /\ UNCHANGED <<host, stackVars, rxQueue, drvVars, at, cutShort, mistaken, overtaken>>

CtlResume == /\ ctl.on /\ ctl.stalled
             /\ ctl' = [ctl EXCEPT !.stalled = FALSE]
             /\ UNCHANGED <<host, stackVars, rxQueue, drvVars, at, history>>

-----------------------------------------------------------------------------
Core == CoreStart \/ CoreAnswer \/ CoreOther \/ CoreDone
Drv == DrvRead \/ DrvEmpty \/ DrvWriteOk \/ DrvWriteFail \/ DrvExhausted

Next == \/ StackCmd \/ Heartbeat \/ SendAcl \/ DmReset \/ CmdTimeout
        \/ Core
        \/ DrvStart \/ Drv \/ DrvReadFail
        \/ CtlAnswer \/ CtlHwError \/ CtlStall \/ CtlResume

Spec == Init /\ [][Next]_vars

(* The dispatcher runs every handler that has something pending (WsfOs),   *)
(* whatever else it runs, and the timer expires: weak fairness is less     *)
(* than that, and enough.  A handler ends, and a controller that is not    *)
(* stalled answers.                                                        *)
FairSpec == /\ Spec
            /\ WF_vars(Drv \/ CoreAnswer \/ CoreOther \/ CoreDone)
            /\ WF_vars(DrvStart) /\ WF_vars(CoreStart) /\ WF_vars(DmReset)
            /\ WF_vars(CmdTimeout) /\ WF_vars(Heartbeat)
            /\ WF_vars(CtlAnswer)

-----------------------------------------------------------------------------
(* "Setting this to 1 rather than incrementing by numCmdPkts allows only   *)
(* one command at a time to be sent to the controller" (hci_cmd.c:197).    *)
(* Across timeouts, hardware errors and reboots at any moment, no command  *)
(* is on its way beside another, but for one more with every HCI_RESET     *)
(* that was sent over an unanswered command.                               *)
OneCommandOut == host.numCmdPkts + Sent + Answers <= 1 + overtaken

(* The driver's handler never stops for good with work left: whenever it   *)
(* is not running and something waits to be written or read, its event is  *)
(* set, or its last call ran out of rounds (gaveUp).                       *)
DriverComesBack ==
  at # "drv" /\ (host.wq # <<>> \/ IRQ) => host.drvEvent \/ gaveUp

(* A reset of the stack ends, and when it does the controller has done     *)
(* every command of the sequence in its order, or the answer to a LE_RAND  *)
(* of SecRand has been taken for one to the sequence's, in this reset or   *)
(* one before it (what is left of that one goes on in this).  A reset need *)
(* not end where the radio is booted in the middle of one.                 *)
ResetCompletes ==
  dm.resetting ~> (~dm.resetting /\ (ctl.done = SetupCmds + 1 \/ mistaken)) \/ cutShort

(* "last command in sequence; set resetting state and call callback"       *)
(* (hci_vs.c:285): the sequence ends with its last command.                *)
EndsWithTheLast == [][resetting /\ ~resetting' => ctl.done = SetupCmds + 1]_vars

(* "If we fail too many times in a row, we should throw an error to avoid  *)
(* a lock-up" and "we need to come back again later"                       *)
(* (hci_drv_apollo3.c:1218, 1225): a handler that leaves work behind comes *)
(* back for it.                                                            *)
NoLockUp == at # "drv" /\ (host.wq # <<>> \/ IRQ) => host.drvEvent

(* "When it times out, pretty much we have to reset/reboot controller and  *)
(* initialize HCI layer and SPI transport layer again" (hci_cmd.c:172):    *)
(* every reset of the stack ends.                                          *)
RadioComesBack == dm.resetting ~> ~dm.resetting
=============================================================================
