----------------------------- MODULE HciCmdProofs -----------------------------
(***************************************************************************)
(* Proofs about HciCmd, for any length of the reset sequence, any limits   *)
(* of the driver's loop, and any number of commands and faults.            *)
(***************************************************************************)
EXTENDS HciCmd, FiniteSetTheorems, TLAPS

Host == [queue : Seq(Cmd), numCmdPkts : 0..1, timer : BOOLEAN,
         wq : Seq(Cmd \cup {Acl}), drvEvent : BOOLEAN, beat : BOOLEAN]
Ctl == [inbox : Seq(Cmd \cup {Acl}), out : Seq(Event), stalled : BOOLEAN,
        on : BOOLEAN, done : 0..SetupCmds + 1]

(* What of TypeOK the driver needs.                                        *)
DrvType == /\ host \in Host
           /\ ctl \in Ctl
           /\ rxQueue \in Seq(Event)
           /\ randCnt \in Nat
           /\ n \in Nat
           /\ gaveUp \in BOOLEAN

IInv == DrvType /\ DriverComesBack

-----------------------------------------------------------------------------
(* The functions of hci_cmd.c keep the type, take nothing from the write   *)
(* queue, and set the event with everything they put there.                *)

Writes(h, g) == /\ g \in Host
                /\ g.wq = h.wq \/ g.drvEvent
                /\ h.drvEvent => g.drvEvent

LEMMA OpsAreCmds ==
  /\ [op |-> "reset"] \in Cmd /\ [op |-> "rand"] \in Cmd
  /\ [op |-> "secRand"] \in Cmd /\ [op |-> "other"] \in Cmd
  /\ \A i \in 1..SetupCmds : Setup(i) \in Cmd
<1>1. \A i \in 1..SetupCmds : [op |-> "setup", i |-> i] \in [op : {"setup"}, i : 1..SetupCmds]
  OBVIOUS
<1>2. QED
  BY <1>1 DEF Cmd, Setup

LEMMA DrvWriteWrites ==
  ASSUME NEW h \in Host, NEW item \in Cmd \cup {Acl}
  PROVE  Writes(h, DrvWrite(h, item)) /\ DrvWrite(h, item).drvEvent
<1>1. h.wq \in Seq(Cmd \cup {Acl})
  BY DEF Host
<1>2. Append(h.wq, item) \in Seq(Cmd \cup {Acl})
  BY <1>1
<1>3. DrvWrite(h, item) \in Host /\ DrvWrite(h, item).drvEvent
  BY <1>2 DEF DrvWrite, Host
<1>4. QED
  BY <1>3 DEF Writes

LEMMA ServiceWrites ==
  ASSUME NEW h \in Host
  PROVE  Writes(h, Service(h))
<1>1. CASE h.numCmdPkts = 0 \/ h.queue = <<>>
  BY <1>1 DEF Service, Writes
<1>2. CASE ~(h.numCmdPkts = 0 \/ h.queue = <<>>)
  <2> DEFINE g == [h EXCEPT !.queue = Tail(@), !.numCmdPkts = @ - 1, !.timer = TRUE]
  <2>1. h.queue \in Seq(Cmd) /\ h.queue # <<>> /\ h.numCmdPkts = 1
    BY <1>2 DEF Host
  <2>2. Head(h.queue) \in Cmd \cup {Acl} /\ Tail(h.queue) \in Seq(Cmd)
    BY <2>1
  <2>3. h.numCmdPkts - 1 \in 0..1
    BY <2>1
  <2>4. g \in Host /\ g.wq = h.wq /\ g.drvEvent = h.drvEvent
    BY <2>2, <2>3 DEF Host
  <2>5. Service(h) = DrvWrite(g, Head(h.queue))
    BY <1>2 DEF Service
  <2> HIDE DEF g
  <2>6. QED
    BY <2>2, <2>4, <2>5, DrvWriteWrites DEF Writes
<1>3. QED
  BY <1>1, <1>2

LEMMA CmdSendWrites ==
  ASSUME NEW h \in Host, NEW c \in Cmd
  PROVE  Writes(h, CmdSend(h, c))
<1> DEFINE g == [h EXCEPT !.queue = Append(@, c)]
<1>1. h.queue \in Seq(Cmd)
  BY DEF Host
<1>2. Append(h.queue, c) \in Seq(Cmd)
  BY <1>1
<1>3. g \in Host /\ g.wq = h.wq /\ g.drvEvent = h.drvEvent
  BY <1>2 DEF Host
<1> HIDE DEF g
<1>4. QED
  BY <1>3, ServiceWrites DEF CmdSend, Writes, g

LEMMA CmdRecvCmplWrites ==
  ASSUME NEW h \in Host
  PROVE  Writes(h, CmdRecvCmpl(h))
<1> DEFINE g == [h EXCEPT !.timer = FALSE, !.numCmdPkts = 1]
<1>1. 1 \in 0..1
  OBVIOUS
<1>2. g \in Host /\ g.wq = h.wq /\ g.drvEvent = h.drvEvent
  BY <1>1 DEF Host
<1> HIDE DEF g
<1>3. QED
  BY <1>2, ServiceWrites DEF CmdRecvCmpl, Writes, g

LEMMA ResetCmdWrites ==
  ASSUME NEW h \in Host
  PROVE  Writes(h, ResetCmd(h))
<1> DEFINE g == [h EXCEPT !.queue = <<[op |-> "reset"]>>, !.numCmdPkts = 1]
<1>1. <<[op |-> "reset"]>> \in Seq(Cmd)
  BY OpsAreCmds
<1>2. 1 \in 0..1
  OBVIOUS
<1>3. g \in Host /\ g.wq = h.wq /\ g.drvEvent = h.drvEvent
  BY <1>1, <1>2 DEF Host
<1> HIDE DEF g
<1>4. QED
  BY <1>3, ServiceWrites DEF ResetCmd, Writes, g

(* A step of the stack that only writes keeps the driver's invariant.      *)
LEMMA WritesKeep ==
  ASSUME IInv, Writes(host, host'), UNCHANGED <<ctl, n, gaveUp>>,
         rxQueue' \in Seq(Event), randCnt' \in Nat, at # "drv" /\ at' # "drv"
  PROVE  IInv'
BY DEF IInv, DrvType, DriverComesBack, Writes, IRQ

-----------------------------------------------------------------------------
LEMMA FreshCtlType == FreshCtl \in Ctl /\ FreshCtl.out = <<>>
BY CmdAssumption DEF FreshCtl, Ctl

LEMMA OffType ==
  ASSUME NEW c \in Off
  PROVE  c \in Ctl /\ c.out = <<>> /\ c.inbox = <<>> /\ c.done = 0
<1>1. PICK init \in BOOLEAN : c = [FreshCtl EXCEPT !.on = FALSE, !.stalled = init]
  BY DEF Off
<1>2. c = [inbox |-> <<>>, out |-> <<>>, stalled |-> init, on |-> FALSE, done |-> 0]
  BY <1>1 DEF FreshCtl
<1>3. 0 \in 0..SetupCmds + 1
  BY CmdAssumption
<1>4. <<>> \in Seq(Cmd \cup {Acl}) /\ <<>> \in Seq(Event)
  OBVIOUS
<1> QED BY <1>2, <1>3, <1>4 DEF Ctl

LEMMA InitInv == Init => IInv
<1> SUFFICES ASSUME Init PROVE IInv
  OBVIOUS
<1> DEFINE h == [queue |-> <<>>, numCmdPkts |-> 1, timer |-> FALSE,
                 wq |-> <<>>, drvEvent |-> FALSE, beat |-> FALSE]
<1>1. h \in Host
  BY DEF Host
<1>2. host = ResetCmd(h) /\ ctl = FreshCtl /\ rxQueue \in Seq(Event) /\ randCnt = 0 /\ n = 0 /\ gaveUp = FALSE
  BY DEF Init
<1>3. h.wq = <<>>
  OBVIOUS
<1> HIDE DEF h
<1>4. host \in Host /\ (host.wq = <<>> \/ host.drvEvent)
  BY <1>1, <1>2, <1>3, ResetCmdWrites DEF Writes
<1>5. QED
  BY <1>2, <1>4, FreshCtlType DEF IInv, DrvType, DriverComesBack, IRQ

(* After a boot there is nothing to read, and what is left to write was    *)
(* there before.                                                           *)
LEMMA BootKeeps ==
  ASSUME IInv, NEW h \in Host, NEW k, RadioBoot(h, k), UNCHANGED <<randCnt, gaveUp>>,
         n' \in Nat, rxQueue' \in Seq(Event),
         h.wq = <<>> \/ h.drvEvent \/ gaveUp
  PROVE  IInv'
<1>1. CASE host' = [h EXCEPT !.wq = <<>>] /\ ctl' = FreshCtl
  <2>1. <<>> \in Seq(Cmd \cup {Acl})
    OBVIOUS
  <2>2. host' \in Host /\ host'.wq = <<>>
    BY <1>1, <2>1 DEF Host
  <2> QED BY <1>1, <2>2, FreshCtlType DEF IInv, DrvType, DriverComesBack, IRQ
<1>2. CASE host' = h /\ ctl' \in Off
  BY <1>2, OffType DEF IInv, DrvType, DriverComesBack, IRQ
<1> QED BY <1>1, <1>2 DEF RadioBoot

LEMMA RebootKeeps ==
  ASSUME IInv, NEW h \in Host, NEW k, Reboot(h, k), UNCHANGED <<randCnt, gaveUp>>,
         n' \in Nat, rxQueue' \in Seq(Event),
         h.wq = <<>> \/ h.drvEvent \/ gaveUp
  PROVE  IInv'
<1> DEFINE g == [h EXCEPT !.beat = FALSE]
<1>1. g \in Host /\ g.wq = h.wq /\ g.drvEvent = h.drvEvent
  BY DEF Host
<1>2. RadioBoot(g, k)
  BY DEF Reboot
<1> HIDE DEF g
<1>3. QED
  BY <1>1, <1>2, BootKeeps

LEMMA RecoverKeeps ==
  ASSUME IInv, NEW h \in Host, NEW k, Recover(h, k), UNCHANGED <<randCnt, gaveUp>>,
         n' \in Nat, rxQueue' \in Seq(Event)
  PROVE  IInv'
<1> DEFINE g == [h EXCEPT !.wq = <<>>]
<1>0. <<>> \in Seq(Cmd \cup {Acl})
  OBVIOUS
<1>1. g \in Host /\ g.wq = <<>>
  BY <1>0 DEF Host
<1>2. Reboot(g, k)
  BY DEF Recover
<1> HIDE DEF g
<1>3. QED
  BY <1>1, <1>2, RebootKeeps

(* The driver's handler may end where the event is set or no work is left. *)
LEMMA BreakKeeps ==
  ASSUME IInv, NEW h \in Host, NEW c \in Ctl, Break(h, c), rxQueue' \in Seq(Event), UNCHANGED randCnt,
         h.drvEvent \/ (h.wq = <<>> /\ c.out = <<>>)
  PROVE  IInv'
<1>1. n' = 0 /\ gaveUp' = gaveUp
  BY DEF Break, Leave
<1>2. CASE n + 1 = MaxTrans
  BY <1>1, <1>2, RecoverKeeps DEF Break
<1>3. CASE n + 1 # MaxTrans
  BY <1>1, <1>3 DEF Break, IInv, DrvType, DriverComesBack, IRQ
<1>4. QED
  BY <1>2, <1>3

-----------------------------------------------------------------------------
LEMMA StackKeeps ==
  ASSUME IInv, StackCmd \/ Heartbeat \/ SendAcl \/ DmReset \/ CmdTimeout
  PROVE  IInv'
<1> USE OpsAreCmds
<1>0. host \in Host /\ rxQueue \in Seq(Event) /\ n \in Nat /\ randCnt \in Nat
  BY DEF IInv, DrvType
<1>1. CASE StackCmd
  <2>1. PICK o \in StackOps : host' = CmdSend(host, [op |-> o])
    BY <1>1 DEF StackCmd
  <2>2. [op |-> o] \in Cmd
    BY CmdAssumption
  <2>3. QED
    BY <1>0, <1>1, <2>1, <2>2, CmdSendWrites, WritesKeep DEF StackCmd, drvVars, stackVars
<1>2. CASE Heartbeat
  BY <1>0, <1>2, CmdSendWrites, WritesKeep DEF Heartbeat, drvVars, stackVars
<1>3. CASE SendAcl
  BY <1>0, <1>3, DrvWriteWrites, WritesKeep DEF SendAcl, drvVars, stackVars
<1>4. CASE DmReset
  <2>1. host' = host \/ host' = ResetCmd(host)
    BY <1>4 DEF DmReset
  <2>2. Writes(host, host')
    BY <1>0, <2>1, ResetCmdWrites DEF Writes
  <2>3. rxQueue' \in Seq(Event)
    <3>1. rxQueue' = rxQueue \/ rxQueue' = <<>>
      BY <1>4 DEF DmReset
    <3>2. <<>> \in Seq(Event)
      OBVIOUS
    <3>3. QED
      BY <1>0, <3>1, <3>2
  <2>4. QED
    BY <1>0, <1>4, <2>2, <2>3, WritesKeep DEF DmReset, drvVars
<1>5. CASE CmdTimeout
  <2> DEFINE h == [host EXCEPT !.timer = FALSE]
  <2>1. h \in Host /\ h.wq = host.wq /\ h.drvEvent = host.drvEvent
    BY <1>0 DEF Host
  <2>2. host.wq = <<>> \/ host.drvEvent \/ gaveUp
    BY <1>5 DEF CmdTimeout, IInv, DriverComesBack
  <2>3. Reboot(h, 0)
    BY <1>5 DEF CmdTimeout
  <2> HIDE DEF h
  <2>4. QED
    BY <1>0, <1>5, <2>1, <2>2, <2>3, RebootKeeps DEF CmdTimeout, drvVars
<1>6. QED
  BY <1>1, <1>2, <1>3, <1>4, <1>5

LEMMA ResetSequenceWrites ==
  ASSUME NEW h \in Host, NEW c \in Cmd, randCnt \in Nat, ResetSequence(h, c)
  PROVE  Writes(h, host') /\ randCnt' \in Nat
<1> USE OpsAreCmds
<1>1. Writes(h, h)
  BY DEF Writes
<1>2. CASE c.op = "reset"
  <2>1. Setup(1) \in Cmd
    BY CmdAssumption
  <2>2. QED
    BY <1>2, <2>1, CmdSendWrites DEF ResetSequence, stackVars
<1>3. CASE c.op = "setup"
  <2>1. c.i \in 1..SetupCmds
    BY <1>3 DEF Cmd
  <2>2. (IF c.i < SetupCmds THEN Setup(c.i + 1) ELSE [op |-> "rand"]) \in Cmd
    BY <2>1, CmdAssumption
  <2>3. QED
    BY <1>3, <2>2, CmdSendWrites DEF ResetSequence, stackVars
<1>4. CASE c.op \in {"rand", "secRand"}
  <2>1. randCnt < RandCmds - 1 \/ randCnt >= RandCmds - 1
    BY CmdAssumption
  <2>2. /\ host' = h \/ host' = CmdSend(h, [op |-> "rand"])
        /\ randCnt' = randCnt \/ randCnt' = randCnt + 1
    BY <1>4, <2>1 DEF ResetSequence, stackVars
  <2>3. QED
    BY <1>1, <2>2, CmdSendWrites
<1>5. CASE c.op = "other"
  BY <1>1, <1>5 DEF ResetSequence, stackVars
<1>6. QED
  BY <1>2, <1>3, <1>4, <1>5 DEF Cmd

LEMMA CoreKeeps ==
  ASSUME IInv, Core
  PROVE  IInv'
<1>0. host \in Host /\ rxQueue \in Seq(Event) /\ n \in Nat /\ randCnt \in Nat
  BY DEF IInv, DrvType
<1>1. CASE CoreStart \/ CoreDone
  BY <1>1 DEF CoreStart, CoreDone, drvVars, stackVars, IInv, DrvType, DriverComesBack, IRQ
<1>2. CASE CoreAnswer
  <2>1. rxQueue' \in Seq(Event) /\ Head(rxQueue) \in Event
    BY <1>0, <1>2 DEF CoreAnswer
  <2>2. Head(rxQueue).to \in Cmd
    BY <1>2, <2>1 DEF CoreAnswer, Event, Answer
  <2>3. Writes(host, CmdRecvCmpl(host))
    BY <1>0, CmdRecvCmplWrites
  <2>4. \/ host' = CmdRecvCmpl(host) /\ UNCHANGED stackVars
        \/ ResetSequence(CmdRecvCmpl(host), Head(rxQueue).to)
    BY <1>2 DEF CoreAnswer
  <2>5. Writes(host, host') /\ randCnt' \in Nat
    <3>1. CASE host' = CmdRecvCmpl(host) /\ UNCHANGED stackVars
      BY <1>0, <2>3, <3>1 DEF stackVars
    <3>2. CASE ResetSequence(CmdRecvCmpl(host), Head(rxQueue).to)
      <4>1. Writes(CmdRecvCmpl(host), host') /\ randCnt' \in Nat
        BY <1>0, <2>2, <2>3, <3>2, ResetSequenceWrites DEF Writes
      <4>2. QED
        BY <2>3, <4>1 DEF Writes
    <3>3. QED
      BY <2>4, <3>1, <3>2
  <2>6. QED
    BY <1>2, <2>1, <2>5, WritesKeep DEF CoreAnswer, drvVars
<1>3. CASE CoreOther
  <2>1. rxQueue' \in Seq(Event) /\ UNCHANGED <<n, gaveUp, at, randCnt>>
    BY <1>0, <1>3 DEF CoreOther, drvVars
  <2>2. CASE RadioBoot(host, 0)
    <3>1. host.wq = <<>> \/ host.drvEvent \/ gaveUp
      BY <1>3 DEF CoreOther, IInv, DriverComesBack
    <3>2. QED
      BY <1>0, <2>1, <2>2, <3>1, BootKeeps
  <2>3. CASE ~RadioBoot(host, 0)
    <3>1. UNCHANGED <<host, ctl>>
      BY <1>3, <2>3 DEF CoreOther
    <3>2. QED
      BY <2>1, <3>1 DEF IInv, DrvType, DriverComesBack, IRQ
  <2>4. QED
    BY <2>2, <2>3
<1>4. QED
  BY <1>1, <1>2, <1>3 DEF Core

LEMMA DrvKeeps ==
  ASSUME IInv, DrvStart \/ Drv \/ DrvReadFail
  PROVE  IInv'
<1>0. /\ host \in Host /\ ctl \in Ctl /\ rxQueue \in Seq(Event)
      /\ n \in Nat /\ randCnt \in Nat /\ gaveUp \in BOOLEAN
  BY DEF IInv, DrvType
<1>1. CASE DrvStart
  <2>1. host' \in Host /\ at' = "drv" /\ gaveUp' \in BOOLEAN
    BY <1>0, <1>1 DEF DrvStart, Host
  <2>2. QED
    BY <1>0, <1>1, <2>1 DEF DrvStart, stackVars, IInv, DrvType, DriverComesBack
<1>2. CASE DrvRead
  <2>1. ctl.out \in Seq(Event) /\ ctl.out # <<>>
    BY <1>0, <1>2 DEF DrvRead, IRQ, Ctl
  <2>2. Head(ctl.out) \in Event /\ Tail(ctl.out) \in Seq(Event)
    BY <2>1
  <2>3. rxQueue' \in Seq(Event) /\ randCnt' = randCnt
    BY <1>0, <1>2, <2>2 DEF DrvRead
  <2>4. Read \in Ctl
    BY <1>0, <2>2 DEF Read, Ctl
  <2>5. CASE reads + 1 >= MaxRead
    <3> DEFINE h == [host EXCEPT !.beat = TRUE, !.drvEvent = TRUE]
    <3>1. h \in Host /\ h.drvEvent
      BY <1>0 DEF Host
    <3>2. Break(h, Read)
      BY <1>2, <2>5 DEF DrvRead
    <3> HIDE DEF h
    <3>3. QED
      BY <2>3, <2>4, <3>1, <3>2, BreakKeeps
  <2>6. CASE ~(reads + 1 >= MaxRead)
    <3>0. host' = [host EXCEPT !.beat = TRUE]
      BY <1>2, <2>6 DEF DrvRead
    <3>1. host' \in Host /\ ctl' \in Ctl /\ n' \in Nat /\ gaveUp' = gaveUp /\ at' = "drv" /\ randCnt' = randCnt
      <4>1. host' \in Host
        BY <1>0, <3>0 DEF Host
      <4>2. QED
        BY <1>0, <1>2, <2>4, <2>6, <4>1 DEF DrvRead, InLoop
    <3>2. QED
      BY <1>0, <2>3, <3>1 DEF IInv, DrvType, DriverComesBack
  <2>7. QED
    BY <2>5, <2>6
<1>3. CASE DrvEmpty
  <2>1. Break(host, ctl) /\ host.wq = <<>> /\ ctl.out = <<>> /\ UNCHANGED <<rxQueue, randCnt>>
    BY <1>3 DEF DrvEmpty, IRQ
  <2>2. QED
    BY <1>0, <2>1, BreakKeeps
<1>4. CASE DrvWriteOk
  <2>1. host.wq \in Seq(Cmd \cup {Acl}) /\ host.wq # <<>>
    BY <1>0, <1>4 DEF DrvWriteOk, Host
  <2>2. Head(host.wq) \in Cmd \cup {Acl} /\ Tail(host.wq) \in Seq(Cmd \cup {Acl})
    BY <2>1
  <2>3. host' \in Host
    BY <1>0, <1>4, <2>2 DEF DrvWriteOk, Host
  <2>4. ctl' \in Ctl
    <3>1. ctl.inbox \in Seq(Cmd \cup {Acl})
      BY <1>0 DEF Ctl
    <3>2. Append(ctl.inbox, Head(host.wq)) \in Seq(Cmd \cup {Acl})
      BY <2>2, <3>1
    <3>3. ctl' = [ctl EXCEPT !.inbox = Append(@, Head(host.wq))] \/ ctl' = ctl
      BY <1>4 DEF DrvWriteOk
    <3>4. QED
      BY <1>0, <3>2, <3>3 DEF Ctl
  <2>5. n' \in Nat /\ at' = "drv" /\ UNCHANGED <<rxQueue, randCnt, gaveUp>>
    BY <1>4 DEF DrvWriteOk, InLoop, stackVars
  <2>6. QED
    BY <1>0, <2>3, <2>4, <2>5 DEF IInv, DrvType, DriverComesBack
<1>5. CASE DrvWriteFail
  <2>1. UNCHANGED <<rxQueue, randCnt>>
    BY <1>5 DEF DrvWriteFail
  <2>2. CASE retries + 1 > MaxRetries
    <3> DEFINE h == [host EXCEPT !.drvEvent = TRUE]
    <3>1. h \in Host /\ h.drvEvent
      BY <1>0 DEF Host
    <3>2. Break(h, ctl)
      BY <1>5, <2>2 DEF DrvWriteFail
    <3> HIDE DEF h
    <3>3. QED
      BY <1>0, <2>1, <3>1, <3>2, BreakKeeps
  <2>3. CASE ~(retries + 1 > MaxRetries)
    <3>1. UNCHANGED <<host, ctl, gaveUp>> /\ n' \in Nat /\ at' = "drv"
      BY <1>0, <1>5, <2>3 DEF DrvWriteFail, InLoop
    <3>2. QED
      BY <1>0, <2>1, <3>1 DEF IInv, DrvType, DriverComesBack
  <2>4. QED
    BY <2>2, <2>3
<1>6. CASE DrvExhausted
  BY <1>0, <1>6 DEF DrvExhausted, stackVars, Leave, IInv, DrvType, DriverComesBack
<1>7. CASE DrvReadFail
  BY <1>0, <1>7, RecoverKeeps DEF DrvReadFail, Leave
<1>8. QED
  BY <1>1, <1>2, <1>3, <1>4, <1>5, <1>6, <1>7 DEF Drv

(* The interrupt comes with the first packet of several: it is for all.    *)
LEMMA RaiseKeeps ==
  ASSUME IInv, NEW e \in Event, NEW done \in 0..SetupCmds + 1,
         NEW rest \in Seq(Cmd \cup {Acl}), Raise(e, done, rest)
  PROVE  IInv'
<1>0. host \in Host /\ ctl \in Ctl
  BY DEF IInv, DrvType
<1>1. ctl' \in Ctl
  <2>1. ctl.out \in Seq(Event)
    BY <1>0 DEF Ctl
  <2>2. Append(ctl.out, e) \in Seq(Event)
    BY <2>1
  <2>3. ctl' = [ctl EXCEPT !.out = Append(@, e), !.done = done, !.inbox = rest]
    BY DEF Raise
  <2>4. QED
    BY <1>0, <2>2, <2>3 DEF Ctl
<1>2. host' \in Host /\ (IRQ => host' = host) /\ (~IRQ => host'.drvEvent)
  BY <1>0 DEF Raise, Host
<1>3. UNCHANGED <<rxQueue, randCnt, n, gaveUp, at>>
  BY DEF Raise, drvVars, stackVars
<1>4. QED
  BY <1>1, <1>2, <1>3 DEF IInv, DrvType, DriverComesBack

LEMMA CtlKeeps ==
  ASSUME IInv, CtlAnswer \/ CtlHwError \/ CtlStall \/ CtlResume
  PROVE  IInv'
<1>0. ctl \in Ctl /\ ctl.inbox \in Seq(Cmd \cup {Acl}) /\ ctl.done \in 0..SetupCmds + 1
  BY DEF IInv, DrvType, Ctl
<1>1. CASE CtlAnswer
  <2> DEFINE p == Head(ctl.inbox)
  <2>1. p \in Cmd \cup {Acl} /\ Tail(ctl.inbox) \in Seq(Cmd \cup {Acl})
    BY <1>0, <1>1 DEF CtlAnswer
  <2>2. CASE p = Acl
    <3>1. Cmpl \in Event
      BY DEF Cmpl, Event
    <3>2. QED
      BY <1>0, <1>1, <2>1, <2>2, <3>1, RaiseKeeps DEF CtlAnswer
  <2>3. CASE p # Acl
    <3>1. [type |-> "answer", to |-> p] \in Event
      BY <2>1, <2>3 DEF Event, Answer
    <3>2. Done(p) \in 0..SetupCmds + 1
      BY <1>0, <2>1, <2>3, CmdAssumption DEF Done, Cmd
    <3>3. QED
      BY <1>1, <2>1, <2>3, <3>1, <3>2, RaiseKeeps DEF CtlAnswer
  <2>4. QED
    BY <2>2, <2>3
<1>2. CASE CtlHwError
  <2>1. [type |-> "hwError"] \in Event
    BY DEF Event
  <2>2. QED
    BY <1>0, <1>2, <2>1, RaiseKeeps DEF CtlHwError
<1>3. CASE CtlStall \/ CtlResume
  <2>1. ctl' \in Ctl /\ ctl'.out = ctl.out
    BY <1>0, <1>3 DEF CtlStall, CtlResume, Ctl
  <2>2. UNCHANGED <<host, rxQueue, randCnt, n, gaveUp, at>>
    BY <1>3 DEF CtlStall, CtlResume, drvVars, stackVars
  <2>3. QED
    BY <2>1, <2>2 DEF IInv, DrvType, DriverComesBack, IRQ
<1>4. QED
  BY <1>1, <1>2, <1>3

(* The driver never stops with work left and no event to bring it back,    *)
(* unless its loop ran out of rounds, however commands, packets, faults,   *)
(* boots and resets interleave, and whatever the limits of the loop        *)
(* (hci_drv_apollo3.c:1083-1241).                                          *)
THEOREM DriverAlwaysComesBack == Spec => []DriverComesBack
<1>1. ASSUME IInv, [Next]_vars PROVE IInv'
  <2>1. CASE UNCHANGED vars
    BY <1>1, <2>1 DEF vars, stackVars, drvVars, IInv, DrvType, DriverComesBack, IRQ
  <2>2. QED
    BY <1>1, <2>1, StackKeeps, CoreKeeps, DrvKeeps, CtlKeeps DEF Next
<1>2. IInv => DriverComesBack
  BY DEF IInv
<1>3. QED
  BY InitInv, <1>1, <1>2, PTL DEF Spec

-----------------------------------------------------------------------------
(* How many elements of a kind there are in a sequence: Count.             *)

LEMMA CountIs ==
  ASSUME NEW s, NEW Kind
  PROVE Count(s, Kind) = Cardinality({i \in DOMAIN s : s[i] \in Kind})
BY DEF Count, Quantify

LEMMA CountFinite ==
  ASSUME NEW T, NEW s \in Seq(T), NEW Kind
  PROVE  /\ Count(s, Kind) \in Nat
         /\ IsFiniteSet({i \in DOMAIN s : s[i] \in Kind})
<1>1. DOMAIN s = 1..Len(s) /\ Len(s) \in Nat
  OBVIOUS
<1>2. IsFiniteSet(DOMAIN s)
  BY <1>1, FS_Interval
<1>3. {i \in DOMAIN s : s[i] \in Kind} \in SUBSET DOMAIN s
  OBVIOUS
<1>4. QED
  BY <1>2, <1>3, CountIs, FS_Subset, FS_CardinalityType

LEMMA CountNat == \A T, Kind : \A s \in Seq(T) : Count(s, Kind) \in Nat
BY CountFinite

LEMMA CountEmpty == \A Kind : Count(<<>>, Kind) = 0
<1> TAKE Kind
<1>1. {i \in DOMAIN <<>> : <<>>[i] \in Kind} = {}
  OBVIOUS
<1>2. QED
  BY <1>1, CountIs, FS_EmptySet

(* One more at the end.                                                    *)
LEMMA CountAppend ==
  ASSUME NEW T, NEW s \in Seq(T), NEW e \in T, NEW Kind
  PROVE  Count(Append(s, e), Kind) = Count(s, Kind) + (IF e \in Kind THEN 1 ELSE 0)
<1> DEFINE A == {i \in DOMAIN s : s[i] \in Kind}
           B == {i \in DOMAIN Append(s, e) : Append(s, e)[i] \in Kind}
<1>1. /\ DOMAIN s = 1..Len(s) /\ DOMAIN Append(s, e) = 1..Len(s) + 1 /\ Len(s) \in Nat
      /\ \A i \in 1..Len(s) : Append(s, e)[i] = s[i]
      /\ Append(s, e)[Len(s) + 1] = e
  OBVIOUS
<1>2. /\ Len(s) + 1 \notin A
      /\ IsFiniteSet(A) /\ Cardinality(A) = Count(s, Kind) /\ Cardinality(A) \in Nat
      /\ Cardinality(B) = Count(Append(s, e), Kind)
  <2>1. Len(s) + 1 \notin A
    BY <1>1
  <2>2. Cardinality(A) = Count(s, Kind) /\ Cardinality(B) = Count(Append(s, e), Kind)
    BY CountIs, Zenon
  <2>3. IsFiniteSet(A) /\ Count(s, Kind) \in Nat
    BY CountFinite
  <2>4. QED
    BY <2>1, <2>2, <2>3
<1>3. CASE e \in Kind
  <2>1. B = A \cup {Len(s) + 1}
    BY <1>1, <1>3
  <2> HIDE DEF A, B
  <2>2. QED
    BY <1>2, <1>3, <2>1, FS_AddElement
<1>4. CASE e \notin Kind
  <2>1. B = A
    BY <1>1, <1>4
  <2> HIDE DEF A, B
  <2>2. QED
    BY <1>2, <1>4, <2>1
<1>5. QED
  BY <1>3, <1>4

(* One less at the front.                                                  *)
LEMMA CountTail ==
  ASSUME NEW T, NEW s \in Seq(T), s # <<>>, NEW Kind
  PROVE  Count(s, Kind) = Count(Tail(s), Kind) + (IF Head(s) \in Kind THEN 1 ELSE 0)
<1> DEFINE A == {i \in DOMAIN s : s[i] \in Kind}
           B == {i \in DOMAIN Tail(s) : Tail(s)[i] \in Kind}
           f == [i \in B |-> i + 1]
<1>1. /\ DOMAIN s = 1..Len(s) /\ DOMAIN Tail(s) = 1..Len(s) - 1 /\ Len(s) \in Nat \ {0}
      /\ \A i \in 1..Len(s) - 1 : Tail(s)[i] = s[i + 1]
      /\ Head(s) = s[1] /\ Tail(s) \in Seq(T)
  OBVIOUS
<1>2. f \in Bijection(B, A \ {1})
  <2>1. \A i \in B : i \in Nat \ {0} /\ i + 1 \in A \ {1}
    BY <1>1
  <2>2. \A j \in A \ {1} : j - 1 \in B /\ (j - 1) + 1 = j
    BY <1>1
  <2>3. \A i, j \in B : i + 1 = j + 1 => i = j
    BY <2>1
  <2> HIDE DEF A, B
  <2>4. f \in [B -> A \ {1}]
    BY <2>1
  <2>5. \A j \in A \ {1} : \E i \in B : f[i] = j
    BY <2>2
  <2>6. QED
    BY <2>3, <2>4, <2>5 DEF Bijection, Injection, Surjection, IsInjective
<1>3. Cardinality(A \ {1}) = Cardinality(B)
  <2>1. IsFiniteSet(B)
    BY <1>1, CountFinite
  <2> HIDE DEF A, B, f
  <2>2. QED
    BY <1>2, <2>1, FS_Bijection DEF ExistsBijection
<1>4. 1 \in A <=> Head(s) \in Kind
  BY <1>1
<1>5. /\ IsFiniteSet(A) /\ Cardinality(A) = Count(s, Kind) /\ Cardinality(A) \in Nat
      /\ Cardinality(B) = Count(Tail(s), Kind) /\ Cardinality(B) \in Nat
  BY <1>1, CountIs, CountFinite
<1> HIDE DEF A, B, f
<1>6. Cardinality(A \ {1}) = IF 1 \in A THEN Cardinality(A) - 1 ELSE Cardinality(A)
  BY <1>5, FS_RemoveElement
<1>7. QED
  BY <1>3, <1>4, <1>5, <1>6

-----------------------------------------------------------------------------
(* The command the controller may be sent, and those on their way to it in *)
(* the write queue.  hciCmdSend turns one into the other.                  *)
Load(h) == h.numCmdPkts + Count(h.wq, Cmd)

(* One more than those for every reset over an unanswered command.         *)
CountInv == overtaken \in Nat /\ OneCommandOut

LEMMA CountsNat ==
  ASSUME DrvType
  PROVE  /\ host.numCmdPkts \in Nat
         /\ Count(host.wq, Cmd) \in Nat /\ Count(ctl.inbox, Cmd) \in Nat
         /\ Count(ctl.out, Answer) \in Nat /\ Count(rxQueue, Answer) \in Nat
<1>1. /\ host.wq \in Seq(Cmd \cup {Acl}) /\ ctl.inbox \in Seq(Cmd \cup {Acl})
      /\ ctl.out \in Seq(Event) /\ rxQueue \in Seq(Event) /\ host.numCmdPkts \in 0..1
  BY DEF DrvType, Host, Ctl
<1>2. QED
  BY <1>1, CountNat

LEMMA DrvWriteLoad ==
  ASSUME NEW h \in Host, NEW item \in Cmd \cup {Acl}
  PROVE  /\ DrvWrite(h, item).numCmdPkts = h.numCmdPkts
         /\ Count(DrvWrite(h, item).wq, Cmd) = Count(h.wq, Cmd) + (IF item \in Cmd THEN 1 ELSE 0)
<1>1. h.wq \in Seq(Cmd \cup {Acl})
  BY DEF Host
<1>2. DrvWrite(h, item).wq = Append(h.wq, item) /\ DrvWrite(h, item).numCmdPkts = h.numCmdPkts
  BY DEF DrvWrite, Host
<1>3. QED
  BY <1>1, <1>2, CountAppend

LEMMA ServiceLoad ==
  ASSUME NEW h \in Host
  PROVE  Load(Service(h)) = Load(h)
<1>1. CASE h.numCmdPkts = 0 \/ h.queue = <<>>
  BY <1>1 DEF Service
<1>2. CASE ~(h.numCmdPkts = 0 \/ h.queue = <<>>)
  <2> DEFINE g == [h EXCEPT !.queue = Tail(@), !.numCmdPkts = @ - 1, !.timer = TRUE]
  <2>1. h.queue \in Seq(Cmd) /\ h.queue # <<>> /\ h.numCmdPkts = 1
    BY <1>2 DEF Host
  <2>2. Head(h.queue) \in Cmd /\ Tail(h.queue) \in Seq(Cmd)
    BY <2>1
  <2>3. h.numCmdPkts - 1 = 0 /\ 0 \in 0..1
    BY <2>1
  <2>4. g \in Host /\ g.wq = h.wq /\ g.numCmdPkts = 0
    BY <2>2, <2>3 DEF Host
  <2>5. Service(h) = DrvWrite(g, Head(h.queue))
    BY <1>2 DEF Service
  <2>6. Count(h.wq, Cmd) \in Nat
    BY CountNat DEF Host
  <2> HIDE DEF g
  <2>7. Service(h).numCmdPkts = 0 /\ Count(Service(h).wq, Cmd) = Count(h.wq, Cmd) + 1
    BY <2>2, <2>4, <2>5, DrvWriteLoad
  <2>8. QED
    BY <2>1, <2>6, <2>7 DEF Load
<1>3. QED
  BY <1>1, <1>2

LEMMA CmdSendLoad ==
  ASSUME NEW h \in Host, NEW c \in Cmd
  PROVE  Load(CmdSend(h, c)) = Load(h)
<1> DEFINE g == [h EXCEPT !.queue = Append(@, c)]
<1>1. Append(h.queue, c) \in Seq(Cmd)
  BY DEF Host
<1>2. g \in Host /\ g.wq = h.wq /\ g.numCmdPkts = h.numCmdPkts
  BY <1>1 DEF Host
<1> HIDE DEF g
<1>3. QED
  BY <1>2, ServiceLoad DEF CmdSend, Load, g

LEMMA CmdRecvCmplLoad ==
  ASSUME NEW h \in Host
  PROVE  Load(CmdRecvCmpl(h)) = 1 + Count(h.wq, Cmd)
<1> DEFINE g == [h EXCEPT !.timer = FALSE, !.numCmdPkts = 1]
<1>1. 1 \in 0..1
  OBVIOUS
<1>2. g \in Host /\ g.wq = h.wq /\ g.numCmdPkts = 1
  BY <1>1 DEF Host
<1> HIDE DEF g
<1>3. QED
  BY <1>2, ServiceLoad DEF CmdRecvCmpl, Load, g

LEMMA ResetCmdLoad ==
  ASSUME NEW h \in Host
  PROVE  Load(ResetCmd(h)) = 1 + Count(h.wq, Cmd)
<1> DEFINE g == [h EXCEPT !.queue = <<[op |-> "reset"]>>, !.numCmdPkts = 1]
<1>1. <<[op |-> "reset"]>> \in Seq(Cmd) /\ 1 \in 0..1
  BY OpsAreCmds
<1>2. g \in Host /\ g.wq = h.wq /\ g.numCmdPkts = 1
  BY <1>1 DEF Host
<1> HIDE DEF g
<1>3. QED
  BY <1>2, ServiceLoad DEF ResetCmd, Load, g

(* The command after an answer is one of those waiting.                    *)
LEMMA ResetSequenceLoad ==
  ASSUME NEW h \in Host, NEW c \in Cmd, randCnt \in Nat, ResetSequence(h, c)
  PROVE  Load(host') = Load(h)
<1> USE OpsAreCmds
<1>1. CASE c.op = "reset"
  BY <1>1, CmdAssumption, CmdSendLoad DEF ResetSequence
<1>2. CASE c.op = "setup"
  <2>1. c.i \in 1..SetupCmds
    BY <1>2 DEF Cmd
  <2>2. (IF c.i < SetupCmds THEN Setup(c.i + 1) ELSE [op |-> "rand"]) \in Cmd
    BY <2>1, CmdAssumption
  <2>3. QED
    BY <1>2, <2>2, CmdSendLoad DEF ResetSequence
<1>3. CASE c.op \in {"rand", "secRand"}
  <2>1. randCnt < RandCmds - 1 \/ randCnt >= RandCmds - 1
    BY CmdAssumption
  <2>2. host' = h \/ host' = CmdSend(h, [op |-> "rand"])
    BY <1>3, <2>1 DEF ResetSequence
  <2>3. QED
    BY <2>2, CmdSendLoad
<1>4. CASE c.op = "other"
  BY <1>4 DEF ResetSequence
<1>5. QED
  BY <1>1, <1>2, <1>3, <1>4 DEF Cmd

-----------------------------------------------------------------------------
LEMMA AclIsNoCmd == Acl \notin Cmd
BY DEF Acl, Cmd

LEMMA InitCount == Init => CountInv
<1> SUFFICES ASSUME Init PROVE CountInv
  OBVIOUS
<1> DEFINE h == [queue |-> <<>>, numCmdPkts |-> 1, timer |-> FALSE,
                 wq |-> <<>>, drvEvent |-> FALSE, beat |-> FALSE]
<1>1. h \in Host /\ h.wq = <<>>
  BY DEF Host
<1>2. host = ResetCmd(h) /\ ctl = FreshCtl /\ rxQueue = <<>> /\ overtaken = 0
  BY DEF Init
<1> HIDE DEF h
<1>3. Load(host) = 1
  BY <1>1, <1>2, ResetCmdLoad, CountEmpty
<1>4. /\ Count(ctl.inbox, Cmd) = 0
      /\ Count(ctl.out, Answer) = 0 /\ Count(rxQueue, Answer) = 0
  BY <1>2, CountEmpty DEF FreshCtl
<1>5. DrvType
  BY InitInv DEF IInv
<1>6. QED
  BY <1>2, <1>3, <1>4, <1>5, CountsNat DEF CountInv, OneCommandOut, Sent, Answers, Load

(* A step that moves nothing but what Load counts.                         *)
LEMMA LoadKeeps ==
  ASSUME IInv, CountInv, host' \in Host, Load(host') = Load(host),
         UNCHANGED <<ctl, rxQueue, overtaken>>
  PROVE  CountInv'
<1>1. host'.numCmdPkts \in Nat /\ Count(host'.wq, Cmd) \in Nat
  <2>1. host'.numCmdPkts \in 0..1 /\ host'.wq \in Seq(Cmd \cup {Acl})
    BY DEF Host
  <2>2. QED
    BY <2>1, CountNat
<1>2. QED
  BY <1>1, CountsNat DEF IInv, CountInv, OneCommandOut, Sent, Answers, Load

(* A boot drops what is on its way, but for what a failed one leaves in    *)
(* the write queue; what has been read stays, and the answer that was read *)
(* in the same step was counted before.                                    *)
LEMMA BootCount ==
  ASSUME IInv, CountInv, NEW h \in Host, NEW k, RadioBoot(h, k), h.numCmdPkts = host.numCmdPkts,
         h.wq = host.wq \/ h.wq = <<>>,
         Count(rxQueue', Answer) \in Nat,
         Count(rxQueue', Answer) <= Count(ctl.out, Answer) + Count(rxQueue, Answer)
  PROVE  CountInv'
<1>1. host'.numCmdPkts = host.numCmdPkts /\ (host'.wq = <<>> \/ host'.wq = host.wq)
  BY DEF RadioBoot, Host
<1>2. ctl'.inbox = <<>> /\ ctl'.out = <<>>
  BY OffType DEF RadioBoot, FreshCtl
<1>3. /\ Count(host'.wq, Cmd) \in Nat /\ Count(host'.wq, Cmd) <= Count(host.wq, Cmd)
      /\ Count(ctl'.inbox, Cmd) = 0 /\ Count(ctl'.out, Answer) = 0
  BY <1>1, <1>2, CountEmpty, CountsNat DEF IInv
<1>4. overtaken' = overtaken
  BY DEF RadioBoot
<1>5. Sent' <= Sent /\ Sent \in Nat /\ Sent' \in Nat
  BY <1>3, CountsNat DEF IInv, Sent
<1>6. Answers' <= Answers /\ Answers \in Nat /\ Answers' \in Nat
  BY <1>3, CountsNat DEF IInv, Answers
<1>7. QED
  BY <1>1, <1>4, <1>5, <1>6, CountsNat DEF IInv, CountInv, OneCommandOut

LEMMA RebootCount ==
  ASSUME IInv, CountInv, NEW h \in Host, NEW k, Reboot(h, k), h.numCmdPkts = host.numCmdPkts,
         h.wq = host.wq \/ h.wq = <<>>,
         Count(rxQueue', Answer) \in Nat,
         Count(rxQueue', Answer) <= Count(ctl.out, Answer) + Count(rxQueue, Answer)
  PROVE  CountInv'
<1> DEFINE g == [h EXCEPT !.beat = FALSE]
<1>1. g \in Host /\ g.numCmdPkts = h.numCmdPkts /\ g.wq = h.wq
  BY DEF Host
<1>2. RadioBoot(g, k)
  BY DEF Reboot
<1> HIDE DEF g
<1>3. QED
  BY <1>1, <1>2, BootCount

LEMMA RecoverCount ==
  ASSUME IInv, CountInv, NEW h \in Host, NEW k, Recover(h, k), h.numCmdPkts = host.numCmdPkts,
         Count(rxQueue', Answer) \in Nat,
         Count(rxQueue', Answer) <= Count(ctl.out, Answer) + Count(rxQueue, Answer)
  PROVE  CountInv'
<1> DEFINE g == [h EXCEPT !.wq = <<>>]
<1>0. <<>> \in Seq(Cmd \cup {Acl})
  OBVIOUS
<1>1. g \in Host /\ g.numCmdPkts = h.numCmdPkts /\ g.wq = <<>>
  BY <1>0 DEF Host
<1>2. Reboot(g, k)
  BY DEF Recover
<1> HIDE DEF g
<1>3. QED
  BY <1>1, <1>2, RebootCount

LEMMA BreakCount ==
  ASSUME IInv, CountInv, NEW h \in Host, NEW c \in Ctl, Break(h, c),
         h.numCmdPkts = host.numCmdPkts, h.wq = host.wq,
         Count(c.inbox, Cmd) = Count(ctl.inbox, Cmd),
         Count(rxQueue', Answer) \in Nat, Count(c.out, Answer) \in Nat,
         Count(c.out, Answer) + Count(rxQueue', Answer)
           = Count(ctl.out, Answer) + Count(rxQueue, Answer)
  PROVE  CountInv'
<1>1. CASE n + 1 = MaxTrans
  <2>1. Count(rxQueue', Answer) <= Count(ctl.out, Answer) + Count(rxQueue, Answer)
    BY CountsNat DEF IInv
  <2>2. QED
    BY <1>1, <2>1, RecoverCount DEF Break
<1>2. CASE n + 1 # MaxTrans
  <2>1. host' = h /\ ctl' = c /\ overtaken' = overtaken
    BY <1>2 DEF Break, history
  <2>2. QED
    BY <2>1, CountsNat DEF IInv, CountInv, OneCommandOut, Sent, Answers
<1>3. QED
  BY <1>1, <1>2

-----------------------------------------------------------------------------
LEMMA StackCount ==
  ASSUME IInv, CountInv, StackCmd \/ Heartbeat \/ SendAcl \/ DmReset \/ CmdTimeout
  PROVE  CountInv'
<1> USE OpsAreCmds
<1>0. host \in Host /\ host' \in Host
  BY StackKeeps DEF IInv, DrvType
<1>1. CASE StackCmd
  <2>1. PICK o \in StackOps : host' = CmdSend(host, [op |-> o])
    BY <1>1 DEF StackCmd
  <2>2. [op |-> o] \in Cmd
    BY CmdAssumption
  <2>3. QED
    BY <1>0, <1>1, <2>1, <2>2, CmdSendLoad, LoadKeeps DEF StackCmd, history
<1>2. CASE Heartbeat
  BY <1>0, <1>2, CmdSendLoad, LoadKeeps DEF Heartbeat, history
<1>3. CASE SendAcl
  <2>1. host' = DrvWrite(host, Acl) /\ UNCHANGED <<ctl, rxQueue, overtaken>>
    BY <1>3 DEF SendAcl, history
  <2>2. Load(host') = Load(host)
    BY <1>0, <2>1, DrvWriteLoad, AclIsNoCmd, CountsNat DEF Load, IInv
  <2>3. QED
    BY <1>0, <2>1, <2>2, LoadKeeps
<1>4. CASE DmReset
  <2>1. CASE dm.resetting
    BY <1>0, <1>4, <2>1, LoadKeeps DEF DmReset
  <2>2. CASE ~dm.resetting
    <3>1. /\ host' = ResetCmd(host) /\ ctl' = ctl /\ rxQueue' = <<>>
          /\ overtaken' = overtaken + (IF Unanswered THEN 1 ELSE 0)
      BY <1>4, <2>2 DEF DmReset
    <3>2. Load(host') = 1 + Count(host.wq, Cmd)
      BY <1>0, <3>1, ResetCmdLoad
    <3>3. host'.numCmdPkts \in Nat /\ Count(host'.wq, Cmd) \in Nat
      BY <1>0, CountNat DEF Host
    <3>4. /\ Count(rxQueue', Answer) = 0
          /\ Count(ctl'.inbox, Cmd) = Count(ctl.inbox, Cmd) /\ Count(ctl'.out, Answer) = Count(ctl.out, Answer)
      BY <3>1, CountEmpty
    <3>5. Sent' + Answers' + host'.numCmdPkts = 1 + Sent + Count(ctl.out, Answer)
      BY <3>2, <3>3, <3>4, CountsNat DEF Load, Sent, Answers, IInv
    <3>6. Sent \in Nat /\ Sent' \in Nat /\ Answers' \in Nat
      BY <3>3, <3>4, CountsNat DEF Sent, Answers, IInv
    <3>7. /\ Sent + Count(ctl.out, Answer) <= 1 + overtaken /\ overtaken \in Nat
          /\ Count(ctl.out, Answer) \in Nat
      BY <3>6, CountsNat DEF CountInv, OneCommandOut, Answers, IInv
    <3>8. Sent' + Answers' + host'.numCmdPkts <= 1 + overtaken' /\ overtaken' \in Nat
      <4>1. CASE Unanswered
        BY <3>1, <3>5, <3>6, <3>7, <4>1
      <4>2. CASE ~Unanswered
        <5>1. Sent = 0 /\ Count(ctl.out, Answer) = 0
          BY <3>6, <3>7, <4>2 DEF Unanswered
        <5>2. QED
          BY <3>1, <3>5, <3>6, <3>7, <4>2, <5>1
      <4>3. QED
        BY <4>1, <4>2
    <3>9. QED
      BY <3>3, <3>6, <3>8 DEF CountInv, OneCommandOut
  <2>3. QED
    BY <2>1, <2>2
<1>5. CASE CmdTimeout
  <2> DEFINE h == [host EXCEPT !.timer = FALSE]
  <2>1. h \in Host /\ h.numCmdPkts = host.numCmdPkts /\ h.wq = host.wq
    BY <1>0 DEF Host
  <2>2. rxQueue' = rxQueue /\ Reboot(h, 0)
    BY <1>5 DEF CmdTimeout
  <2>3. Count(rxQueue, Answer) <= Count(ctl.out, Answer) + Count(rxQueue, Answer)
    BY CountsNat DEF IInv
  <2> HIDE DEF h
  <2>4. QED
    BY <2>1, <2>2, <2>3, RebootCount, CountsNat DEF IInv
<1>6. QED
  BY <1>1, <1>2, <1>3, <1>4, <1>5

(* The answer that is handled makes room for one command.                  *)
LEMMA CoreCount ==
  ASSUME IInv, CountInv, Core
  PROVE  CountInv'
<1>0. host \in Host /\ host' \in Host /\ rxQueue \in Seq(Event) /\ randCnt \in Nat
  BY CoreKeeps DEF IInv, DrvType
<1>1. CASE CoreStart \/ CoreDone
  BY <1>0, <1>1, LoadKeeps DEF CoreStart, CoreDone, history
<1>2. CASE CoreAnswer
  <2>1. /\ rxQueue # <<>> /\ rxQueue' = Tail(rxQueue) /\ Head(rxQueue).type = "answer"
        /\ UNCHANGED <<ctl, overtaken>>
    BY <1>2 DEF CoreAnswer
  <2>2. Head(rxQueue) \in Answer
    BY <1>0, <2>1 DEF Event
  <2>3. Head(rxQueue).to \in Cmd
    BY <2>2 DEF Answer
  <2>4. CmdRecvCmpl(host) \in Host
    BY <1>0, CmdRecvCmplWrites DEF Writes
  <2>5. Load(host') = Load(CmdRecvCmpl(host))
    <3>1. CASE resetting
      BY <1>0, <1>2, <2>3, <2>4, <3>1, ResetSequenceLoad DEF CoreAnswer
    <3>2. CASE ~resetting
      BY <1>2, <3>2 DEF CoreAnswer
    <3>3. QED
      BY <3>1, <3>2
  <2>6. Load(host') = 1 + Count(host.wq, Cmd)
    BY <1>0, <2>5, CmdRecvCmplLoad
  <2>7. Count(rxQueue, Answer) = Count(rxQueue', Answer) + 1
    BY <1>0, <2>1, <2>2, CountTail
  <2>8. Count(rxQueue', Answer) \in Nat
    <3>1. rxQueue' \in Seq(Event)
      BY <1>0, <2>1
    <3>2. QED
      BY <3>1, CountNat
  <2>9. host'.numCmdPkts \in Nat /\ Count(host'.wq, Cmd) \in Nat
    BY <1>0, CountNat DEF Host
  <2>10. /\ host.numCmdPkts + (Count(host.wq, Cmd) + Count(ctl.inbox, Cmd))
            + (Count(ctl.out, Answer) + Count(rxQueue, Answer)) <= 1 + overtaken
         /\ overtaken \in Nat
    BY DEF CountInv, OneCommandOut, Sent, Answers
  <2>11. host'.numCmdPkts + (Count(host'.wq, Cmd) + Count(ctl.inbox, Cmd))
           + (Count(ctl.out, Answer) + Count(rxQueue', Answer)) <= 1 + overtaken
    BY <2>6, <2>7, <2>8, <2>9, <2>10, CountsNat DEF IInv, Load
  <2>12. QED
    BY <2>1, <2>10, <2>11 DEF CountInv, OneCommandOut, Sent, Answers
<1>3. CASE CoreOther
  <2>1. rxQueue' = Tail(rxQueue) /\ rxQueue # <<>> /\ Head(rxQueue).type # "answer"
    BY <1>3 DEF CoreOther
  <2>2. Head(rxQueue) \notin Answer
    BY <2>1 DEF Answer
  <2>3. Count(rxQueue', Answer) = Count(rxQueue, Answer) /\ Count(rxQueue', Answer) \in Nat
    <3>1. rxQueue' \in Seq(Event)
      BY <1>0, <2>1
    <3>2. Count(rxQueue', Answer) \in Nat
      BY <3>1, CountNat
    <3>3. QED
      BY <1>0, <2>1, <2>2, <3>2, CountTail
  <2>4. CASE RadioBoot(host, 0)
    <3>1. Count(rxQueue', Answer) <= Count(ctl.out, Answer) + Count(rxQueue, Answer)
      BY <2>3, CountsNat DEF IInv
    <3>2. QED
      BY <1>0, <2>3, <2>4, <3>1, BootCount
  <2>5. CASE ~RadioBoot(host, 0)
    <3>1. UNCHANGED <<host, ctl, overtaken>>
      BY <1>3, <2>5 DEF CoreOther, history
    <3>2. QED
      BY <2>3, <3>1 DEF CountInv, OneCommandOut, Sent, Answers
  <2>6. QED
    BY <2>4, <2>5
<1>4. QED
  BY <1>1, <1>2, <1>3 DEF Core

LEMMA DrvCount ==
  ASSUME IInv, CountInv, DrvStart \/ Drv \/ DrvReadFail
  PROVE  CountInv'
<1>0. /\ host \in Host /\ ctl \in Ctl /\ host' \in Host /\ ctl' \in Ctl
      /\ rxQueue \in Seq(Event)
  BY DrvKeeps DEF IInv, DrvType
<1>1. CASE DrvStart
  <2>1. host' = [host EXCEPT !.drvEvent = FALSE] /\ UNCHANGED <<ctl, rxQueue, overtaken>>
    BY <1>1 DEF DrvStart, history
  <2>2. host'.wq = host.wq /\ host'.numCmdPkts = host.numCmdPkts
    BY <1>0, <2>1 DEF Host
  <2>3. QED
    BY <1>0, <2>1, <2>2, LoadKeeps DEF Load
<1>2. CASE DrvRead
  <2>1. ctl.out \in Seq(Event) /\ ctl.out # <<>> /\ rxQueue' = Append(rxQueue, Head(ctl.out))
    BY <1>0, <1>2 DEF DrvRead, IRQ, Ctl
  <2>2. Head(ctl.out) \in Event /\ Tail(ctl.out) \in Seq(Event)
    BY <2>1
  <2>3. Read \in Ctl /\ Read.out = Tail(ctl.out) /\ Read.inbox = ctl.inbox
    BY <1>0, <2>2 DEF Read, Ctl
  <2>4. Count(Read.out, Answer) \in Nat
    BY <2>2, <2>3, CountNat
  <2>5. /\ Count(ctl.out, Answer) = Count(Read.out, Answer) + (IF Head(ctl.out) \in Answer THEN 1 ELSE 0)
        /\ Count(rxQueue', Answer) = Count(rxQueue, Answer) + (IF Head(ctl.out) \in Answer THEN 1 ELSE 0)
    BY <1>0, <2>1, <2>2, <2>3, CountTail, CountAppend
  <2>6. /\ Count(rxQueue', Answer) \in Nat
        /\ Count(Read.out, Answer) + Count(rxQueue', Answer)
             = Count(ctl.out, Answer) + Count(rxQueue, Answer)
    BY <2>4, <2>5, CountsNat DEF IInv
  <2>7. CASE reads + 1 >= MaxRead
    <3> DEFINE h == [host EXCEPT !.beat = TRUE, !.drvEvent = TRUE]
    <3>1. h \in Host /\ h.wq = host.wq /\ h.numCmdPkts = host.numCmdPkts
      BY <1>0 DEF Host
    <3>2. Break(h, Read)
      BY <1>2, <2>7 DEF DrvRead
    <3> HIDE DEF h
    <3>3. QED
      BY <2>3, <2>4, <2>6, <3>1, <3>2, BreakCount
  <2>8. CASE ~(reads + 1 >= MaxRead)
    <3>1. host' = [host EXCEPT !.beat = TRUE] /\ ctl' = Read /\ overtaken' = overtaken
      BY <1>2, <2>8 DEF DrvRead, history
    <3>2. host'.wq = host.wq /\ host'.numCmdPkts = host.numCmdPkts
      BY <1>0, <3>1 DEF Host
    <3>3. QED
      BY <2>3, <2>4, <2>6, <3>1, <3>2, CountsNat DEF IInv, CountInv, OneCommandOut, Sent, Answers
  <2>9. QED
    BY <2>7, <2>8
<1>3. CASE DrvEmpty
  BY <1>0, <1>3, BreakCount, CountsNat DEF DrvEmpty, IInv
<1>4. CASE DrvWriteOk
  <2> DEFINE p == Head(host.wq)
  <2>1. /\ host.wq \in Seq(Cmd \cup {Acl}) /\ host.wq # <<>> /\ ctl.inbox \in Seq(Cmd \cup {Acl})
        /\ p \in Cmd \cup {Acl}
    BY <1>0, <1>4 DEF DrvWriteOk, Host, Ctl
  <2>2. /\ host'.wq = Tail(host.wq) /\ host'.numCmdPkts = host.numCmdPkts
        /\ ctl'.inbox = Append(ctl.inbox, p) \/ ctl'.inbox = ctl.inbox
        /\ ctl'.out = ctl.out
        /\ UNCHANGED <<rxQueue, overtaken>>
    BY <1>0, <1>4 DEF DrvWriteOk, history, Host, Ctl
  <2>3. Count(host'.wq, Cmd) \in Nat
    <3>1. host'.wq \in Seq(Cmd \cup {Acl})
      BY <2>1, <2>2
    <3>2. QED
      BY <3>1, CountNat
  <2>4. /\ Count(host.wq, Cmd) = Count(host'.wq, Cmd) + (IF p \in Cmd THEN 1 ELSE 0)
        /\ \/ Count(ctl'.inbox, Cmd) = Count(ctl.inbox, Cmd) + (IF p \in Cmd THEN 1 ELSE 0)
           \/ Count(ctl'.inbox, Cmd) = Count(ctl.inbox, Cmd)
    <3>1. Count(host.wq, Cmd) = Count(Tail(host.wq), Cmd) + (IF p \in Cmd THEN 1 ELSE 0)
      BY <2>1, CountTail
    <3>2. Count(Append(ctl.inbox, p), Cmd) = Count(ctl.inbox, Cmd) + (IF p \in Cmd THEN 1 ELSE 0)
      BY <2>1, CountAppend
    <3> HIDE DEF p
    <3> QED BY <2>2, <3>1, <3>2
  <2> HIDE DEF p
  <2>5. Sent' <= Sent /\ Sent' \in Nat /\ Sent \in Nat /\ Answers' = Answers
    <3>1. /\ Count(host.wq, Cmd) \in Nat /\ Count(ctl.inbox, Cmd) \in Nat
          /\ Answers' = Answers
      BY <2>2, CountsNat DEF IInv, Answers
    <3>2. CASE p \in Cmd
      BY <2>3, <2>4, <3>1, <3>2 DEF Sent
    <3>3. CASE p \notin Cmd
      BY <2>3, <2>4, <3>1, <3>3 DEF Sent
    <3> QED BY <3>2, <3>3
  <2>6. QED
    BY <2>2, <2>5, CountsNat DEF IInv, CountInv, OneCommandOut, Answers
<1>5. CASE DrvWriteFail
  <2>1. rxQueue' = rxQueue
    BY <1>5 DEF DrvWriteFail
  <2>2. CASE retries + 1 > MaxRetries
    <3> DEFINE h == [host EXCEPT !.drvEvent = TRUE]
    <3>1. h \in Host /\ h.wq = host.wq /\ h.numCmdPkts = host.numCmdPkts
      BY <1>0 DEF Host
    <3>2. Break(h, ctl)
      BY <1>5, <2>2 DEF DrvWriteFail
    <3> HIDE DEF h
    <3>3. QED
      BY <1>0, <2>1, <3>1, <3>2, BreakCount, CountsNat DEF IInv
  <2>3. CASE ~(retries + 1 > MaxRetries)
    BY <1>0, <1>5, <2>1, <2>3, LoadKeeps DEF DrvWriteFail, history
  <2>4. QED
    BY <2>2, <2>3
<1>6. CASE DrvExhausted
  BY <1>0, <1>6, LoadKeeps DEF DrvExhausted, history
<1>7. CASE DrvReadFail
  <2>1. Count(rxQueue, Answer) <= Count(ctl.out, Answer) + Count(rxQueue, Answer)
    BY CountsNat DEF IInv
  <2>2. QED
    BY <1>0, <1>7, <2>1, RecoverCount, CountsNat DEF IInv, DrvReadFail
<1>8. QED
  BY <1>1, <1>2, <1>3, <1>4, <1>5, <1>6, <1>7 DEF Drv

(* The controller makes an answer of every command.                        *)
LEMMA RaiseCount ==
  ASSUME IInv, CountInv, NEW e \in Event, NEW done \in 0..SetupCmds + 1,
         NEW rest \in Seq(Cmd \cup {Acl}), Raise(e, done, rest),
         Count(ctl.inbox, Cmd) = Count(rest, Cmd) + (IF e \in Answer THEN 1 ELSE 0)
  PROVE  CountInv'
<1>0. host \in Host /\ ctl \in Ctl /\ ctl.out \in Seq(Event)
  BY DEF IInv, DrvType, Ctl
<1>1. /\ ctl'.out = Append(ctl.out, e) /\ ctl'.inbox = rest /\ UNCHANGED <<rxQueue, overtaken>>
      /\ host'.wq = host.wq /\ host'.numCmdPkts = host.numCmdPkts
  BY <1>0 DEF Raise, Ctl, Host
<1>2. Count(ctl'.out, Answer) = Count(ctl.out, Answer) + (IF e \in Answer THEN 1 ELSE 0)
  BY <1>0, <1>1, CountAppend
<1>3. Count(rest, Cmd) \in Nat
  BY CountNat
<1>4. QED
  BY <1>1, <1>2, <1>3, CountsNat, SMTT(30) DEF IInv, CountInv, OneCommandOut, Sent, Answers

LEMMA CtlCount ==
  ASSUME IInv, CountInv, CtlAnswer \/ CtlHwError \/ CtlStall \/ CtlResume
  PROVE  CountInv'
<1>0. ctl \in Ctl /\ ctl.inbox \in Seq(Cmd \cup {Acl}) /\ ctl.done \in 0..SetupCmds + 1
  BY DEF IInv, DrvType, Ctl
<1>1. CASE CtlAnswer
  <2> DEFINE p == Head(ctl.inbox)
  <2>1. p \in Cmd \cup {Acl} /\ Tail(ctl.inbox) \in Seq(Cmd \cup {Acl}) /\ ctl.inbox # <<>>
    BY <1>0, <1>1 DEF CtlAnswer
  <2>2. Count(ctl.inbox, Cmd) = Count(Tail(ctl.inbox), Cmd) + (IF p \in Cmd THEN 1 ELSE 0)
    BY <1>0, <2>1, CountTail
  <2>3. CASE p = Acl
    <3>1. Cmpl \in Event /\ Cmpl \notin Answer
      BY DEF Cmpl, Event, Answer
    <3>2. QED
      BY <1>0, <1>1, <2>1, <2>2, <2>3, <3>1, AclIsNoCmd, RaiseCount DEF CtlAnswer
  <2>4. CASE p # Acl
    <3>1. [type |-> "answer", to |-> p] \in Answer
      BY <2>1, <2>4 DEF Answer
    <3>2. Done(p) \in 0..SetupCmds + 1
      BY <1>0, <2>1, <2>4, CmdAssumption DEF Done, Cmd
    <3>3. QED
      BY <1>1, <2>1, <2>2, <2>4, <3>1, <3>2, RaiseCount DEF CtlAnswer, Event
  <2>5. QED
    BY <2>3, <2>4
<1>2. CASE CtlHwError
  <2>1. [type |-> "hwError"] \in Event /\ [type |-> "hwError"] \notin Answer
    BY DEF Event, Answer
  <2>2. Count(ctl.inbox, Cmd) = Count(ctl.inbox, Cmd) + 0
    BY <1>0, CountNat
  <2>3. QED
    BY <1>0, <1>2, <2>1, <2>2, RaiseCount DEF CtlHwError
<1>3. CASE CtlStall \/ CtlResume
  <2>1. ctl'.out = ctl.out /\ ctl'.inbox = ctl.inbox
    BY <1>0, <1>3 DEF CtlStall, CtlResume, Ctl
  <2>2. UNCHANGED <<host, rxQueue, overtaken>>
    BY <1>3 DEF CtlStall, CtlResume, history
  <2>3. QED
    BY <2>1, <2>2 DEF CountInv, OneCommandOut, Sent, Answers
<1>4. QED
  BY <1>1, <1>2, <1>3

(* Across timeouts, boots and hardware errors at any moment, one command   *)
(* at a time is on its way, and one more for every HCI_RESET that was sent *)
(* over an unanswered one, whatever commands and data are sent             *)
(* (hci_cmd.c:106-137, 192-206).                                           *)
THEOREM OneCommandAtATime == Spec => []OneCommandOut
<1>1. Init => IInv /\ CountInv
  BY InitInv, InitCount
<1>2. ASSUME IInv, CountInv, [Next]_vars PROVE IInv' /\ CountInv'
  <2>1. CASE UNCHANGED vars
    <3>1. IInv'
      BY <1>2, <2>1 DEF vars, stackVars, drvVars, IInv, DrvType, DriverComesBack, IRQ
    <3>2. CountInv'
      BY <1>2, <2>1 DEF vars, CountInv, OneCommandOut, Sent, Answers
    <3>3. QED
      BY <3>1, <3>2
  <2>2. CASE Next
    <3>1. IInv'
      BY <1>2, <2>2, StackKeeps, CoreKeeps, DrvKeeps, CtlKeeps DEF Next
    <3>2. CountInv'
      BY <1>2, <2>2, StackCount, CoreCount, DrvCount, CtlCount DEF Next
    <3>3. QED
      BY <3>1, <3>2
  <2>3. QED
    BY <1>2, <2>1, <2>2
<1>3. CountInv => OneCommandOut
  BY DEF CountInv
<1>4. QED
  BY <1>1, <1>2, <1>3, PTL DEF Spec

-----------------------------------------------------------------------------
(* The reset sequence: its commands, at most one of which is on its way    *)
(* while DM resets and none while it does not, from cmdQueue to the controller and, *)
(* as an answer, back to the stack.                                        *)

SeqCmd == Cmd \ {[op |-> "other"], [op |-> "secRand"]}
SeqAnswer == [type : {"answer"}, to : SeqCmd]

(* The commands a controller may come to get that has done d of them, and  *)
(* the events it may have raised.                                          *)
Due(d) == {c \in Cmd \cup {Acl} : /\ c.op = "setup" => c.i = d
                                  /\ c.op = "rand" => d = SetupCmds + 1}
Did(d) == {e \in Event : e.type = "answer" => /\ e.to.op = "reset" => d = 1
                                              /\ e.to.op = "setup" => d = e.to.i + 1
                                              /\ e.to.op = "rand" => d = SetupCmds + 1}

Waits(h) == Count(h.queue, SeqCmd) + Count(h.wq, SeqCmd)
Under == Waits(host) + Count(ctl.inbox, SeqCmd)
           + Count(ctl.out, SeqAnswer) + Count(rxQueue, SeqAnswer)

InTurn(h, d) == h \in Host /\ h.queue \in Seq(Due(d)) /\ h.wq \in Seq(Due(d))

(* Nothing is out of turn, and one command of the sequence is under way    *)
(* while the stack resets, unless it was lost in a controller that is off. *)
InSequence == /\ dm \in [resetting : BOOLEAN, msgs : Nat]
              /\ resetting = dm.resetting
              /\ Under <= IF resetting THEN 1 ELSE 0
              /\ InTurn(host, ctl.done)
              /\ ctl.inbox \in Seq(Due(ctl.done))
              /\ ctl.out \in Seq(Did(ctl.done)) /\ rxQueue \in Seq(Did(ctl.done))

SeqInv == ~cutShort /\ ~mistaken => InSequence

LEMMA FrontAndRest ==
  ASSUME NEW T, NEW s \in Seq(T), s # <<>>
  PROVE  Head(s) \in T /\ Tail(s) \in Seq(T)
OBVIOUS

LEMMA CountNone ==
  ASSUME NEW T, NEW s \in Seq(T), NEW Kind, Count(s, Kind) = 0
  PROVE  \A i \in DOMAIN s : s[i] \notin Kind
<1> DEFINE A == {i \in DOMAIN s : s[i] \in Kind}
<1>1. Cardinality(A) = 0 /\ IsFiniteSet(A)
  BY CountIs, CountFinite
<1>2. A = {}
  <2> HIDE DEF A
  <2> QED BY <1>1, FS_EmptySet
<1> QED BY <1>2

(* Without a command of the sequence, turns do not matter.                 *)
LEMMA NoneDue ==
  ASSUME NEW d, NEW e, NEW s \in Seq(Due(d)), Count(s, SeqCmd) = 0
  PROVE  s \in Seq(Due(e))
<1>1. \A i \in DOMAIN s : s[i] \in Due(d) /\ s[i] \notin SeqCmd
  BY CountNone
<1>2. \A c \in Due(d) : c \notin SeqCmd => c \in Due(e)
  BY DEF Due, SeqCmd, Acl
<1>3. \A i \in 1..Len(s) : s[i] \in Due(e)
  BY <1>1, <1>2
<1> QED BY <1>3

LEMMA NoneDid ==
  ASSUME NEW d, NEW e, NEW s \in Seq(Did(d)), Count(s, SeqAnswer) = 0
  PROVE  s \in Seq(Did(e))
<1>1. \A i \in DOMAIN s : s[i] \in Did(d) /\ s[i] \notin SeqAnswer
  BY CountNone
<1>2. ASSUME NEW a \in Did(d), a \notin SeqAnswer PROVE a \in Did(e)
  <2>1. CASE a.type # "answer"
    BY <2>1 DEF Did
  <2>2. CASE a.type = "answer"
    <3>1. a \in Answer
      BY <2>2 DEF Did, Event
    <3>2. a.to \in {[op |-> "other"], [op |-> "secRand"]}
      BY <1>2, <3>1 DEF Answer, SeqAnswer, SeqCmd
    <3> QED BY <3>2, <2>2 DEF Did
  <2> QED BY <2>1, <2>2
<1>3. \A i \in 1..Len(s) : s[i] \in Did(e)
  BY <1>1, <1>2
<1> QED BY <1>3

LEMMA WaitsNat ==
  ASSUME NEW h \in Host
  PROVE  Count(h.queue, SeqCmd) \in Nat /\ Count(h.wq, SeqCmd) \in Nat /\ Waits(h) \in Nat
<1>1. h.queue \in Seq(Cmd) /\ h.wq \in Seq(Cmd \cup {Acl})
  BY DEF Host
<1>2. Count(h.queue, SeqCmd) \in Nat /\ Count(h.wq, SeqCmd) \in Nat
  BY <1>1, CountNat
<1> QED BY <1>2 DEF Waits

LEMMA SeqNat ==
  ASSUME DrvType
  PROVE  /\ Count(host.queue, SeqCmd) \in Nat /\ Count(host.wq, SeqCmd) \in Nat
         /\ Waits(host) \in Nat /\ Count(ctl.inbox, SeqCmd) \in Nat
         /\ Count(ctl.out, SeqAnswer) \in Nat /\ Count(rxQueue, SeqAnswer) \in Nat
<1>1. /\ ctl.inbox \in Seq(Cmd \cup {Acl}) /\ ctl.out \in Seq(Event) /\ rxQueue \in Seq(Event)
      /\ host \in Host
  BY DEF DrvType, Ctl
<1>2. /\ Count(ctl.inbox, SeqCmd) \in Nat
      /\ Count(ctl.out, SeqAnswer) \in Nat /\ Count(rxQueue, SeqAnswer) \in Nat
  BY <1>1, CountNat
<1> QED BY <1>1, <1>2, WaitsNat

(* hci_cmd.c moves commands in turn, and loses none of the sequence.       *)
LEMMA ServiceWaits ==
  ASSUME NEW d, NEW h, InTurn(h, d)
  PROVE  InTurn(Service(h), d) /\ Waits(Service(h)) = Waits(h)
<1>0. h \in Host /\ h.queue \in Seq(Due(d)) /\ h.wq \in Seq(Due(d))
  BY DEF InTurn
<1>1. CASE h.numCmdPkts = 0 \/ h.queue = <<>>
  BY <1>1 DEF Service
<1>2. CASE ~(h.numCmdPkts = 0 \/ h.queue = <<>>)
  <2> DEFINE c == Head(h.queue)
  <2>1. h.queue # <<>> /\ c \in Due(d) /\ Tail(h.queue) \in Seq(Due(d))
        /\ Append(h.wq, c) \in Seq(Due(d))
    BY <1>0, <1>2
  <2>2. Service(h).queue = Tail(h.queue) /\ Service(h).wq = Append(h.wq, c)
    BY <1>0, <1>2 DEF Service, DrvWrite, Host
  <2>3. Service(h) \in Host
    BY <1>0, ServiceWrites DEF Writes
  <2>4. /\ Count(h.queue, SeqCmd) = Count(Tail(h.queue), SeqCmd) + (IF c \in SeqCmd THEN 1 ELSE 0)
        /\ Count(Append(h.wq, c), SeqCmd) = Count(h.wq, SeqCmd) + (IF c \in SeqCmd THEN 1 ELSE 0)
    BY <1>0, <2>1, CountTail, CountAppend
  <2>5. Count(Tail(h.queue), SeqCmd) \in Nat /\ Count(h.wq, SeqCmd) \in Nat
    BY <1>0, <2>2, <2>3, WaitsNat
  <2>6. Waits(Service(h)) = Waits(h)
    <3> HIDE DEF c
    <3> QED BY <2>2, <2>4, <2>5 DEF Waits
  <2> QED BY <2>1, <2>2, <2>3, <2>6 DEF InTurn
<1> QED BY <1>1, <1>2

LEMMA CmdSendWaits ==
  ASSUME NEW d, NEW h, InTurn(h, d), NEW c \in Cmd, c \in Due(d)
  PROVE  /\ InTurn(CmdSend(h, c), d)
         /\ Waits(CmdSend(h, c)) = Waits(h) + (IF c \in SeqCmd THEN 1 ELSE 0)
<1> DEFINE g == [h EXCEPT !.queue = Append(@, c)]
<1>0. h \in Host /\ h.queue \in Seq(Due(d)) /\ h.queue \in Seq(Cmd) /\ h.wq \in Seq(Due(d))
  BY DEF InTurn, Host
<1>1. Append(h.queue, c) \in Seq(Cmd) /\ Append(h.queue, c) \in Seq(Due(d))
  BY <1>0
<1>2. g \in Host /\ g.wq = h.wq /\ g.queue = Append(h.queue, c)
  BY <1>0, <1>1 DEF Host
<1>3. Count(g.queue, SeqCmd) = Count(h.queue, SeqCmd) + (IF c \in SeqCmd THEN 1 ELSE 0)
  BY <1>0, <1>2, CountAppend
<1> HIDE DEF g
<1>4. InTurn(g, d)
  BY <1>0, <1>1, <1>2 DEF InTurn
<1>5. Waits(g) = Waits(h) + (IF c \in SeqCmd THEN 1 ELSE 0)
  BY <1>0, <1>2, <1>3, WaitsNat DEF Waits
<1>6. CmdSend(h, c) = Service(g)
  BY DEF CmdSend, g
<1> QED BY <1>4, <1>5, <1>6, ServiceWaits

LEMMA CmdRecvCmplWaits ==
  ASSUME NEW d, NEW h, InTurn(h, d)
  PROVE  InTurn(CmdRecvCmpl(h), d) /\ Waits(CmdRecvCmpl(h)) = Waits(h)
<1> DEFINE g == [h EXCEPT !.timer = FALSE, !.numCmdPkts = 1]
<1>1. 1 \in 0..1
  OBVIOUS
<1>2. g \in Host /\ g.wq = h.wq /\ g.queue = h.queue
  BY <1>1 DEF Host, InTurn
<1>3. CmdRecvCmpl(h) = Service(g)
  BY DEF CmdRecvCmpl
<1> HIDE DEF g
<1> QED BY <1>2, <1>3, ServiceWaits DEF InTurn, Waits

(* HCI_RESET starts the sequence whatever waited before.                   *)
LEMMA ResetCmdWaits ==
  ASSUME NEW d, NEW h \in Host, h.wq \in Seq(Due(d))
  PROVE  InTurn(ResetCmd(h), d) /\ Waits(ResetCmd(h)) = 1 + Count(h.wq, SeqCmd)
<1> DEFINE r == [op |-> "reset"]
           g == [h EXCEPT !.queue = <<r>>, !.numCmdPkts = 1]
<1>1. r \in Cmd /\ r \in Due(d) /\ r \in SeqCmd
  BY OpsAreCmds DEF Due, SeqCmd
<1>2. 1 \in 0..1
  OBVIOUS
<1>3. ResetCmd(h) = Service(g)
  BY DEF ResetCmd
<1>4. Count(<<r>>, SeqCmd) = 1
  <2> HIDE DEF r
  <2>1. {i \in DOMAIN <<r>> : <<r>>[i] \in SeqCmd} = {1}
    BY <1>1
  <2> QED BY <2>1, CountIs, FS_Singleton
<1>5. <<r>> \in Seq(Cmd) /\ <<r>> \in Seq(Due(d))
  <2> HIDE DEF r
  <2> QED BY <1>1
<1> HIDE DEF r
<1>6. g \in Host /\ g.wq = h.wq /\ g.queue = <<r>>
  BY <1>2, <1>5 DEF Host
<1> HIDE DEF g
<1>7. InTurn(g, d) /\ Waits(g) = 1 + Count(h.wq, SeqCmd)
  BY <1>4, <1>5, <1>6 DEF InTurn, Waits
<1> QED BY <1>3, <1>7, ServiceWaits

(* What ResetSequence sends for the answer to c.                           *)
LEMMA ResetSequenceWaits ==
  ASSUME NEW d \in 0..SetupCmds + 1, NEW h, InTurn(h, d), NEW c \in Cmd, randCnt \in Nat,
         c.op = "reset" => d = 1, c.op = "setup" => d = c.i + 1,
         c.op = "rand" => d = SetupCmds + 1, c.op # "secRand",
         ResetSequence(h, c)
  PROVE  \/ /\ UNCHANGED <<resetting, dm>>
            /\ InTurn(host', d)
            /\ Waits(host') = Waits(h) + (IF c \in SeqCmd THEN 1 ELSE 0)
         \/ /\ c \in SeqCmd /\ d = SetupCmds + 1
            /\ host' = h /\ resetting' = FALSE /\ dm' = [dm EXCEPT !.resetting = FALSE]
<1> USE OpsAreCmds
<1>0. Waits(h) \in Nat
  BY WaitsNat DEF InTurn
<1>1. CASE c.op = "reset"
  <2>1. host' = CmdSend(h, Setup(1)) /\ UNCHANGED <<resetting, dm>>
    BY <1>1 DEF ResetSequence
  <2>2. Setup(1) \in Cmd /\ Setup(1).op = "setup" /\ Setup(1).i = 1
    BY CmdAssumption DEF Setup
  <2>3. Setup(1) \in Due(d) /\ Setup(1) \in SeqCmd /\ c \in SeqCmd
    BY <1>1, <2>2 DEF Due, SeqCmd
  <2> QED BY <1>0, <2>1, <2>2, <2>3, CmdSendWaits
<1>2. CASE c.op = "setup"
  <2> DEFINE next == IF c.i < SetupCmds THEN Setup(c.i + 1) ELSE [op |-> "rand"]
  <2>1. host' = CmdSend(h, next) /\ UNCHANGED <<resetting, dm>>
    BY <1>2 DEF ResetSequence, stackVars
  <2>2. c.i \in 1..SetupCmds
    BY <1>2 DEF Cmd
  <2>3. next \in Cmd
    BY <2>2, CmdAssumption
  <2>4. next \in Due(d) /\ next \in SeqCmd
    <3>1. CASE c.i < SetupCmds
      <4>1. next.op = "setup" /\ next.i = c.i + 1
        BY <3>1 DEF Setup
      <4> QED BY <1>2, <2>3, <4>1 DEF Due, SeqCmd
    <3>2. CASE ~(c.i < SetupCmds)
      <4>1. next.op = "rand" /\ c.i = SetupCmds
        BY <2>2, <3>2, CmdAssumption
      <4> QED BY <1>2, <2>3, <4>1 DEF Due, SeqCmd
    <3> QED BY <3>1, <3>2
  <2>5. c \in SeqCmd
    BY <1>2 DEF SeqCmd
  <2> HIDE DEF next
  <2> QED BY <1>0, <2>1, <2>3, <2>4, <2>5, CmdSendWaits
<1>3. CASE c.op = "rand"
  <2>1. c \in SeqCmd /\ c \in Due(d)
    BY <1>3 DEF SeqCmd, Due
  <2>2. CASE randCnt < RandCmds - 1
    <3>1. host' = CmdSend(h, c) /\ UNCHANGED <<resetting, dm>>
      <4>1. ~(randCnt >= RandCmds - 1)
        BY <2>2, CmdAssumption
      <4>2. c = [op |-> "rand"]
        BY <1>3 DEF Cmd
      <4> QED BY <1>3, <2>2, <4>1, <4>2 DEF ResetSequence
    <3> QED BY <1>0, <2>1, <3>1, CmdSendWaits
  <2>3. CASE randCnt >= RandCmds - 1
    <3>1. host' = h /\ resetting' = FALSE /\ dm' = [dm EXCEPT !.resetting = FALSE]
      <4>1. ~(randCnt < RandCmds - 1)
        BY <2>3, CmdAssumption
      <4> QED BY <1>3, <2>3, <4>1 DEF ResetSequence
    <3> QED BY <1>3, <2>1, <3>1
  <2>4. randCnt < RandCmds - 1 \/ randCnt >= RandCmds - 1
    BY CmdAssumption
  <2> QED BY <2>2, <2>3, <2>4
<1>4. CASE c.op = "other"
  <2>1. host' = h /\ UNCHANGED <<resetting, dm>>
    BY <1>4 DEF ResetSequence, stackVars
  <2>2. c \notin SeqCmd
    BY <1>4 DEF SeqCmd, Cmd
  <2> QED BY <1>0, <2>1, <2>2
<1> QED BY <1>1, <1>2, <1>3, <1>4 DEF Cmd

(* A step that moves no more than hci_cmd.c and the write queue.           *)
LEMMA SeqKeeps ==
  ASSUME IInv, SeqInv, UNCHANGED <<ctl, rxQueue, resetting, dm, cutShort, mistaken>>,
         InTurn(host, ctl.done) => InTurn(host', ctl.done) /\ Waits(host') = Waits(host)
  PROVE  SeqInv'
BY DEF SeqInv, InSequence, Under

(* A boot that does not cut a reset short finds no command of the sequence *)
(* anywhere.                                                               *)
LEMMA BootSeq ==
  ASSUME IInv, SeqInv, NEW h \in Host, NEW k, RadioBoot(h, k), h.queue = host.queue,
         h.wq = host.wq \/ h.wq = <<>>, resetting' = resetting,
         InSequence => /\ rxQueue' \in Seq(Did(ctl.done))
                       /\ Count(rxQueue', SeqAnswer)
                            <= Count(ctl.out, SeqAnswer) + Count(rxQueue, SeqAnswer)
  PROVE  SeqInv'
<1> SUFFICES ASSUME ~cutShort', ~mistaken' PROVE InSequence'
  BY DEF SeqInv
<1>1. ~cutShort /\ ~mistaken /\ ~dm.resetting
  BY DEF RadioBoot
<1>2. InSequence
  BY <1>1 DEF SeqInv
<1>3. /\ host.queue \in Seq(Due(ctl.done)) /\ host.wq \in Seq(Due(ctl.done))
      /\ rxQueue' \in Seq(Did(ctl.done)) /\ ~resetting' /\ Under <= 0
  BY <1>1, <1>2 DEF InSequence, InTurn
<1>4. Count(rxQueue', SeqAnswer) \in Nat
  BY <1>3, CountNat
<1>5. /\ Count(host.queue, SeqCmd) = 0 /\ Count(host.wq, SeqCmd) = 0
      /\ Count(rxQueue', SeqAnswer) = 0
  BY <1>2, <1>3, <1>4, SeqNat DEF Under, Waits, IInv
<1>6. /\ host' \in Host /\ host'.queue = host.queue
      /\ host'.wq = <<>> \/ host'.wq = host.wq
  <2>1. <<>> \in Seq(Cmd \cup {Acl})
    OBVIOUS
  <2>2. [h EXCEPT !.wq = <<>>] \in Host /\ [h EXCEPT !.wq = <<>>].queue = h.queue
        /\ [h EXCEPT !.wq = <<>>].wq = <<>>
    BY <2>1 DEF Host
  <2>3. host' = [h EXCEPT !.wq = <<>>] \/ host' = h
    BY DEF RadioBoot
  <2> QED BY <2>2, <2>3
<1>7. ctl'.inbox = <<>> /\ ctl'.out = <<>>
  BY OffType DEF RadioBoot, FreshCtl
<1>8. \A S : <<>> \in Seq(S)
  OBVIOUS
<1>9. /\ host'.queue \in Seq(Due(ctl'.done)) /\ host'.wq \in Seq(Due(ctl'.done))
      /\ rxQueue' \in Seq(Did(ctl'.done))
  BY <1>3, <1>5, <1>6, <1>8, NoneDue, NoneDid
<1>10. Under' = 0
  BY <1>5, <1>6, <1>7, CountEmpty DEF Under, Waits
<1>11. dm' \in [resetting : BOOLEAN, msgs : Nat] /\ dm'.resetting = dm.resetting
  <2>1. dm \in [resetting : BOOLEAN, msgs : Nat] /\ dm' = [dm EXCEPT !.msgs = @ + 1]
    BY <1>2 DEF RadioBoot, InSequence
  <2> QED BY <2>1
<1>12. InTurn(host', ctl'.done)
  BY <1>6, <1>9 DEF InTurn
<1>13. ctl'.inbox \in Seq(Due(ctl'.done)) /\ ctl'.out \in Seq(Did(ctl'.done))
  BY <1>7, <1>8
<1> QED BY <1>2, <1>3, <1>9, <1>10, <1>11, <1>12, <1>13 DEF InSequence

LEMMA RebootSeq ==
  ASSUME IInv, SeqInv, NEW h \in Host, NEW k, Reboot(h, k), h.queue = host.queue,
         h.wq = host.wq \/ h.wq = <<>>, resetting' = resetting,
         InSequence => /\ rxQueue' \in Seq(Did(ctl.done))
                       /\ Count(rxQueue', SeqAnswer)
                            <= Count(ctl.out, SeqAnswer) + Count(rxQueue, SeqAnswer)
  PROVE  SeqInv'
<1> DEFINE g == [h EXCEPT !.beat = FALSE]
<1>1. g \in Host /\ g.queue = h.queue /\ g.wq = h.wq
  BY DEF Host
<1>2. RadioBoot(g, k)
  BY DEF Reboot
<1> HIDE DEF g
<1> QED BY <1>1, <1>2, BootSeq

LEMMA RecoverSeq ==
  ASSUME IInv, SeqInv, NEW h \in Host, NEW k, Recover(h, k), h.queue = host.queue,
         resetting' = resetting,
         InSequence => /\ rxQueue' \in Seq(Did(ctl.done))
                       /\ Count(rxQueue', SeqAnswer)
                            <= Count(ctl.out, SeqAnswer) + Count(rxQueue, SeqAnswer)
  PROVE  SeqInv'
<1> DEFINE g == [h EXCEPT !.wq = <<>>]
<1>0. <<>> \in Seq(Cmd \cup {Acl})
  OBVIOUS
<1>1. g \in Host /\ g.queue = h.queue /\ g.wq = <<>>
  BY <1>0 DEF Host
<1>2. Reboot(g, k)
  BY DEF Recover
<1> HIDE DEF g
<1> QED BY <1>1, <1>2, RebootSeq

(* The end of the driver's loop, after at most one packet was read.        *)
LEMMA BreakSeq ==
  ASSUME IInv, SeqInv, NEW h \in Host, NEW c \in Ctl, Break(h, c), resetting' = resetting,
         h.queue = host.queue, h.wq = host.wq, c.done = ctl.done, c.inbox = ctl.inbox,
         InSequence => /\ rxQueue' \in Seq(Did(ctl.done)) /\ c.out \in Seq(Did(ctl.done))
                       /\ Count(c.out, SeqAnswer) + Count(rxQueue', SeqAnswer)
                            = Count(ctl.out, SeqAnswer) + Count(rxQueue, SeqAnswer)
  PROVE  SeqInv'
<1>1. CASE n + 1 = MaxTrans
  <2>1. ASSUME InSequence
        PROVE  /\ rxQueue' \in Seq(Did(ctl.done))
               /\ Count(rxQueue', SeqAnswer) <= Count(ctl.out, SeqAnswer) + Count(rxQueue, SeqAnswer)
    <3>1. Count(rxQueue', SeqAnswer) \in Nat /\ Count(c.out, SeqAnswer) \in Nat
      BY <2>1, CountNat
    <3> QED BY <2>1, <3>1, SeqNat DEF IInv
  <2> QED BY <1>1, <2>1, RecoverSeq DEF Break
<1>2. CASE n + 1 # MaxTrans
  <2>1. host' = h /\ ctl' = c /\ UNCHANGED <<dm, cutShort, mistaken>>
    BY <1>2 DEF Break, history
  <2> SUFFICES ASSUME InSequence PROVE InSequence'
    BY <2>1 DEF SeqInv
  <2>2. Count(c.out, SeqAnswer) \in Nat /\ Count(rxQueue', SeqAnswer) \in Nat
    BY CountNat
  <2>3. Waits(host') = Waits(host) /\ ctl'.inbox = ctl.inbox /\ ctl'.out = c.out
    BY <2>1 DEF Waits
  <2>4. Under' = Under
    <3>1. Count(ctl'.out, SeqAnswer) + Count(rxQueue', SeqAnswer)
            = Count(ctl.out, SeqAnswer) + Count(rxQueue, SeqAnswer)
      BY <2>3
    <3>2. Count(ctl'.out, SeqAnswer) \in Nat
      BY <2>2, <2>3
    <3>3. /\ Waits(host) \in Nat /\ Count(ctl.inbox, SeqCmd) \in Nat
          /\ Count(ctl.out, SeqAnswer) \in Nat /\ Count(rxQueue, SeqAnswer) \in Nat
      BY SeqNat DEF IInv
    <3>4. Count(ctl'.inbox, SeqCmd) = Count(ctl.inbox, SeqCmd)
      BY <2>3
    <3> QED BY <2>2, <2>3, <3>1, <3>2, <3>3, <3>4 DEF Under
  <2> QED BY <2>1, <2>4 DEF InSequence, InTurn
<1> QED BY <1>1, <1>2

LEMMA InitSeq == Init => SeqInv
<1> SUFFICES ASSUME Init PROVE InSequence
  BY DEF SeqInv
<1> DEFINE h == [queue |-> <<>>, numCmdPkts |-> 1, timer |-> FALSE,
                 wq |-> <<>>, drvEvent |-> FALSE, beat |-> FALSE]
<1>1. h \in Host /\ h.wq = <<>>
  BY DEF Host
<1>2. /\ host = ResetCmd(h) /\ ctl = FreshCtl /\ rxQueue = <<>>
      /\ resetting = TRUE /\ dm = [resetting |-> TRUE, msgs |-> 0]
  BY DEF Init
<1>3. \A S : <<>> \in Seq(S)
  OBVIOUS
<1> HIDE DEF h
<1>4. InTurn(host, ctl.done) /\ Waits(host) = 1
  <2>1. h.wq \in Seq(Due(ctl.done)) /\ Count(h.wq, SeqCmd) = 0
    BY <1>1, <1>3, CountEmpty
  <2>2. InTurn(ResetCmd(h), ctl.done) /\ Waits(ResetCmd(h)) = 1 + Count(h.wq, SeqCmd)
    BY <1>1, <2>1, ResetCmdWaits
  <2> QED BY <1>2, <2>1, <2>2
<1>5. ctl.inbox = <<>> /\ ctl.out = <<>>
  BY <1>2 DEF FreshCtl
<1>6. Under = 1
  BY <1>2, <1>4, <1>5, CountEmpty DEF Under
<1>7. dm \in [resetting : BOOLEAN, msgs : Nat] /\ resetting = dm.resetting
  BY <1>2
<1>8. /\ ctl.inbox \in Seq(Due(ctl.done)) /\ ctl.out \in Seq(Did(ctl.done))
      /\ rxQueue \in Seq(Did(ctl.done))
  BY <1>2, <1>3, <1>5
<1> QED BY <1>2, <1>4, <1>6, <1>7, <1>8 DEF InSequence

LEMMA StackSeq ==
  ASSUME IInv, SeqInv,
         StackCmd \/ Heartbeat \/ SendAcl \/ DmReset \/ CmdTimeout
  PROVE  SeqInv'
<1>0. host \in Host /\ ctl \in Ctl
  BY DEF IInv, DrvType
<1>1. CASE StackCmd \/ Heartbeat
  <2>1. PICK o \in {"secRand", "other"} : host' = CmdSend(host, [op |-> o])
    BY <1>1, CmdAssumption DEF StackCmd, Heartbeat
  <2>2. UNCHANGED <<ctl, rxQueue, resetting, dm, cutShort, mistaken>>
    BY <1>1 DEF StackCmd, Heartbeat, stackVars, history
  <2> DEFINE c == [op |-> o]
  <2>3. c \in Cmd /\ c \in Due(ctl.done) /\ c \notin SeqCmd
    BY OpsAreCmds DEF Due, SeqCmd
  <2>4. ASSUME InTurn(host, ctl.done)
        PROVE  InTurn(host', ctl.done) /\ Waits(host') = Waits(host)
    <3> HIDE DEF c
    <3> QED BY <1>0, <2>1, <2>3, <2>4, CmdSendWaits, WaitsNat DEF c
  <2> QED BY <2>2, <2>4, SeqKeeps
<1>2. CASE SendAcl
  <2>1. /\ host' = DrvWrite(host, Acl)
        /\ UNCHANGED <<ctl, rxQueue, resetting, dm, cutShort, mistaken>>
    BY <1>2 DEF SendAcl, stackVars, history
  <2>2. host' \in Host /\ host'.queue = host.queue /\ host'.wq = Append(host.wq, Acl)
    <3>1. host' \in Host
      BY <1>0, <2>1, DrvWriteWrites DEF Writes
    <3> QED BY <1>0, <2>1, <3>1 DEF DrvWrite, Host
  <2>3. ASSUME InTurn(host, ctl.done)
        PROVE  InTurn(host', ctl.done) /\ Waits(host') = Waits(host)
    <3>1. Acl \in Due(ctl.done) /\ Acl \notin SeqCmd
      BY AclIsNoCmd DEF Due, SeqCmd, Acl
    <3>2. host.wq \in Seq(Due(ctl.done)) /\ host.queue \in Seq(Due(ctl.done))
      BY <2>3 DEF InTurn
    <3>3. Append(host.wq, Acl) \in Seq(Due(ctl.done))
      BY <3>1, <3>2
    <3>4. Count(host'.wq, SeqCmd) = Count(host.wq, SeqCmd) + 0
      BY <2>2, <3>1, <3>2, CountAppend
    <3> QED BY <1>0, <2>2, <3>2, <3>3, <3>4, WaitsNat DEF InTurn, Waits
  <2> QED BY <2>1, <2>3, SeqKeeps
<1>3. CASE DmReset
  <2> SUFFICES ASSUME ~cutShort', ~mistaken' PROVE InSequence'
    BY DEF SeqInv
  <2>0. InSequence /\ ctl' = ctl /\ dm.msgs > 0
    BY <1>3 DEF SeqInv, DmReset
  <2>1. CASE dm.resetting
    <3>1. UNCHANGED <<host, resetting, rxQueue>> /\ dm' = [dm EXCEPT !.msgs = @ - 1]
      BY <1>3, <2>1 DEF DmReset
    <3>2. dm' \in [resetting : BOOLEAN, msgs : Nat] /\ dm'.resetting = dm.resetting
      BY <2>0, <3>1 DEF InSequence
    <3> QED BY <2>0, <3>1, <3>2 DEF InSequence, Under
  <2>2. CASE ~dm.resetting
    <3>1. /\ host' = ResetCmd(host) /\ rxQueue' = <<>> /\ resetting' = TRUE
          /\ dm' = [resetting |-> TRUE, msgs |-> dm.msgs - 1]
      BY <1>3, <2>2 DEF DmReset
    <3>2. Under <= 0 /\ host.wq \in Seq(Due(ctl.done)) /\ dm.msgs \in Nat
      BY <2>0, <2>2 DEF InSequence, InTurn
    <3>3. /\ Count(host.wq, SeqCmd) = 0 /\ Count(ctl.inbox, SeqCmd) = 0
          /\ Count(ctl.out, SeqAnswer) = 0
      BY <3>2, SeqNat DEF Under, Waits, IInv
    <3>4. InTurn(host', ctl.done) /\ Waits(host') = 1
      BY <1>0, <3>1, <3>2, <3>3, ResetCmdWaits
    <3>5. Under' = 1
      BY <2>0, <3>1, <3>3, <3>4, CountEmpty DEF Under
    <3>6. dm' \in [resetting : BOOLEAN, msgs : Nat] /\ dm'.resetting = TRUE
      BY <2>0, <3>1, <3>2
    <3>7. rxQueue' \in Seq(Did(ctl.done))
      BY <3>1
    <3> QED BY <2>0, <3>1, <3>4, <3>5, <3>6, <3>7 DEF InSequence
  <2> QED BY <2>1, <2>2
<1>4. CASE CmdTimeout
  <2> DEFINE h == [host EXCEPT !.timer = FALSE]
  <2>1. h \in Host /\ h.queue = host.queue /\ h.wq = host.wq
    BY <1>0 DEF Host
  <2>2. Reboot(h, 0) /\ UNCHANGED <<resetting, rxQueue>>
    BY <1>4 DEF CmdTimeout
  <2>3. InSequence => /\ rxQueue' \in Seq(Did(ctl.done))
                      /\ Count(rxQueue', SeqAnswer)
                           <= Count(ctl.out, SeqAnswer) + Count(rxQueue, SeqAnswer)
    BY <2>2, SeqNat DEF InSequence, IInv
  <2> HIDE DEF h
  <2> QED BY <2>1, <2>2, <2>3, RebootSeq
<1> QED BY <1>1, <1>2, <1>3, <1>4

(* The answer that HciCoreHandler takes is the command's whose turn it is; *)
(* the end of the sequence comes with the last.                            *)
LEMMA AnswerSeq ==
  ASSUME IInv, SeqInv, CoreAnswer
  PROVE  /\ SeqInv'
         /\ dm.resetting /\ ~dm'.resetting => ctl.done = SetupCmds + 1 \/ cutShort \/ mistaken'
<1> SUFFICES ASSUME InSequence, ~mistaken'
             PROVE  /\ InSequence'
                    /\ dm.resetting /\ ~dm'.resetting => ctl.done = SetupCmds + 1
  BY DEF SeqInv, CoreAnswer
<1> DEFINE a == Head(rxQueue)
           c == a.to
           g == CmdRecvCmpl(host)
           d == ctl.done
           token == IF c \in SeqCmd THEN 1 ELSE 0
<1>1. /\ rxQueue # <<>> /\ a.type = "answer" /\ rxQueue' = Tail(rxQueue) /\ ctl' = ctl
      /\ IF resetting THEN ResetSequence(g, c) ELSE host' = g /\ UNCHANGED stackVars
  BY DEF CoreAnswer
<1>2. /\ rxQueue \in Seq(Did(d)) /\ InTurn(host, d) /\ dm \in [resetting : BOOLEAN, msgs : Nat]
      /\ resetting = dm.resetting /\ Under <= (IF resetting THEN 1 ELSE 0)
      /\ ctl.inbox \in Seq(Due(d)) /\ ctl.out \in Seq(Did(d))
  BY DEF InSequence
<1>3. a \in Did(d) /\ Tail(rxQueue) \in Seq(Did(d))
  BY <1>1, <1>2
<1>4. a \in Answer /\ c \in Cmd
  BY <1>1, <1>3 DEF Did, Event, Answer
<1>5. /\ c.op = "reset" => d = 1
      /\ c.op = "setup" => d = c.i + 1
      /\ c.op = "rand" => d = SetupCmds + 1
      /\ resetting => c.op # "secRand"
  BY <1>1, <1>3 DEF Did, CoreAnswer
<1>6. Count(rxQueue, SeqAnswer) = Count(rxQueue', SeqAnswer) + token
  <2>1. a \in SeqAnswer <=> c \in SeqCmd
    BY <1>4 DEF Answer, SeqAnswer, SeqCmd
  <2>2. Count(rxQueue, SeqAnswer)
          = Count(Tail(rxQueue), SeqAnswer) + (IF a \in SeqAnswer THEN 1 ELSE 0)
    BY <1>1, <1>2, CountTail
  <2> QED BY <1>1, <2>1, <2>2
<1>7. Count(rxQueue', SeqAnswer) \in Nat
  BY <1>1, <1>3, CountNat
<1>8. InTurn(g, d) /\ Waits(g) = Waits(host)
  BY <1>2, CmdRecvCmplWaits
<1>9. /\ Waits(host) \in Nat /\ Count(ctl.inbox, SeqCmd) \in Nat
      /\ Count(ctl.out, SeqAnswer) \in Nat
      /\ d \in 0..SetupCmds + 1 /\ randCnt \in Nat
  BY SeqNat DEF IInv, DrvType, Ctl
<1> HIDE DEF a, c, g
<1>10. CASE /\ UNCHANGED <<resetting, dm>> /\ InTurn(host', d)
            /\ Waits(host') = Waits(host) + token
  <2>1. Under' = Under
    BY <1>1, <1>6, <1>7, <1>9, <1>10 DEF Under
  <2> QED BY <1>1, <1>2, <1>3, <1>10, <2>1 DEF InSequence
<1>11. CASE /\ c \in SeqCmd /\ d = SetupCmds + 1 /\ resetting
            /\ host' = g /\ resetting' = FALSE /\ dm' = [dm EXCEPT !.resetting = FALSE]
  <2>1. token = 1 /\ Under <= 1
    BY <1>2, <1>11
  <2>2. Under' <= 0
    BY <1>1, <1>6, <1>7, <1>8, <1>9, <1>11, <2>1 DEF Under
  <2>3. dm' \in [resetting : BOOLEAN, msgs : Nat] /\ dm'.resetting = FALSE
    BY <1>2, <1>11
  <2> QED BY <1>1, <1>2, <1>3, <1>8, <1>11, <2>2, <2>3 DEF InSequence
<1>12. CASE resetting
  BY <1>1, <1>4, <1>5, <1>8, <1>9, <1>10, <1>11, <1>12, ResetSequenceWaits
<1>13. CASE ~resetting
  <2>1. host' = g /\ UNCHANGED <<resetting, dm>>
    BY <1>1, <1>13 DEF stackVars
  <2>2. token = 0
    BY <1>2, <1>6, <1>7, <1>9, <1>13 DEF Under
  <2>3. Waits(host') = Waits(host) + token
    BY <1>8, <1>9, <2>1, <2>2
  <2> QED BY <1>8, <1>10, <2>1, <2>3
<1> QED BY <1>12, <1>13

LEMMA CoreSeq ==
  ASSUME IInv, SeqInv, CoreStart \/ CoreOther \/ CoreDone
  PROVE  SeqInv'
<1>1. CASE CoreStart \/ CoreDone
  BY <1>1, SeqKeeps DEF CoreStart, CoreDone, stackVars, history
<1>2. CASE CoreOther
  <2>0. /\ host \in Host /\ rxQueue \in Seq(Event) /\ rxQueue # <<>>
        /\ rxQueue' = Tail(rxQueue) /\ Head(rxQueue).type # "answer" /\ resetting' = resetting
    BY <1>2 DEF IInv, DrvType, CoreOther
  <2>1. Count(rxQueue', SeqAnswer) = Count(rxQueue, SeqAnswer)
    <3>1. Head(rxQueue) \notin SeqAnswer
      BY <2>0 DEF SeqAnswer
    <3>2. Count(Tail(rxQueue), SeqAnswer) \in Nat
      <4>1. Tail(rxQueue) \in Seq(Event)
        BY <2>0
      <4> QED BY <4>1, CountNat
    <3>3. Count(rxQueue, SeqAnswer) = Count(Tail(rxQueue), SeqAnswer) + 0
      BY <2>0, <3>1, CountTail
    <3> QED BY <2>0, <3>2, <3>3
  <2>2. InSequence => rxQueue' \in Seq(Did(ctl.done))
    BY <2>0 DEF InSequence
  <2>3. CASE RadioBoot(host, 0)
    <3>1. Count(rxQueue', SeqAnswer) <= Count(ctl.out, SeqAnswer) + Count(rxQueue, SeqAnswer)
      BY <2>1, SeqNat DEF IInv
    <3> QED BY <2>0, <2>2, <2>3, <3>1, BootSeq
  <2>4. CASE ~RadioBoot(host, 0)
    <3>1. /\ UNCHANGED <<host, ctl, cutShort, mistaken, resetting>>
          /\ dm' = dm \/ dm' = [dm EXCEPT !.msgs = @ + 1]
      BY <1>2, <2>4 DEF CoreOther, history
    <3>2. ASSUME dm \in [resetting : BOOLEAN, msgs : Nat]
          PROVE  dm' \in [resetting : BOOLEAN, msgs : Nat] /\ dm'.resetting = dm.resetting
      BY <3>1, <3>2
    <3> QED BY <2>1, <2>2, <3>1, <3>2 DEF SeqInv, InSequence, Under
  <2> QED BY <2>3, <2>4
<1> QED BY <1>1, <1>2

LEMMA DrvSeq ==
  ASSUME IInv, SeqInv, DrvStart \/ Drv \/ DrvReadFail
  PROVE  SeqInv'
<1>0. host \in Host /\ host' \in Host /\ ctl \in Ctl /\ rxQueue \in Seq(Event)
  BY DrvKeeps DEF IInv, DrvType
<1>1. CASE DrvStart
  <2>1. host'.queue = host.queue /\ host'.wq = host.wq
    BY <1>0, <1>1 DEF DrvStart, Host
  <2>2. UNCHANGED <<ctl, rxQueue, resetting, dm, cutShort, mistaken>>
    BY <1>1 DEF DrvStart, stackVars, history
  <2> QED BY <1>0, <2>1, <2>2, SeqKeeps DEF InTurn, Waits
<1>2. CASE DrvRead
  <2>1. /\ ctl.out \in Seq(Event) /\ ctl.out # <<>> /\ rxQueue' = Append(rxQueue, Head(ctl.out))
        /\ resetting' = resetting
    BY <1>0, <1>2 DEF DrvRead, IRQ, Ctl
  <2>2. /\ Read \in Ctl /\ Read.out = Tail(ctl.out) /\ Read.inbox = ctl.inbox
        /\ Read.done = ctl.done
    <3>1. Tail(ctl.out) \in Seq(Event)
      BY <2>1
    <3> QED BY <1>0, <3>1 DEF Read, Ctl
  <2>3. ASSUME InSequence
        PROVE  /\ rxQueue' \in Seq(Did(ctl.done)) /\ Read.out \in Seq(Did(ctl.done))
               /\ Count(Read.out, SeqAnswer) + Count(rxQueue', SeqAnswer)
                    = Count(ctl.out, SeqAnswer) + Count(rxQueue, SeqAnswer)
    <3> DEFINE e == Head(ctl.out)
    <3>1. ctl.out \in Seq(Did(ctl.done)) /\ rxQueue \in Seq(Did(ctl.done))
      BY <2>3 DEF InSequence
    <3>2. /\ e \in Did(ctl.done) /\ Read.out \in Seq(Did(ctl.done))
          /\ rxQueue' \in Seq(Did(ctl.done))
      <4>1. e \in Did(ctl.done) /\ Tail(ctl.out) \in Seq(Did(ctl.done))
        BY <2>1, <3>1, FrontAndRest
      <4> HIDE DEF e
      <4>2. Append(rxQueue, e) \in Seq(Did(ctl.done))
        BY <3>1, <4>1
      <4> QED BY <2>1, <2>2, <4>1, <4>2 DEF e
    <3>3. /\ Count(ctl.out, SeqAnswer)
               = Count(Read.out, SeqAnswer) + (IF e \in SeqAnswer THEN 1 ELSE 0)
          /\ Count(rxQueue', SeqAnswer)
               = Count(rxQueue, SeqAnswer) + (IF e \in SeqAnswer THEN 1 ELSE 0)
      BY <2>1, <2>2, <3>1, <3>2, CountTail, CountAppend
    <3>4. Count(Read.out, SeqAnswer) \in Nat
      BY <3>2, CountNat
    <3> HIDE DEF e
    <3> QED BY <3>2, <3>3, <3>4, SeqNat DEF IInv
  <2>4. CASE reads + 1 >= MaxRead
    <3> DEFINE h == [host EXCEPT !.beat = TRUE, !.drvEvent = TRUE]
    <3>1. h \in Host /\ h.queue = host.queue /\ h.wq = host.wq
      BY <1>0 DEF Host
    <3>2. Break(h, Read)
      BY <1>2, <2>4 DEF DrvRead
    <3> HIDE DEF h
    <3> QED BY <2>1, <2>2, <2>3, <3>1, <3>2, BreakSeq
  <2>5. CASE ~(reads + 1 >= MaxRead)
    <3>1. /\ host' = [host EXCEPT !.beat = TRUE] /\ ctl' = Read
          /\ UNCHANGED <<dm, cutShort, mistaken>>
      BY <1>2, <2>5 DEF DrvRead, history
    <3>2. host'.queue = host.queue /\ host'.wq = host.wq
      BY <1>0, <3>1 DEF Host
    <3> SUFFICES ASSUME InSequence PROVE InSequence'
      BY <3>1 DEF SeqInv
    <3>3. Count(Read.out, SeqAnswer) \in Nat /\ Count(rxQueue', SeqAnswer) \in Nat
      BY <2>3, CountNat
    <3>4. Waits(host') = Waits(host)
      BY <3>2 DEF Waits
    <3>5. Under' = Under
      <4>1. /\ Waits(host) \in Nat /\ Count(ctl.inbox, SeqCmd) \in Nat
            /\ Count(ctl.out, SeqAnswer) \in Nat /\ Count(rxQueue, SeqAnswer) \in Nat
        BY SeqNat DEF IInv
      <4>2. Count(ctl'.out, SeqAnswer) + Count(rxQueue', SeqAnswer)
              = Count(ctl.out, SeqAnswer) + Count(rxQueue, SeqAnswer)
        BY <2>3, <3>1
      <4>3. ctl'.inbox = ctl.inbox /\ Count(ctl'.out, SeqAnswer) \in Nat
        BY <2>2, <3>1, <3>3
      <4> QED BY <3>3, <3>4, <4>1, <4>2, <4>3 DEF Under
    <3> QED BY <1>0, <2>1, <2>2, <2>3, <3>1, <3>2, <3>5 DEF InSequence, InTurn
  <2> QED BY <2>4, <2>5
<1>3. CASE DrvEmpty
  <2>1. Break(host, ctl) /\ UNCHANGED <<rxQueue, resetting>>
    BY <1>3 DEF DrvEmpty
  <2> QED BY <1>0, <2>1, BreakSeq DEF InSequence
<1>4. CASE DrvWriteOk
  <2> DEFINE p == Head(host.wq)
  <2>1. /\ host.wq # <<>> /\ host'.wq = Tail(host.wq) /\ host'.queue = host.queue
        /\ ctl'.inbox = Append(ctl.inbox, p) \/ ctl'.inbox = ctl.inbox
        /\ ctl'.out = ctl.out /\ ctl'.done = ctl.done
        /\ UNCHANGED <<rxQueue, resetting, dm, cutShort, mistaken>>
    BY <1>0, <1>4 DEF DrvWriteOk, stackVars, history, Host, Ctl
  <2> SUFFICES ASSUME InSequence PROVE InSequence'
    BY <2>1 DEF SeqInv
  <2>2. host.wq \in Seq(Due(ctl.done)) /\ ctl.inbox \in Seq(Due(ctl.done))
    BY DEF InSequence, InTurn
  <2>3. /\ p \in Due(ctl.done) /\ Tail(host.wq) \in Seq(Due(ctl.done))
        /\ Append(ctl.inbox, p) \in Seq(Due(ctl.done))
    <3>1. p \in Due(ctl.done) /\ Tail(host.wq) \in Seq(Due(ctl.done))
      BY <2>1, <2>2, FrontAndRest
    <3> HIDE DEF p
    <3> QED BY <2>2, <3>1
  <2>4. /\ Count(host.wq, SeqCmd) = Count(host'.wq, SeqCmd) + (IF p \in SeqCmd THEN 1 ELSE 0)
        /\ \/ Count(ctl'.inbox, SeqCmd) = Count(ctl.inbox, SeqCmd) + (IF p \in SeqCmd THEN 1 ELSE 0)
           \/ Count(ctl'.inbox, SeqCmd) = Count(ctl.inbox, SeqCmd)
    <3>1. Count(host.wq, SeqCmd) = Count(Tail(host.wq), SeqCmd) + (IF p \in SeqCmd THEN 1 ELSE 0)
      BY <2>1, <2>2, CountTail
    <3>2. Count(Append(ctl.inbox, p), SeqCmd)
            = Count(ctl.inbox, SeqCmd) + (IF p \in SeqCmd THEN 1 ELSE 0)
      BY <2>2, <2>3, CountAppend
    <3> HIDE DEF p
    <3> QED BY <2>1, <3>1, <3>2
  <2>5. Count(host'.wq, SeqCmd) \in Nat
    BY <2>1, <2>3, CountNat
  <2> HIDE DEF p
  <2>6. Under' <= Under /\ Under \in Nat /\ Under' \in Nat
    <3>1. /\ Waits(host) \in Nat /\ Count(host.queue, SeqCmd) \in Nat
          /\ Count(host.wq, SeqCmd) \in Nat /\ Count(ctl.inbox, SeqCmd) \in Nat
          /\ Count(ctl.out, SeqAnswer) \in Nat /\ Count(rxQueue, SeqAnswer) \in Nat
      BY SeqNat DEF IInv
    <3>2. /\ Waits(host') \in Nat /\ Count(ctl'.inbox, SeqCmd) \in Nat
          /\ Waits(host') + Count(ctl'.inbox, SeqCmd) <= Waits(host) + Count(ctl.inbox, SeqCmd)
      <4>1. CASE p \in SeqCmd
        BY <2>1, <2>4, <2>5, <3>1, <4>1 DEF Waits
      <4>2. CASE p \notin SeqCmd
        BY <2>1, <2>4, <2>5, <3>1, <4>2 DEF Waits
      <4> QED BY <4>1, <4>2
    <3> QED BY <2>1, <3>1, <3>2 DEF Under
  <2>7. Under' <= IF resetting' THEN 1 ELSE 0
    BY <2>1, <2>6 DEF InSequence
  <2>8. InTurn(host', ctl'.done) /\ ctl'.inbox \in Seq(Due(ctl'.done))
    BY <1>0, <2>1, <2>2, <2>3 DEF InSequence, InTurn
  <2> QED BY <2>1, <2>7, <2>8 DEF InSequence
<1>5. CASE DrvWriteFail
  <2>1. UNCHANGED <<rxQueue, resetting>>
    BY <1>5 DEF DrvWriteFail
  <2>2. CASE retries + 1 > MaxRetries
    <3> DEFINE h == [host EXCEPT !.drvEvent = TRUE]
    <3>1. h \in Host /\ h.queue = host.queue /\ h.wq = host.wq
      BY <1>0 DEF Host
    <3>2. Break(h, ctl)
      BY <1>5, <2>2 DEF DrvWriteFail
    <3> HIDE DEF h
    <3> QED BY <1>0, <2>1, <3>1, <3>2, BreakSeq DEF InSequence
  <2>3. CASE ~(retries + 1 > MaxRetries)
    BY <1>5, <2>1, <2>3, SeqKeeps DEF DrvWriteFail, history
  <2> QED BY <2>2, <2>3
<1>6. CASE DrvExhausted
  BY <1>6, SeqKeeps DEF DrvExhausted, stackVars, history
<1>7. CASE DrvReadFail
  <2>1. Recover(host, 1) /\ UNCHANGED <<resetting, rxQueue>>
    BY <1>7 DEF DrvReadFail
  <2>2. Count(rxQueue, SeqAnswer) <= Count(ctl.out, SeqAnswer) + Count(rxQueue, SeqAnswer)
    BY SeqNat DEF IInv
  <2> QED BY <1>0, <2>1, <2>2, RecoverSeq DEF InSequence
<1> QED BY <1>1, <1>2, <1>3, <1>4, <1>5, <1>6, <1>7 DEF Drv

(* The controller answers: a command of the sequence is alone under way,   *)
(* and where it is done nothing else depends on what was.                  *)
LEMMA RaiseSeq ==
  ASSUME IInv, InSequence, NEW e \in Event, NEW done \in 0..SetupCmds + 1,
         NEW rest \in Seq(Due(ctl.done)), Raise(e, done, rest), e \in Did(done),
         Count(ctl.inbox, SeqCmd) = Count(rest, SeqCmd) + (IF e \in SeqAnswer THEN 1 ELSE 0),
         e \in SeqAnswer \/ done = ctl.done
  PROVE  InSequence'
<1>0. host \in Host /\ host' \in Host /\ ctl \in Ctl /\ rest \in Seq(Cmd \cup {Acl})
  <2>1. rest \in Seq(Cmd \cup {Acl})
    <3>1. \A i \in 1..Len(rest) : rest[i] \in Due(ctl.done)
      OBVIOUS
    <3>2. \A i \in 1..Len(rest) : rest[i] \in Cmd \cup {Acl}
      BY <3>1 DEF Due
    <3> QED BY <3>2
  <2> QED BY <2>1, RaiseKeeps DEF IInv, DrvType
<1>1. /\ ctl'.out = Append(ctl.out, e) /\ ctl'.inbox = rest /\ ctl'.done = done
      /\ host'.wq = host.wq /\ host'.queue = host.queue
      /\ UNCHANGED <<rxQueue, resetting, dm>>
  BY <1>0 DEF Raise, stackVars, Ctl, Host
<1>2. /\ dm \in [resetting : BOOLEAN, msgs : Nat] /\ resetting = dm.resetting
      /\ Under <= (IF resetting THEN 1 ELSE 0)
      /\ host.queue \in Seq(Due(ctl.done)) /\ host.wq \in Seq(Due(ctl.done))
      /\ ctl.out \in Seq(Did(ctl.done)) /\ rxQueue \in Seq(Did(ctl.done))
  BY DEF InSequence, InTurn
<1>3. /\ Count(host.queue, SeqCmd) \in Nat /\ Count(host.wq, SeqCmd) \in Nat
      /\ Count(rest, SeqCmd) \in Nat /\ Count(ctl.inbox, SeqCmd) \in Nat
      /\ Count(ctl.out, SeqAnswer) \in Nat /\ Count(rxQueue, SeqAnswer) \in Nat
  BY CountNat, SeqNat DEF IInv
<1>4. Count(ctl'.out, SeqAnswer) = Count(ctl.out, SeqAnswer) + (IF e \in SeqAnswer THEN 1 ELSE 0)
  <2>1. ctl.out \in Seq(Event)
    BY <1>0 DEF Ctl
  <2> QED BY <1>1, <2>1, CountAppend
<1>5. Under' = Under
  <2>1. Waits(host') = Waits(host) /\ Waits(host) \in Nat
    BY <1>0, <1>1, WaitsNat DEF Waits
  <2>2. Count(ctl'.inbox, SeqCmd) + Count(ctl'.out, SeqAnswer)
          = Count(ctl.inbox, SeqCmd) + Count(ctl.out, SeqAnswer)
    BY <1>1, <1>3, <1>4
  <2>3. Count(ctl'.inbox, SeqCmd) \in Nat /\ Count(ctl'.out, SeqAnswer) \in Nat
    BY <1>1, <1>3, <1>4
  <2> DEFINE w == Waits(host)
             i == Count(ctl.inbox, SeqCmd)
             o == Count(ctl.out, SeqAnswer)
             r == Count(rxQueue, SeqAnswer)
             j == Count(ctl'.inbox, SeqCmd)
             q == Count(ctl'.out, SeqAnswer)
  <2>4. Under = w + i + o + r
    BY DEF Under
  <2>5. Under' = w + j + q + r
    BY <1>1, <2>1 DEF Under
  <2>6. w \in Nat /\ i \in Nat /\ o \in Nat /\ r \in Nat /\ j \in Nat /\ q \in Nat
        /\ j + q = i + o
    BY <1>3, <2>1, <2>2, <2>3
  <2> HIDE DEF w, i, o, r, j, q
  <2>7. w + j + q + r = w + i + o + r
    BY <2>6
  <2> QED BY <2>4, <2>5, <2>7
<1>6. /\ host.queue \in Seq(Due(done)) /\ host.wq \in Seq(Due(done)) /\ rest \in Seq(Due(done))
      /\ ctl.out \in Seq(Did(done)) /\ rxQueue \in Seq(Did(done))
  <2>1. CASE done = ctl.done
    BY <1>2, <2>1
  <2>2. CASE e \in SeqAnswer
    <3>1. Count(ctl.inbox, SeqCmd) = Count(rest, SeqCmd) + 1
      BY <2>2
    <3>2. Under <= 1
      <4>1. Under \in Nat
        BY SeqNat DEF Under, IInv
      <4> QED BY <1>2, <4>1
    <3>3. /\ Count(host.queue, SeqCmd) = 0 /\ Count(host.wq, SeqCmd) = 0
          /\ Count(rest, SeqCmd) = 0
          /\ Count(ctl.out, SeqAnswer) = 0 /\ Count(rxQueue, SeqAnswer) = 0
      <4> DEFINE u == Count(host.queue, SeqCmd)
                 w == Count(host.wq, SeqCmd)
                 i == Count(rest, SeqCmd)
                 o == Count(ctl.out, SeqAnswer)
                 r == Count(rxQueue, SeqAnswer)
      <4>1. u + w + (i + 1) + o + r <= 1
        BY <3>1, <3>2 DEF Under, Waits
      <4>2. u \in Nat /\ w \in Nat /\ i \in Nat /\ o \in Nat /\ r \in Nat
        BY <1>3
      <4> HIDE DEF u, w, i, o, r
      <4>3. u = 0 /\ w = 0 /\ i = 0 /\ o = 0 /\ r = 0
        BY <4>1, <4>2
      <4> QED BY <4>3 DEF u, w, i, o, r
    <3> QED BY <1>2, <3>3, NoneDue, NoneDid
  <2> QED BY <2>1, <2>2
<1>7. Append(ctl.out, e) \in Seq(Did(done))
  BY <1>6
<1> QED BY <1>0, <1>1, <1>2, <1>5, <1>6, <1>7 DEF InSequence, InTurn

LEMMA CtlSeq ==
  ASSUME IInv, SeqInv, CtlAnswer \/ CtlHwError \/ CtlStall \/ CtlResume
  PROVE  SeqInv'
<1> SUFFICES ASSUME ~cutShort', ~mistaken' PROVE InSequence'
  BY DEF SeqInv
<1>1. ~cutShort /\ ~mistaken
  BY DEF CtlAnswer, CtlHwError, CtlStall, CtlResume, Raise, history
<1>2. InSequence /\ ctl \in Ctl /\ ctl.done \in 0..SetupCmds + 1
  BY <1>1 DEF SeqInv, IInv, DrvType, Ctl
<1>3. ctl.inbox \in Seq(Due(ctl.done))
  BY <1>2 DEF InSequence
<1>4. CASE CtlAnswer
  <2> DEFINE p == Head(ctl.inbox)
             rest == Tail(ctl.inbox)
             a == [type |-> "answer", to |-> p]
  <2>1. /\ ctl.inbox # <<>> /\ p \in Due(ctl.done) /\ rest \in Seq(Due(ctl.done))
        /\ IF p = Acl THEN Raise(Cmpl, ctl.done, rest) ELSE Raise(a, Done(p), rest)
    <3>1. /\ ctl.inbox # <<>>
          /\ IF p = Acl THEN Raise(Cmpl, ctl.done, rest) ELSE Raise(a, Done(p), rest)
      BY <1>4 DEF CtlAnswer
    <3> QED BY <1>3, <3>1, FrontAndRest
  <2>2. Count(ctl.inbox, SeqCmd) = Count(rest, SeqCmd) + (IF p \in SeqCmd THEN 1 ELSE 0)
    BY <1>3, <2>1, CountTail
  <2>3. CASE p = Acl
    <3>1. Cmpl \in Event /\ Cmpl \notin SeqAnswer /\ Cmpl \in Did(ctl.done)
      BY DEF Cmpl, Event, SeqAnswer, Did
    <3>2. p \notin SeqCmd
      BY <2>3, AclIsNoCmd DEF SeqCmd
    <3> HIDE DEF p, rest, a
    <3> QED BY <1>2, <2>1, <2>2, <2>3, <3>1, <3>2, RaiseSeq
  <2>4. CASE p # Acl
    <3>1. p \in Cmd
      BY <2>1, <2>4 DEF Due
    <3>2. a \in Event /\ (a \in SeqAnswer <=> p \in SeqCmd) /\ a.type = "answer" /\ a.to = p
      BY <3>1 DEF Event, Answer, SeqAnswer
    <3>3. /\ p.op = "reset" => Done(p) = 1
          /\ p.op = "setup" => ctl.done = p.i /\ Done(p) = p.i + 1
          /\ p.op \in {"rand", "secRand", "other"} => Done(p) = ctl.done
          /\ p.op = "rand" => ctl.done = SetupCmds + 1
      BY <2>1 DEF Due, Done
    <3>4. Done(p) \in 0..SetupCmds + 1
      BY <1>2, <2>1, <3>1, <3>3, CmdAssumption DEF Cmd
    <3>5. a \in Did(Done(p))
      <4> HIDE DEF a
      <4> QED BY <3>2, <3>3 DEF Did
    <3>6. p \in SeqCmd \/ Done(p) = ctl.done
      BY <3>1, <3>3 DEF SeqCmd, Cmd
    <3> HIDE DEF p, rest, a
    <3> QED BY <1>2, <2>1, <2>2, <2>4, <3>2, <3>4, <3>5, <3>6, RaiseSeq
  <2> QED BY <2>3, <2>4
<1>5. CASE CtlHwError
  <2> DEFINE e == [type |-> "hwError"]
  <2>1. e \in Event /\ e \notin SeqAnswer /\ e \in Did(ctl.done)
    BY DEF Event, SeqAnswer, Did
  <2>2. Raise(e, ctl.done, ctl.inbox)
    BY <1>5 DEF CtlHwError
  <2>3. Count(ctl.inbox, SeqCmd) = Count(ctl.inbox, SeqCmd) + 0
    BY SeqNat DEF IInv
  <2> HIDE DEF e
  <2> QED BY <1>2, <1>3, <2>1, <2>2, <2>3, RaiseSeq
<1>6. CASE CtlStall \/ CtlResume
  <2>1. /\ ctl'.out = ctl.out /\ ctl'.inbox = ctl.inbox /\ ctl'.done = ctl.done
        /\ UNCHANGED <<host, rxQueue, resetting, dm>>
    BY <1>2, <1>6 DEF CtlStall, CtlResume, stackVars, Ctl
  <2> QED BY <1>2, <2>1 DEF InSequence, Under
<1> QED BY <1>4, <1>5, <1>6

(* A reset of the stack that ends, and that no boot cut short, has been    *)
(* done whole: the controller has done every command of the sequence since *)
(* its HCI_RESET, in its order.  The one exception is the answer to a      *)
(* LE_RAND of SecRand, taken for one to the sequence's.                    *)
EndsWhole ==
  [][dm.resetting /\ ~dm'.resetting
       => ctl.done = SetupCmds + 1 \/ cutShort \/ mistaken']_vars

(* That holds whatever commands are sent, whatever was on its way when the *)
(* reset began, and however faults, stalls and boots, failed ones too,     *)
(* come in between (hci_vs.c:122-297, dm_dev.c:63-82).                     *)
THEOREM ResetsEndWhole == Spec => EndsWhole
<1>1. Init => IInv /\ SeqInv
  BY InitInv, InitSeq
<1>2. ASSUME IInv, SeqInv, [Next]_vars PROVE IInv' /\ SeqInv'
  <2>1. CASE UNCHANGED vars
    <3>1. IInv'
      BY <1>2, <2>1 DEF vars, stackVars, drvVars, IInv, DrvType, DriverComesBack, IRQ
    <3>2. SeqInv'
      BY <1>2, <2>1 DEF vars, SeqInv, InSequence, Under
    <3> QED BY <3>1, <3>2
  <2>2. CASE Next
    <3>1. IInv'
      BY <1>2, <2>2, StackKeeps, CoreKeeps, DrvKeeps, CtlKeeps DEF Next
    <3>2. SeqInv'
      BY <1>2, <2>2, StackSeq, CoreSeq, AnswerSeq, DrvSeq, CtlSeq DEF Next, Core
    <3> QED BY <3>1, <3>2
  <2> QED BY <1>2, <2>1, <2>2
<1>3. ASSUME IInv, SeqInv, [Next]_vars
      PROVE  [dm.resetting /\ ~dm'.resetting
                => ctl.done = SetupCmds + 1 \/ cutShort \/ mistaken']_vars
  <2> SUFFICES ASSUME Next, dm.resetting, ~dm'.resetting
               PROVE  ctl.done = SetupCmds + 1 \/ cutShort \/ mistaken'
    BY <1>3
  <2>1. CASE CoreAnswer
    BY <1>3, <2>1, AnswerSeq
  <2>2. CASE ~cutShort /\ ~mistaken' /\ ~CoreAnswer
    <3>0. ~mistaken
      BY <2>2 DEF Next, StackCmd, Heartbeat, SendAcl, DmReset, CmdTimeout, Core, CoreStart,
                  CoreOther, CoreDone, DrvStart, Drv, DrvRead, DrvEmpty, DrvWriteOk, DrvWriteFail,
                  DrvExhausted, DrvReadFail, CtlAnswer, CtlHwError, CtlStall, CtlResume,
                  Raise, Break, Recover, Reboot, RadioBoot, history
    <3>1. dm \in [resetting : BOOLEAN, msgs : Nat] /\ dm.resetting
      BY <1>3, <2>2, <3>0 DEF SeqInv, InSequence
    <3>2. \/ dm' = dm
          \/ dm' = [dm EXCEPT !.msgs = @ - 1]
          \/ dm' = [dm EXCEPT !.msgs = @ + 1]
      BY <2>2 DEF Next, StackCmd, Heartbeat, SendAcl, DmReset, CmdTimeout, Core, CoreStart,
                  CoreOther, CoreDone, DrvStart, Drv, DrvRead, DrvEmpty, DrvWriteOk, DrvWriteFail,
                  DrvExhausted, DrvReadFail, CtlAnswer, CtlHwError, CtlStall, CtlResume,
                  Raise, Break, Recover, Reboot, RadioBoot, stackVars
    <3> QED BY <3>1, <3>2
  <2> QED BY <2>1, <2>2
<1> QED BY <1>1, <1>2, <1>3, PTL DEF Spec, EndsWhole
=============================================================================
