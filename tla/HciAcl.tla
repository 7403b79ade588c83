-------------------------------- MODULE HciAcl --------------------------------
(***************************************************************************)
(* The host's ACL data path (ble-host/sources/hci/ambiq/hci_core.c,        *)
(* hci_core_ps.c) with the flow control of L2CAP, ATT and SMP above it and *)
(* the controller below.  RadioTask runs everything but the controller;    *)
(* loops and callbacks of one call are steps of their own (`at'), between  *)
(* which only the controller moves.  A connection is its handle: the       *)
(* controller has no more of them than the DM_CONN_MAX records there are.  *)
(***************************************************************************)
EXTENDS Naturals, Sequences, FiniteSets, SequencesExt

CONSTANTS Handles,    \* connection handles of the controller
          NumBufs,    \* hciCoreCb.numBufs
          BufSize,    \* hciCoreCb.bufSize
          QueueHi,    \* HCI_ACL_QUEUE_HI
          QueueLo,    \* HCI_ACL_QUEUE_LO
          Lens,       \* lengths of the packets of the stack
          MaxQueued,  \* bound: packets in aclQueue (WSF buffers for them)
          MaxEvents   \* bound: events on their way from the controller

ASSUME AclAssumption == /\ NumBufs \in Nat \ {0}
                        /\ BufSize \in Nat \ {0}
                        /\ Lens \subseteq Nat \ {0}
                        /\ {QueueHi, QueueLo, MaxQueued, MaxEvents} \subseteq Nat
                        /\ QueueLo < QueueHi
                        /\ IsFiniteSet(Handles)

VARIABLES conn,      \* hciCoreCb.conn and the flow flags of ATT and SMP
          availBufs, \* hciCoreCb.availBufs
          aclQueue,  \* hciCoreCb.aclQueue
          at,        \* where RadioTask is in a call of this module
          cur,       \* HciSendAclData: the packet and where to return to
          evt,       \* hciCoreNumCmplPkts: handles still to do
          resumed,   \* the handle whose flow callback is running
          credit,    \* hciCoreNumCmplPkts: its local availBufs
          link,      \* the connections of the controller
          ctl,       \* ctl[h]: pieces the transport and the controller hold
          lacks,     \* lacks[h]: bytes the peer still expects of a packet
          rxQueue    \* events the controller sent and the host has not handled

core == <<conn, availBufs, aclQueue>>
radio == <<link, ctl, lacks, rxQueue>>
vars == <<core, at, cur, evt, resumed, credit, radio>>

Packet == [h : Handles, len : Lens]
Conn == [open : BOOLEAN, flowDisabled : BOOLEAN, outBufs : Nat, queuedBufs : Nat,
         fragmenting : BOOLEAN, remLen : Nat, attOff : BOOLEAN, smpOff : BOOLEAN]
Closed == [open |-> FALSE, flowDisabled |-> FALSE, outBufs |-> 0, queuedBufs |-> 0,
           fragmenting |-> FALSE, remLen |-> 0, attOff |-> FALSE, smpOff |-> FALSE]
NoCounts == [h \in Handles |-> 0]
Counts == [Handles -> 0..NumBufs]
Event == [type : {"open", "close"}, h : Handles] \cup [type : {"cmpl"}, n : Counts]
Places == {"idle", "start", "send", "txReady", "cmpl", "flowAtt", "flowSmp"}
NoPacket == [back |-> "idle"]

TypeOK == /\ conn \in [Handles -> Conn]
          /\ availBufs \in 0..NumBufs
          /\ aclQueue \in Seq(Packet)
          /\ at \in Places
          /\ cur \in [h : Handles, len : Lens, back : Places] \cup {NoPacket}
          /\ at \in {"start", "send"} => cur # NoPacket
          /\ evt \in Counts
          /\ resumed \in SUBSET Handles
          /\ credit \in Nat
          /\ link \in SUBSET Handles
          /\ ctl \in [Handles -> Nat]
          /\ lacks \in [Handles -> Nat]
          /\ rxQueue \in Seq(Event)

Init == /\ conn = [h \in Handles |-> Closed]
        /\ availBufs = NumBufs
        /\ aclQueue = <<>>
        /\ at = "idle"
        /\ cur = NoPacket
        /\ evt = NoCounts
        /\ resumed = {}
        /\ credit = 0
        /\ link = {}
        /\ ctl = NoCounts
        /\ lacks = NoCounts
        /\ rxQueue = <<>>

-----------------------------------------------------------------------------
(* Sending.                                                                *)

NumFrags(len) == (len - 1) \div BufSize + 1
MinLen(a, b) == IF a < b THEN a ELSE b

(* hciCoreSendAclData and, in it, hciCoreTxAclComplete: n bytes to the     *)
(* driver, whose queue has room for NumBufs pieces and a command.  What is *)
(* sent to a connection the controller has lost is discarded there.  The   *)
(* first piece tells the peer the length of the packet.                    *)
SendAclData(h, c, n, expected) ==
  /\ conn' = [conn EXCEPT ![h] = [c EXCEPT !.outBufs = @ + 1,
                                           !.fragmenting = @ /\ c.remLen # 0]]
  /\ ctl' = IF h \in link THEN [ctl EXCEPT ![h] = @ + 1] ELSE ctl
  /\ lacks' = [lacks EXCEPT ![h] = expected - n]
  /\ availBufs' = IF availBufs > 0 THEN availBufs - 1 ELSE 0
  /\ UNCHANGED <<link, rxQueue>>

TxAclStart(h, len) ==
  IF len > BufSize
  THEN SendAclData(h, [conn[h] EXCEPT !.remLen = len - BufSize, !.fragmenting = TRUE],
                   BufSize, len)
  ELSE SendAclData(h, conn[h], len, len)

TxAclContinue(h) ==
  LET n == MinLen(conn[h].remLen, BufSize)
  IN  SendAclData(h, [conn[h] EXCEPT !.remLen = @ - n], n, lacks[h])

(* The stack sends a packet, of its own accord or in a flow callback.      *)
(* HciSendAclData discards it if the connection is closed.                 *)
CallSend(h, len) ==
  /\ conn[h].open
  /\ Len(aclQueue) < MaxQueued
  /\ cur' = [h |-> h, len |-> len, back |-> at]
  /\ IF aclQueue = <<>> /\ availBufs > 0
     THEN /\ at' = "start"
          /\ UNCHANGED aclQueue
     ELSE /\ aclQueue' = Append(aclQueue, [h |-> h, len |-> len])
          /\ at' = "send"
  /\ UNCHANGED <<conn, availBufs, evt, resumed, credit, radio>>

Send == /\ at = "idle"
        /\ \E h \in Handles, len \in Lens : CallSend(h, len)

StartSend == /\ at = "start"
             /\ TxAclStart(cur.h, cur.len)
             /\ at' = "send"
             /\ UNCHANGED <<aclQueue, cur, evt, resumed, credit>>

(* The loop of hciCoreTxAclStart: pieces while there are buffers.          *)
ContinueSend == /\ at = "send"
                /\ availBufs > 0
                /\ conn[cur.h].fragmenting
                /\ TxAclContinue(cur.h)
                /\ UNCHANGED <<aclQueue, at, cur, evt, resumed, credit>>

(* bug: the packet is counted as one buffer                                *)
FinishSend_One ==
  /\ at = "send"
  /\ ~(availBufs > 0 /\ conn[cur.h].fragmenting)
  /\ conn' = [conn EXCEPT ![cur.h].queuedBufs = @ + 1]
  /\ at' = cur.back
  /\ cur' = NoPacket
  /\ UNCHANGED <<availBufs, aclQueue, evt, resumed, credit, radio>>

(* The rest of HciSendAclData, with the callback that stops ATT and SMP.   *)
FinishSend ==
  /\ at = "send"
  /\ ~(availBufs > 0 /\ conn[cur.h].fragmenting)
  /\ LET c   == conn[cur.h]
         q   == c.queuedBufs + NumFrags(cur.len)
         off == q >= QueueHi /\ ~c.flowDisabled
     IN  conn' = [conn EXCEPT ![cur.h] = [c EXCEPT !.queuedBufs = q,
                                                   !.flowDisabled = @ \/ off,
                                                   !.attOff = @ \/ off,
                                                   !.smpOff = @ \/ off]]
  /\ at' = cur.back
  /\ cur' = NoPacket
  /\ UNCHANGED <<availBufs, aclQueue, evt, resumed, credit, radio>>

-----------------------------------------------------------------------------
(* hciCoreTxReady: `bufs' more buffers, with a ceiling, then its loop.     *)

Fragmenting == {h \in Handles : conn[h].open /\ conn[h].fragmenting}

(* bug: a packet from the queue is preferred to the rest of another        *)
TxReady_QueueFirst ==
  /\ at = "txReady"
  /\ \/ /\ availBufs > 0
        /\ aclQueue # <<>>
        /\ aclQueue' = Tail(aclQueue)
        /\ IF conn[Head(aclQueue).h].open
           THEN TxAclStart(Head(aclQueue).h, Head(aclQueue).len)
           ELSE UNCHANGED <<conn, availBufs, radio>>
        /\ UNCHANGED at
     \/ /\ availBufs > 0 /\ aclQueue = <<>> /\ Fragmenting # {}
        /\ \E h \in Fragmenting : TxAclContinue(h)
        /\ UNCHANGED <<aclQueue, at>>
     \/ /\ availBufs = 0 \/ (Fragmenting = {} /\ aclQueue = <<>>)
        /\ at' = "idle"
        /\ UNCHANGED <<conn, availBufs, aclQueue, radio>>
  /\ UNCHANGED <<cur, evt, resumed, credit>>

TxReady ==
  /\ at = "txReady"
  /\ \/ /\ availBufs > 0                        \* the rest of a packet first
        /\ \E h \in Fragmenting : TxAclContinue(h)
        /\ UNCHANGED <<aclQueue, at>>
     \/ /\ availBufs > 0                        \* then the queue
        /\ Fragmenting = {}
        /\ aclQueue # <<>>
        /\ aclQueue' = Tail(aclQueue)
        /\ IF conn[Head(aclQueue).h].open
           THEN TxAclStart(Head(aclQueue).h, Head(aclQueue).len)
           ELSE UNCHANGED <<conn, availBufs, radio>>
        /\ UNCHANGED at
     \/ /\ availBufs = 0 \/ (Fragmenting = {} /\ aclQueue = <<>>)
        /\ at' = "idle"
        /\ UNCHANGED <<conn, availBufs, aclQueue, radio>>
  /\ UNCHANGED <<cur, evt, resumed, credit>>

-----------------------------------------------------------------------------
(* Events of the controller.                                               *)

NextIs(type) == at = "idle" /\ rxQueue # <<>> /\ Head(rxQueue).type = type

(* hciCoreConnOpen, hciCoreConnAlloc; ATT and SMP start with flow on.      *)
ConnOpen == /\ NextIs("open")
            /\ conn' = [conn EXCEPT ![Head(rxQueue).h] = [Closed EXCEPT !.open = TRUE]]
            /\ rxQueue' = Tail(rxQueue)
            /\ UNCHANGED <<availBufs, aclQueue, at, cur, evt, resumed, credit, link, ctl, lacks>>

(* bug: the buffers of a lost connection are not given back                *)
ConnClose_Leak == /\ NextIs("close")
                  /\ conn' = [conn EXCEPT ![Head(rxQueue).h] = Closed]
                  /\ lacks' = [lacks EXCEPT ![Head(rxQueue).h] = 0]
                  /\ rxQueue' = Tail(rxQueue)
                  /\ at' = "txReady"
                  /\ UNCHANGED <<availBufs, aclQueue, cur, evt, resumed, credit, link, ctl>>

(* hciCoreConnClose, hciCoreConnFree: the packet being sent in pieces is   *)
(* freed, packets in aclQueue are left there.                              *)
ConnClose == /\ NextIs("close")
             /\ LET h == Head(rxQueue).h
                IN  /\ conn' = [conn EXCEPT ![h] = Closed]
                    /\ availBufs' = MinLen(availBufs + conn[h].outBufs, NumBufs)
                    /\ lacks' = [lacks EXCEPT ![h] = 0]
             /\ rxQueue' = Tail(rxQueue)
             /\ at' = "txReady"
             /\ UNCHANGED <<aclQueue, cur, evt, resumed, credit, link, ctl>>

NumCmplPkts == /\ NextIs("cmpl")
               /\ evt' = Head(rxQueue).n
               /\ credit' = 0
               /\ at' = "cmpl"
               /\ rxQueue' = Tail(rxQueue)
               /\ UNCHANGED <<core, cur, resumed, link, ctl, lacks>>

(* bug: flow stays off                                                     *)
CmplHandle_Off ==
  /\ at = "cmpl"
  /\ \E h \in Handles :
       /\ evt[h] > 0
       /\ evt' = [evt EXCEPT ![h] = 0]
       /\ IF conn[h].open
          THEN /\ conn' = [conn EXCEPT ![h].outBufs = @ - evt[h], ![h].queuedBufs = @ - evt[h]]
               /\ credit' = credit + evt[h]
          ELSE UNCHANGED <<conn, credit>>
  /\ UNCHANGED <<availBufs, aclQueue, at, cur, resumed, link, ctl, lacks, rxQueue>>

(* One handle of the event; where flow comes on again, ATT is told first.  *)
CmplHandle ==
  /\ at = "cmpl"
  /\ \E h \in Handles :
       /\ evt[h] > 0
       /\ evt' = [evt EXCEPT ![h] = 0]
       /\ IF conn[h].open
          THEN LET c  == [conn[h] EXCEPT !.outBufs = @ - evt[h], !.queuedBufs = @ - evt[h]]
                   on == c.flowDisabled /\ c.queuedBufs <= QueueLo
               IN  /\ credit' = credit + evt[h]
                   /\ conn' = [conn EXCEPT ![h] = IF on THEN [c EXCEPT !.flowDisabled = FALSE,
                                                                       !.attOff = FALSE]
                                                        ELSE c]
                   /\ at' = IF on THEN "flowAtt" ELSE "cmpl"
                   /\ resumed' = IF on THEN {h} ELSE {}
          ELSE UNCHANGED <<conn, credit, at, resumed>>
  /\ UNCHANGED <<availBufs, aclQueue, cur, radio>>

(* bug: ATT takes flow to be on after it has sent                          *)
FlowAtt_ClearLast ==
  /\ at = "flowAtt"
  /\ \E h \in resumed :
       \/ \E len \in Lens : CallSend(h, len)
       \/ /\ at' = "flowSmp"
          /\ conn' = [conn EXCEPT ![h].attOff = FALSE, ![h].smpOff = FALSE]
          /\ UNCHANGED <<availBufs, aclQueue, cur, evt, resumed, credit, radio>>

(* l2cHciFlowCback: ATT may send, unless its sending turns flow off again; *)
(* then SMP is told that flow is on, and may send.                         *)
FlowAtt == /\ at = "flowAtt"
           /\ \E h \in resumed :
                \/ \E len \in Lens : CallSend(h, len)
                \/ /\ at' = "flowSmp"
                   /\ conn' = [conn EXCEPT ![h].smpOff = FALSE]
                   /\ UNCHANGED <<availBufs, aclQueue, cur, evt, resumed, credit, radio>>

FlowSmp == /\ at = "flowSmp"
           /\ \/ \E h \in resumed, len \in Lens : CallSend(h, len)
              \/ /\ at' = "cmpl"
                 /\ resumed' = {}
                 /\ UNCHANGED <<core, cur, evt, credit, radio>>

CmplDone == /\ at = "cmpl"
            /\ evt = NoCounts
            /\ availBufs' = MinLen(availBufs + credit, NumBufs)
            /\ credit' = 0
            /\ at' = "txReady"
            /\ UNCHANGED <<conn, aclQueue, cur, evt, resumed, radio>>

-----------------------------------------------------------------------------
(* The controller.  It gives a handle out again only when nothing of the   *)
(* last connection of that handle is left in the host.                     *)

Forgotten(h) == /\ ~conn[h].open
                /\ \A i \in DOMAIN aclQueue : aclQueue[i].h # h
                /\ \A i \in DOMAIN rxQueue : rxQueue[i].type # "cmpl" => rxQueue[i].h # h

CtlOpen(h) == /\ h \notin link
              /\ Forgotten(h)
              /\ Len(rxQueue) < MaxEvents
              /\ link' = link \cup {h}
              /\ rxQueue' = Append(rxQueue, [type |-> "open", h |-> h])
              /\ UNCHANGED <<core, at, cur, evt, resumed, credit, ctl, lacks>>

(* Pieces are acknowledged by the peers; one event may be for several      *)
(* connections.                                                            *)
CtlComplete(n) == /\ n # NoCounts
                  /\ \A h \in Handles : n[h] > 0 => h \in link /\ n[h] <= ctl[h]
                  /\ Len(rxQueue) < MaxEvents
                  /\ ctl' = [h \in Handles |-> ctl[h] - n[h]]
                  /\ rxQueue' = Append(rxQueue, [type |-> "cmpl", n |-> n])
                  /\ UNCHANGED <<core, at, cur, evt, resumed, credit, link, lacks>>

CtlClose(h) == /\ h \in link
               /\ Len(rxQueue) < MaxEvents
               /\ link' = link \ {h}
               /\ ctl' = [ctl EXCEPT ![h] = 0]
               /\ rxQueue' = Append(rxQueue, [type |-> "close", h |-> h])
               /\ UNCHANGED <<core, at, cur, evt, resumed, credit, lacks>>

Host == \/ StartSend \/ ContinueSend \/ FinishSend
        \/ TxReady
        \/ ConnOpen \/ ConnClose
        \/ NumCmplPkts \/ CmplHandle \/ FlowAtt \/ FlowSmp \/ CmplDone

Controller == \/ \E h \in Handles : CtlOpen(h) \/ CtlClose(h)
              \/ \E n \in Counts : CtlComplete(n)

Next == Send \/ Host \/ Controller

Spec == Init /\ [][Next]_vars

(* RadioTask handles events (WSF event system), and the controller gets    *)
(* rid of every piece: the peer acknowledges it or is lost.                *)
FairSpec == /\ Spec
            /\ WF_vars(Host)
            /\ \A h \in Handles :
                 SF_vars(/\ ctl[h] > 0
                         /\ CtlClose(h) \/ \E n \in Counts : n[h] > 0 /\ CtlComplete(n))

-----------------------------------------------------------------------------
(* Properties.                                                             *)

Completed(e, h) == IF e.type = "cmpl" THEN e.n[h] ELSE 0
OnTheWay(h) == evt[h] + SumFunction([i \in DOMAIN rxQueue |-> Completed(rxQueue[i], h)])
ClosePending(h) == \E i \in DOMAIN rxQueue : rxQueue[i] = [type |-> "close", h |-> h]
OutBufs == SumFunction([h \in Handles |-> conn[h].outBufs])

(* Buffers of the controller are neither lost nor counted twice, over any  *)
(* order of completions, losses of connections and reopened handles: what  *)
(* is free, what connections hold and what is being given back make up     *)
(* NumBufs, and a connection holds exactly the pieces in the controller    *)
(* and the completions not yet handled.                                    *)
CreditsConserved ==
  /\ availBufs + OutBufs + credit = NumBufs
  /\ \A h \in link : conn[h].open /\ ~ClosePending(h) =>
                       conn[h].outBufs = ctl[h] + OnTheWay(h)

Frags(p, h) == IF p.h = h THEN NumFrags(p.len) ELSE 0
WaitingFrags(h) ==
  conn[h].outBufs + (IF conn[h].fragmenting THEN NumFrags(conn[h].remLen) ELSE 0)
                  + SumFunction([i \in DOMAIN aclQueue |-> Frags(aclQueue[i], h)])

(* The counter flow control goes by is the buffers the connection holds    *)
(* and those its waiting packets will need, for all lengths of packets     *)
(* and at every moment but inside HciSendAclData.                          *)
QueuedCounted ==
  at \notin {"start", "send"} => \A h \in Handles : conn[h].open => conn[h].queuedBufs = WaitingFrags(h)

(* No packet is started while the rest of another of its connection waits  *)
(* (the assertion of hciCoreTxAclStart), at most one packet is cut at any  *)
(* time, and nothing waits while a buffer of the controller is free.       *)
OneCutAtATime ==
  /\ \A g, h \in Fragmenting : g = h
  /\ at = "start" => ~conn[cur.h].fragmenting
  /\ at = "idle" /\ availBufs > 0 => Fragmenting = {} /\ aclQueue = <<>>

(* Once the callbacks are through, ATT is held up exactly where HCI has    *)
(* flow off, and SMP nowhere else, though one callback turns flow on and   *)
(* what it sends may turn it off again.                                    *)
NobodyHeldUp ==
  at \notin {"flowAtt", "flowSmp"} /\ (cur = NoPacket \/ cur.back = "idle") =>
    \A h \in Handles : conn[h].open => /\ conn[h].attOff = conn[h].flowDisabled
                                       /\ conn[h].smpOff => conn[h].flowDisabled

(* A connection whose flow is turned off gets it back or is closed, unless *)
(* its packets never cease.                                                *)
FlowResumes ==
  \A h \in Handles :
    \/ []<>(at = "start" /\ cur.h = h)
    \/ []<>(at = "send" /\ cur.h = h)
    \/ conn[h].flowDisabled ~> ~conn[h].flowDisabled

-----------------------------------------------------------------------------
(* The packets of a connection in a queue, in order.                       *)
LensOf(q, h) ==
  LET lens[i \in 0..Len(q)] ==
        IF i = 0 THEN <<>>
        ELSE IF q[i].h = h THEN Append(lens[i - 1], q[i].len) ELSE lens[i - 1]
  IN  lens[Len(q)]

(* What the peer still lacks of a packet, what is queued behind it, and    *)
(* the packet HciSendAclData is about to start.                            *)
Waiting(h) == (IF lacks[h] # 0 THEN <<lacks[h]>> ELSE <<>>)
              \o LensOf(aclQueue, h)
              \o (IF at = "start" /\ cur.h = h THEN <<cur.len>> ELSE <<>>)

Up == {h \in Handles : conn[h].open}
Todo == [h \in Handles |-> IF conn[h].open THEN Waiting(h) ELSE <<>>]
HeldNow == [h \in Handles |-> conn[h].outBufs]

Stream == INSTANCE AclStream WITH up <- Up, todo <- Todo, held <- HeldNow

(* Packets are handed over whole, in order, per connection, and no more    *)
(* pieces than the controller has buffers.                                 *)
ImplementsStream == Stream!StreamSpec
=============================================================================
