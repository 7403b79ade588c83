----------------------------- MODULE SoftSerial -----------------------------
(***************************************************************************)
(* One port of libraries/SoftwareSerial: bits made and measured by one     *)
(* compare interrupt, shared by both directions, and an interrupt at every *)
(* edge of the RX pin.  The sketch writes, reads and waits; the interrupts *)
(* come between any two of its steps, and it does not run while one is     *)
(* pending.                                                                *)
(*                                                                         *)
(* A byte is its number in the order of sending.  What is on the TX pin is *)
(* a sequence of pairs of a byte and the part of its frame; a byte of the  *)
(* peer is a start edge and one more.  Lengths of bits are left out: the   *)
(* compare interrupt that ends a received byte comes after its last edge.  *)
(***************************************************************************)
EXTENDS Integers, Sequences, SequencesExt

CONSTANTS Bits,       \* _dataBits, 8 of the code, of both counters
          Parity,     \* is there a parity bit?
          Size,       \* AP3_SS_BUFFER_SIZE
          MaxOut,     \* bound: bytes written
          MaxIn       \* bound: bytes of the peer

SerialConstants ==
  /\ {Bits, MaxOut, MaxIn} \subseteq Nat \ {0}
  /\ Size \in Nat \ {0, 1}
  /\ Parity \in BOOLEAN

VARIABLES port,   \* txInUse, rxInUse, lastBitTime # 0, bitCounter, outgoingByte and its shifts
          timer,  \* the compare register: what it was set for, its flag, its NVIC bit
          pci,    \* is the RX pin attached?
          tx, rx, \* the two ring buffers
          w,      \* the call of write()
          reading, \* the call of read()
          peer,   \* the byte the peer is sending, bytes begun
          out,    \* the TX pin
          seen,   \* edges of the byte that is being received
          queued, heard, got, \* history: bytes write() took, rxEndOfByte made, read() returned
          broken  \* history: "duplex", both sides have been sending at once; "frame", the
                  \* transmitter was disturbed, at one of the four steps that say so

vars == <<port, timer, pci, tx, rx, w, reading, peer, out, seen, queued, heard, got,
          broken>>
sketchVars == <<w, reading, queued, got>>

Slot == 0 .. Size - 1
Garbage == 0
EmptyRing == [buf |-> [i \in Slot |-> Garbage], head |-> 0, tail |-> 0]
next(i) == (i + 1) % Size

TypeOK ==
  /\ port \in [txInUse : BOOLEAN, rxInUse : BOOLEAN, timed : BOOLEAN, bitCounter : Nat,
               outgoing : 0..MaxOut, shifts : Nat]
  /\ timer \in [set : {"none", "tx", "rx"}, flag : BOOLEAN, nvic : BOOLEAN]
  /\ pci \in BOOLEAN
  /\ tx \in [buf : [Slot -> 0..MaxOut], head : Slot, tail : Slot]
  /\ rx \in [buf : [Slot -> 0..MaxIn], head : Slot, tail : Slot]
  /\ w \in [at : {"idle", "check", "detach", "rxoff", "put", "claim", "take", "begin"},
            n : 0..MaxOut]
  /\ reading \in BOOLEAN
  /\ peer \in [edges : 0..1, n : 0..MaxIn]
  /\ queued \in Seq(1..MaxOut)
  /\ heard \in Seq(0..MaxIn) /\ got \in Seq(0..MaxIn)
  /\ broken \in SUBSET {"duplex", "frame"}

(* After begin().                                                          *)
Init ==
  /\ port = [txInUse |-> FALSE, rxInUse |-> FALSE, timed |-> FALSE, bitCounter |-> 0,
             outgoing |-> 0, shifts |-> 0]
  /\ timer = [set |-> "none", flag |-> FALSE, nvic |-> FALSE]
  /\ pci = TRUE
  /\ tx = EmptyRing /\ rx = EmptyRing
  /\ w = [at |-> "idle", n |-> 0]
  /\ reading = FALSE
  /\ peer = [edges |-> 0, n |-> 0]
  /\ out = <<>> /\ seen = <<>>
  /\ queued = <<>> /\ heard = <<>> /\ got = <<>> /\ broken = {}

-----------------------------------------------------------------------------
Preempted == timer.flag /\ timer.nvic
Receiving == peer.edges > 0 \/ timer.set = "rx" \/ port.rxInUse
Broken(what, when) == broken' = IF when THEN broken \cup {what} ELSE broken

(* The port with its counter at the start bit, and the timer at the end of *)
(* it.                                                                     *)
beginTX(p) == [p EXCEPT !.bitCounter = 0]
SetForTX == [set |-> "tx", flag |-> FALSE, nvic |-> TRUE]
Taken(p) == [p EXCEPT !.outgoing = tx.buf[next(tx.tail)], !.shifts = 0]
Bit(part) == <<port.outgoing, part>>

CallWrite ==
  /\ w.at = "idle" /\ ~reading /\ ~Preempted /\ w.n < MaxOut
  /\ w' = [at |-> "check", n |-> w.n + 1]
  /\ Broken("duplex", Receiving)
  /\ UNCHANGED <<port, timer, pci, tx, rx, reading, peer, out, seen, queued, heard, got>>

At(step) == w.at = step /\ ~Preempted

CheckInUse ==
  /\ At("check")
  /\ w' = [w EXCEPT !.at = IF port.txInUse THEN "put" ELSE "detach"]
  /\ UNCHANGED <<port, timer, pci, tx, rx, reading, peer, out, seen, queued, heard, got, broken>>

Detach ==
  /\ At("detach")
  /\ pci' = FALSE
  /\ w' = [w EXCEPT !.at = "rxoff"]
  /\ UNCHANGED <<port, timer, tx, rx, reading, peer, out, seen, queued, heard, got, broken>>

TurnOffRX ==
  /\ At("rxoff")
  /\ port' = [port EXCEPT !.rxInUse = FALSE]
  /\ w' = [w EXCEPT !.at = "put"]
  /\ UNCHANGED <<timer, pci, tx, rx, reading, peer, out, seen, queued, heard, got, broken>>

Put ==
  /\ At("put")
  /\ IF next(tx.head) # tx.tail
     THEN /\ tx' = [tx EXCEPT !.buf[next(tx.head)] = w.n, !.head = next(tx.head)]
          /\ queued' = Append(queued, w.n)
     ELSE UNCHANGED <<tx, queued>>
  /\ w' = [w EXCEPT !.at = "claim"]
  /\ UNCHANGED <<port, timer, pci, rx, reading, peer, out, seen, heard, got, broken>>

(* bug: what was found out before the byte was put is still believed.      *)
Claim_Always ==
  /\ At("claim")
  /\ w' = [w EXCEPT !.at = "take"]
  /\ port' = [port EXCEPT !.txInUse = TRUE]
  /\ UNCHANGED <<timer, pci, tx, rx, reading, peer, out, seen, queued, heard, got, broken>>

(* Where the transmission that was found in use has ended since, the port  *)
(* listens again, and may be in the middle of a byte.                      *)
Claim ==
  /\ At("claim")
  /\ IF port.txInUse
     THEN /\ w' = [w EXCEPT !.at = "idle"] /\ UNCHANGED <<port, broken>>
     ELSE /\ w' = [w EXCEPT !.at = "take"]
          /\ port' = [port EXCEPT !.txInUse = TRUE]
          /\ Broken("frame", port.rxInUse)
  /\ UNCHANGED <<timer, pci, tx, rx, reading, peer, out, seen, queued, heard, got>>

(* Nobody asks whether the interrupt has sent the byte meanwhile.          *)
Take ==
  /\ At("take")
  /\ port' = Taken(port)
  /\ tx' = [tx EXCEPT !.tail = next(@)]
  /\ w' = [w EXCEPT !.at = "begin"]
  /\ Broken("frame", tx.tail = tx.head)
  /\ UNCHANGED <<timer, pci, rx, reading, peer, out, seen, queued, heard, got>>

(* Its accesses are one step: an interrupt that comes between them could   *)
(* have come before them.                                                  *)
Begin ==
  /\ At("begin")
  /\ port' = beginTX(port)
  /\ out' = Append(out, Bit(0))
  /\ timer' = SetForTX
  /\ w' = [w EXCEPT !.at = "idle"]
  /\ UNCHANGED <<pci, tx, rx, reading, peer, seen, queued, heard, got, broken>>

write == CallWrite \/ CheckInUse \/ Detach \/ TurnOffRX \/ Put \/ Claim \/ Take \/ Begin

(* The tail moves first, in one store; the slot it names stays free.       *)
read ==
  /\ w.at = "idle" /\ ~Preempted
  /\ \/ /\ ~reading /\ rx.head # rx.tail
        /\ rx' = [rx EXCEPT !.tail = next(@)] /\ reading' = TRUE /\ UNCHANGED got
     \/ /\ reading
        /\ got' = Append(got, rx.buf[rx.tail]) /\ reading' = FALSE /\ UNCHANGED rx
  /\ UNCHANGED <<port, timer, pci, tx, w, peer, out, seen, queued, heard, broken>>

-----------------------------------------------------------------------------
(* listen() at the end of a transmission: all that was left is cleared.    *)
listen ==
  /\ timer' = [timer EXCEPT !.flag = FALSE, !.nvic = FALSE]
  /\ port' = [port EXCEPT !.txInUse = FALSE, !.timed = FALSE]
  /\ pci' = TRUE

(* bug: listen() is forgotten.                                             *)
NextByte_Deaf ==
  /\ IF tx.tail = tx.head
     THEN /\ timer' = [timer EXCEPT !.flag = FALSE, !.nvic = FALSE]
          /\ port' = [port EXCEPT !.txInUse = FALSE]
          /\ UNCHANGED <<pci, tx, out>>
     ELSE /\ port' = beginTX(Taken(port))
          /\ tx' = [tx EXCEPT !.tail = next(@)]
          /\ out' = Append(out, <<tx.buf[next(tx.tail)], 0>>)
          /\ timer' = SetForTX
          /\ UNCHANGED pci

NextByte ==
  /\ IF tx.tail = tx.head
     THEN listen /\ UNCHANGED <<tx, out>>
     ELSE /\ port' = beginTX(Taken(port))
          /\ tx' = [tx EXCEPT !.tail = next(@)]
          /\ out' = Append(out, <<tx.buf[next(tx.tail)], 0>>)
          /\ timer' = SetForTX
          /\ UNCHANGED pci

SendBit(bit, shifted) ==
  /\ out' = Append(out, bit)
  /\ port' = [port EXCEPT !.bitCounter = @ + 1, !.shifts = shifted]
  /\ timer' = [timer EXCEPT !.set = "tx", !.flag = FALSE]
  /\ UNCHANGED <<pci, tx>>

txHandler ==
  LET c == port.bitCounter IN
  CASE c < Bits -> SendBit(Bit(port.shifts + 1), port.shifts + 1)
    [] c = Bits -> SendBit(Bit(IF Parity THEN "parity" ELSE "stop"), port.shifts)
    [] c = Bits + 1 /\ Parity -> SendBit(Bit("stop"), port.shifts)
    [] (c = Bits + 1 /\ ~Parity) \/ c = Bits + 2 -> NextByte
    [] OTHER -> timer' = [timer EXCEPT !.flag = FALSE] /\ UNCHANGED <<port, pci, tx, out>>

(* A byte is what its edges say, if they are all there and no other.       *)
incomingByte ==
  IF \E b \in 1..MaxIn : seen = <<<<b, 1>>, <<b, 2>>>> THEN Head(seen)[1] ELSE Garbage

(* bug: the time of the last edge is kept.                                 *)
rxEndOfByte_Timed ==
  /\ rx' = IF next(rx.head) # rx.tail
           THEN [rx EXCEPT !.buf[next(rx.head)] = incomingByte, !.head = next(rx.head)]
           ELSE rx
  /\ heard' = Append(heard, incomingByte)
  /\ port' = [port EXCEPT !.bitCounter = Bits, !.rxInUse = FALSE]
  /\ timer' = [timer EXCEPT !.flag = FALSE, !.nvic = FALSE]
  /\ seen' = <<>>
  /\ UNCHANGED <<pci, tx, out>>

rxEndOfByte ==
  /\ rx' = IF next(rx.head) # rx.tail
           THEN [rx EXCEPT !.buf[next(rx.head)] = incomingByte, !.head = next(rx.head)]
           ELSE rx
  /\ heard' = Append(heard, incomingByte)
  /\ port' = [port EXCEPT !.bitCounter = Bits, !.timed = FALSE, !.rxInUse = FALSE]
  /\ timer' = [timer EXCEPT !.flag = FALSE, !.nvic = FALSE]
  /\ seen' = <<>>
  /\ UNCHANGED <<pci, tx, out>>

am_stimer_cmpr7_isr ==
  /\ Preempted
  /\ IF port.rxInUse THEN rxEndOfByte
     ELSE /\ IF port.txInUse THEN txHandler
             ELSE timer' = [timer EXCEPT !.flag = FALSE] /\ UNCHANGED <<port, pci, tx, out>>
          /\ UNCHANGED <<rx, heard, seen>>
  /\ UNCHANGED <<sketchVars, peer, broken>>

(* The compare register is set for the end of a byte whose start was seen. *)
ByteComesIn == (timer.set = "rx" \/ port.rxInUse) /\ seen # <<>> /\ Head(seen)[2] = 1

(* The timer comes to the compare register: at the end of a bit, or of the *)
(* byte that is coming in.  What write() has claimed by then it is taken   *)
(* for a bit of.                                                           *)
Compare ==
  /\ timer.set # "none"
  /\ timer.set = "rx" /\ ByteComesIn => peer.edges = 0
  /\ timer' = [timer EXCEPT !.set = "none", !.flag = TRUE]
  /\ Broken("frame", timer.set = "rx" /\ port.txInUse)
  /\ UNCHANGED <<port, pci, tx, rx, sketchVars, peer, out, seen, heard>>

(* rxBit at the first edge of a byte and at another.                       *)
rxBit(edge) ==
  IF ~port.timed
  THEN /\ port' = [port EXCEPT !.bitCounter = 0, !.timed = TRUE, !.rxInUse = TRUE]
       /\ timer' = [timer EXCEPT !.set = "rx", !.nvic = TRUE]
       /\ seen' = <<edge>>
  ELSE /\ port' = [port EXCEPT !.bitCounter = @ + 1]
       /\ seen' = Append(seen, edge)
       /\ UNCHANGED timer

Edge(edge) ==
  /\ IF pci THEN rxBit(edge) ELSE UNCHANGED <<port, timer, seen>>
  /\ UNCHANGED <<pci, tx, rx, sketchVars, out, heard>>

(* The peer, which may not know that the port transmits.                   *)
PeerBegins ==
  /\ peer.edges = 0 /\ peer.n < MaxIn /\ ~ByteComesIn
  /\ peer' = [edges |-> 1, n |-> peer.n + 1]
  /\ Edge(<<peer.n + 1, 1>>)
  /\ broken' = broken \cup (IF w.at # "idle" \/ port.txInUse THEN {"duplex"} ELSE {})
                      \cup (IF pci /\ port.txInUse THEN {"frame"} ELSE {})

PeerEnds ==
  /\ peer.edges = 1
  /\ peer' = [peer EXCEPT !.edges = 0]
  /\ Edge(<<peer.n, 2>>)
  /\ Broken("frame", pci /\ port.txInUse)

Next == write \/ read \/ am_stimer_cmpr7_isr \/ Compare \/ PeerBegins \/ PeerEnds

Spec == Init /\ [][Next]_vars

(* The timer runs, interrupts are taken, a byte begun ends, and the sketch *)
(* goes on with a call.                                                    *)
Fairness == /\ WF_vars(Compare) /\ WF_vars(am_stimer_cmpr7_isr)
            /\ WF_vars(PeerEnds)
            /\ WF_vars(w.at # "idle" /\ write)
FairSpec == Spec /\ Fairness

-----------------------------------------------------------------------------
Frame(b) == <<<<b, 0>>>> \o [k \in 1..Bits |-> <<b, k>>]
            \o (IF Parity THEN <<<<b, "parity">>>> ELSE <<>>) \o <<<<b, "stop">>>>
Frames == FlattenSeq([i \in 1..Len(queued) |-> Frame(queued[i])])

(* On the TX pin are the frames of the bytes written, whole and in order,  *)
(* although write() and the interrupt both start frames and the interrupt  *)
(* may end the last while write() adds one (SoftwareSerial.cpp:219-251,    *)
(* 605-700), and although write() may cut off a byte that is coming in.    *)
(* What disturbs a frame is one of these, and nothing else: write() takes  *)
(* from a ring that the interrupt has emptied since (line 245); the end of *)
(* a byte that write() has cut off comes before the transmission begins    *)
(* (lines 242-251); an edge is heard in a transmission, or the claim finds *)
(* a byte coming in, where the last transmission has ended within the call *)
(* (line 664).                                                             *)
SentInOrder == "frame" \in broken \/ IsPrefix(out, Frames)

(* When nothing is in use any more everything was sent, so that flush()    *)
(* may come back (SoftwareSerial.cpp:195-200), and the port listens again  *)
(* (line 664); with the same exception.                                    *)
QuietMeansSent ==
  w.at = "idle" /\ ~port.txInUse => "frame" \in broken \/ (out = Frames /\ pci)

(* Every byte of the peer is made out of its own edges                     *)
(* (SoftwareSerial.cpp:462-601), until both sides send at once, which is   *)
(* the limit lines 17-20 name.                                             *)
HeardIntact ==
  "duplex" \in broken \/ heard = [i \in 1 .. (IF Receiving THEN peer.n - 1 ELSE peer.n) |-> i]

(* What is read is what was heard, in order, less what a full ring         *)
(* dropped (SoftwareSerial.cpp:174-182, 577-591); with the same limit.     *)
ReadInOrder ==
  "duplex" \in broken \/ \A i, j \in 1..Len(got) : i < j => got[i] < got[j]

(* flush() comes back: the transmission ends without more calls            *)
(* (SoftwareSerial.cpp:197), unless it was disturbed.                      *)
TransmissionEnds == []<>(~port.txInUse \/ "frame" \in broken)

(* SoftwareSerial.cpp:18-20: a print begins at once, and what is lost is   *)
(* RX characters.                                                          *)
PrintsAnyway == IsPrefix(out, Frames)
=============================================================================
