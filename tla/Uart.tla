-------------------------------- MODULE Uart --------------------------------
(***************************************************************************)
(* Serial of the Arduino core: cores/arduino/ard_sup/uart/ap3_uart.cpp     *)
(* over the queues of the HAL (am_hal_uart.c, am_hal_queue.c), and the     *)
(* ring buffer of ard_supers/RingBuffer.h.  A sketch writes and reads; the *)
(* interrupt of the UART comes between any two of its accesses that no     *)
(* critical section joins; the transmitter and the line move by themselves. *)
(* The FIFO of the UART is off (ap3_uart.cpp:334): one holding register    *)
(* and one shift register each way.                                        *)
(*                                                                         *)
(* A byte to be sent is its place in the stream of all bytes the sketch    *)
(* ever gave to write(), a byte received its place on the line.            *)
(***************************************************************************)
EXTENDS Naturals, Sequences

CONSTANTS LinSize,  \* AP3_UART_LINBUFF_SIZE, the capacity of the queues of the HAL too
          RingSize, \* AP3_UART_RINGBUFF_SIZE
          Sizes,    \* lengths of the strings the sketch writes
          MaxOut,   \* bound: bytes written
          MaxIn     \* bound: bytes on the line

UartConstants ==
  /\ {LinSize, MaxOut, MaxIn} \cup Sizes \subseteq Nat \ {0}
  /\ RingSize \in Nat \ {0, 1}

VARIABLES tx,      \* sTxQueue, holding and shift register, what has left, TXRIS; history:
                   \* a refill of the holding register was dropped and none came since
          tx_idle, \* _tx_idle
          w,       \* the call of write(), flush() or end()
          rx,      \* the receive register, RXRIS, how many bytes have come
          ring,    \* _rx_buffer
          r,       \* the call of read_char()
          stored,  \* history: the bytes store_char kept
          got      \* history: the bytes read() returned

vars == <<tx, tx_idle, w, rx, ring, r, stored, got>>
txVars == <<tx, tx_idle, w>>
rxVars == <<rx, ring, r, stored, got>>

Beyond == 0  \* a byte from behind the caller's buffer
Slot == 0 .. RingSize - 1

(* given: the bytes of earlier calls; transferred, as write_nonblocking     *)
(* reports it.                                                             *)
TypeOK ==
  /\ tx \in [queue : Seq(0..MaxOut), hold : Seq(0..MaxOut), shift : Seq(0..MaxOut),
             out : Seq(0..MaxOut), irq : BOOLEAN, dropped : BOOLEAN]
  /\ Len(tx.queue) <= LinSize /\ Len(tx.hold) <= 1 /\ Len(tx.shift) <= 1
  /\ tx_idle \in BOOLEAN
  /\ w \in [at : {"idle", "wait", "space", "add", "update", "blink", "flush", "busy", "off"},
            size : Nat, total : Nat, transferred : 0..LinSize, given : 0..MaxOut]
  /\ rx \in [data : Seq(1..MaxIn), bad : BOOLEAN, irq : BOOLEAN, n : 0..MaxIn]
  /\ ring \in [buf : [Slot -> 0..MaxIn], head : Slot, tail : Slot]
  /\ r \in [at : {"idle", "load", "advance"}, value : 0..MaxIn]
  /\ stored \in Seq(1..MaxIn) /\ got \in Seq(1..MaxIn)

(* After begin().                                                          *)
Init ==
  /\ tx = [queue |-> <<>>, hold |-> <<>>, shift |-> <<>>, out |-> <<>>, irq |-> FALSE,
           dropped |-> FALSE]
  /\ tx_idle = TRUE
  /\ w = [at |-> "idle", size |-> 0, total |-> 0, transferred |-> 0, given |-> 0]
  /\ rx = [data |-> <<>>, bad |-> FALSE, irq |-> FALSE, n |-> 0]
  /\ ring = [buf |-> [i \in Slot |-> 0], head |-> 0, tail |-> 0]
  /\ r = [at |-> "idle", value |-> 0]
  /\ stored = <<>> /\ got = <<>>

-----------------------------------------------------------------------------
Smaller(a, b) == IF a < b THEN a ELSE b
BUSY == tx.hold # <<>> \/ tx.shift # <<>>
SpaceLeft == LinSize - Len(tx.queue)

(* From the queue to the holding register while that is empty.  Writing it *)
(* clears TXRIS.  The register empties in a step of its own.               *)
tx_queue_update(t) ==
  IF t.hold = <<>> /\ t.queue # <<>>
  THEN [t EXCEPT !.hold = <<Head(t.queue)>>, !.queue = Tail(@), !.irq = FALSE,
                 !.dropped = FALSE]
  ELSE t

(* What write() asks the HAL for: the whole length again in every round,   *)
(* from where the last one ended.                                          *)
NumBytes == Smaller(w.size, LinSize)
ByteAt(i) == IF i < w.size THEN w.given + i + 1 ELSE Beyond

CallWrite(size) ==
  /\ w.at = "idle" /\ w.given + size <= MaxOut
  /\ w' = [w EXCEPT !.at = "wait", !.size = size, !.total = 0]
  /\ UNCHANGED <<tx, tx_idle, rxVars>>

WaitForIdle ==
  /\ w.at = "wait" /\ tx_idle
  /\ w' = [w EXCEPT !.at = "space"]
  /\ UNCHANGED <<tx, tx_idle, rxVars>>

ReadSpace ==
  /\ w.at = "space"
  /\ w' = [w EXCEPT !.at = "add", !.transferred = Smaller(NumBytes, SpaceLeft)]
  /\ UNCHANGED <<tx, tx_idle, rxVars>>

(* Its result is ignored.                                                  *)
am_hal_queue_item_add ==
  /\ w.at = "add"
  /\ w' = [w EXCEPT !.at = "update"]
  /\ IF SpaceLeft >= w.transferred
     THEN tx' = [tx EXCEPT !.queue = @ \o [i \in 1..w.transferred |-> ByteAt(w.total + i - 1)]]
     ELSE tx' = tx
  /\ UNCHANGED <<tx_idle, rxVars>>

(* bug: the last round counts what was asked for.                          *)
Transferred_Asked ==
  /\ w.at = "update"
  /\ tx' = tx_queue_update(tx)
  /\ w' = [w EXCEPT !.at = "idle", !.total = 0, !.size = 0, !.given = @ + w.size]
  /\ UNCHANGED <<tx_idle, rxVars>>

(* bug: the writer leaves the first byte to the interrupt.                 *)
Transferred_NoKick ==
  /\ w.at = "update"
  /\ w' = IF w.transferred = w.size
          THEN [w EXCEPT !.at = "idle", !.total = 0, !.size = 0, !.given = @ + w.size]
          ELSE [w EXCEPT !.at = "wait", !.total = @ + w.transferred]
  /\ UNCHANGED <<tx, tx_idle, rxVars>>

(* The end of am_hal_uart_transfer, and of the loop where it is enough.    *)
(* More than enough is the loop of lines 149-160.                          *)
Transferred ==
  /\ w.at = "update"
  /\ tx' = tx_queue_update(tx)
  /\ LET total == w.total + w.transferred IN
       w' = IF total < w.size THEN [w EXCEPT !.at = "wait", !.total = total]
            ELSE IF total = w.size
            THEN [w EXCEPT !.at = "idle", !.total = 0, !.size = 0, !.given = @ + w.size]
            ELSE [w EXCEPT !.at = "blink"]
  /\ UNCHANGED <<tx_idle, rxVars>>

write == \/ \E size \in Sizes : CallWrite(size)
         \/ WaitForIdle \/ ReadSpace \/ am_hal_queue_item_add \/ Transferred

(* end(): am_hal_uart_tx_flush waits for the queue, then for the wire;     *)
(* then the UART is switched off.                                          *)
CallEnd ==
  /\ w.at = "idle"
  /\ w' = [w EXCEPT !.at = "flush"]
  /\ UNCHANGED <<tx, tx_idle, rxVars>>

QueueFlushed ==
  /\ w.at = "flush" /\ tx.queue = <<>>
  /\ w' = [w EXCEPT !.at = "busy"]
  /\ UNCHANGED <<tx, tx_idle, rxVars>>

WireFlushed ==
  /\ w.at = "busy" /\ ~BUSY
  /\ w' = [w EXCEPT !.at = "off"]
  /\ tx' = [tx EXCEPT !.irq = FALSE]
  /\ rx' = [rx EXCEPT !.data = <<>>, !.bad = FALSE, !.irq = FALSE]
  /\ UNCHANGED <<tx_idle, ring, r, stored, got>>

flush == QueueFlushed \/ WireFlushed

(* _begin() configures the HAL afresh and asks it whether it is idle.      *)
begin ==
  /\ w.at = "off"
  /\ w' = [w EXCEPT !.at = "idle"]
  /\ tx' = [tx EXCEPT !.queue = <<>>]
  /\ tx_idle' = TRUE
  /\ UNCHANGED rxVars

-----------------------------------------------------------------------------
next_index(i) == (i + 1) % RingSize

read_char ==
  /\ r.at = "idle" /\ ring.tail # ring.head
  /\ r' = [r EXCEPT !.at = "load"]
  /\ UNCHANGED <<txVars, rx, ring, stored, got>>

LoadChar ==
  /\ r.at = "load"
  /\ r' = [at |-> "advance", value |-> ring.buf[ring.tail]]
  /\ UNCHANGED <<txVars, rx, ring, stored, got>>

AdvanceTail ==
  /\ r.at = "advance"
  /\ r' = [at |-> "idle", value |-> 0]
  /\ ring' = [ring EXCEPT !.tail = next_index(@)]
  /\ got' = Append(got, r.value)
  /\ UNCHANGED <<txVars, rx, stored>>

(* -1, at once.                                                            *)
NothingToRead == r.at = "idle" /\ ring.tail = ring.head /\ UNCHANGED vars

read == read_char \/ LoadChar \/ AdvanceTail \/ NothingToRead

(* bug: a full ring takes one more.                                        *)
store_char_Full(c) ==
  /\ ring' = [ring EXCEPT !.buf[ring.head] = c, !.head = next_index(@)]
  /\ stored' = Append(stored, c)

(* The byte before the tail stays free: a full ring drops what comes.      *)
store_char(c) ==
  IF next_index(ring.head) # ring.tail
  THEN /\ ring' = [ring EXCEPT !.buf[ring.head] = c, !.head = next_index(@)]
       /\ stored' = Append(stored, c)
  ELSE UNCHANGED <<ring, stored>>

-----------------------------------------------------------------------------
(* am_hal_uart_interrupt_service, after both interrupts were cleared: a    *)
(* damaged byte ends it at once, before the refill its TX interrupt asked  *)
(* for.  The idle flag is set here and nowhere cleared.                    *)
Service(status) ==
  LET cleared == [tx EXCEPT !.irq = FALSE]
      served  == IF "TX" \in status THEN tx_queue_update(cleared) ELSE cleared
  IN IF "RX" \in status /\ rx.bad
     THEN /\ tx' = [cleared EXCEPT !.dropped = @ \/ ("TX" \in status /\ tx.queue # <<>>)]
          /\ UNCHANGED tx_idle
     ELSE /\ tx' = served
          /\ tx_idle' = (tx_idle \/ (served.queue \o served.hold \o tx.shift = <<>>))

(* Whatever is in the queue of the receiver goes to the ring: it holds one *)
(* byte at most, and none that is damaged.                                 *)
uart_isr ==
  /\ tx.irq \/ rx.irq
  /\ LET status == {s \in {"TX", "RX"} : IF s = "TX" THEN tx.irq ELSE rx.irq} IN
       /\ Service(status)
       /\ IF "RX" \in status
          THEN /\ rx' = [rx EXCEPT !.data = <<>>, !.bad = FALSE, !.irq = FALSE]
               /\ IF rx.data # <<>> /\ ~rx.bad THEN store_char(Head(rx.data))
                                               ELSE UNCHANGED <<ring, stored>>
          ELSE UNCHANGED <<rx, ring, stored>>
  /\ UNCHANGED <<w, r, got>>

(* The transmitter.  TXRIS comes when the holding register empties.        *)
Load ==
  /\ tx.shift = <<>> /\ tx.hold # <<>>
  /\ tx' = [tx EXCEPT !.shift = tx.hold, !.hold = <<>>, !.irq = TRUE]
  /\ UNCHANGED <<tx_idle, w, rxVars>>

ShiftOut ==
  /\ tx.shift # <<>>
  /\ tx' = [tx EXCEPT !.out = @ \o tx.shift, !.shift = <<>>]
  /\ UNCHANGED <<tx_idle, w, rxVars>>

(* The line, which may damage a byte.  One over another that was not       *)
(* fetched damages that one.                                               *)
Arrive(bad) ==
  /\ w.at # "off" /\ rx.n < MaxIn
  /\ rx.data # <<>> => bad
  /\ rx' = [data |-> IF rx.data = <<>> THEN <<rx.n + 1>> ELSE rx.data,
            bad |-> bad, irq |-> TRUE, n |-> rx.n + 1]
  /\ UNCHANGED <<txVars, ring, r, stored, got>>

Next ==
  \/ write \/ CallEnd \/ flush \/ begin
  \/ read
  \/ uart_isr
  \/ Load \/ ShiftOut
  \/ \E bad \in BOOLEAN : Arrive(bad)

Spec == Init /\ [][Next]_vars

(* The interrupt is served, the transmitter sends, and a sketch inside a   *)
(* call goes on with it.                                                   *)
Fairness ==
  /\ WF_vars(uart_isr) /\ WF_vars(Load) /\ WF_vars(ShiftOut)
  /\ WF_vars(WaitForIdle \/ ReadSpace \/ am_hal_queue_item_add \/ Transferred \/ flush)
  /\ WF_vars(read)
FairSpec == Spec /\ Fairness

-----------------------------------------------------------------------------
(* Every byte given to the HAL is on its way exactly once and in order,    *)
(* however the interrupt and the writer take turns at the queue            *)
(* (am_hal_uart.c:832-842, 1155-1196), and a last round that asked for     *)
(* more than was left of the string puts nothing but bytes from behind it, *)
(* and puts them behind it (ap3_uart.cpp:142).                             *)
SentInOrder ==
  LET counted == w.given + w.total + (IF w.at \in {"update", "blink"} THEN w.transferred ELSE 0)
  IN tx.out \o tx.shift \o tx.hold \o tx.queue =
       [i \in 1..counted |-> IF i <= w.given + w.size THEN i ELSE Beyond]

(* ap3_uart.cpp:124 and 137: the string is printed, in rounds that wait    *)
(* for the transmitter; nothing but the string is.                         *)
OnlyTheString == \A i \in 1..Len(tx.queue) : tx.queue[i] # Beyond

(* The ring holds what was stored and not read, although read_char looks   *)
(* at head and tail while the interrupt stores (RingBuffer.h:67-99).      *)
ReadInOrder ==
  LET len == (ring.head + RingSize - ring.tail) % RingSize
  IN got \o [i \in 1..len |-> ring.buf[(ring.tail + i - 1) % RingSize]] = stored

(* end() does not switch off before the last byte is on the wire: there is *)
(* no moment when the queue is empty, the wire idle, and a byte between    *)
(* (ap3_uart.cpp:73, am_hal_uart.c:1069-1083).                             *)
NothingCutOff == w.at = "off" => Len(tx.out) = w.given

(* Once begun, the bytes given to the UART leave, without more calls       *)
(* (am_hal_uart.c:1230-1234); but for a refill that a damaged byte has     *)
(* dropped, until the next call makes up for it (lines 1223, 842).         *)
EverythingLeaves == []<>(Len(tx.out) >= w.given \/ tx.dropped)

(* flush(), and end() with it, comes back, but for such a refill           *)
(* (ap3_uart.cpp:107-111).                                                 *)
FlushReturns == w.at = "flush" ~> w.at = "off" \/ tx.dropped

(* ap3_uart.cpp:109: it makes sure that the UART has finished sending.     *)
FlushAlwaysReturns == w.at = "flush" ~> w.at = "off"
=============================================================================
